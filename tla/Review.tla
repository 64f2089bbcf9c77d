-------------------------------- MODULE Review --------------------------------
(***************************************************************************)
(* The review deck of src/internal/db/srs.go: memories enrolled in it, and *)
(* their SM-2 schedules.  Enrolling and grading are several statements     *)
(* with no transaction around them; drops, deletions and other grades run  *)
(* in between.                                                             *)
(*                                                                         *)
(* Ease is counted in hundredths, time in days.  The content of the cards  *)
(* and their order in the queue are left out.                              *)
(***************************************************************************)
EXTENDS Integers

CONSTANTS Memos,      \* memory ids, drawn once each
          Reviewers,  \* calls under way at once
          Grades,     \* of 0..5, the grades that are given
          MaxDay,     \* bound on time
          MaxReps     \* bound on the grades of one card

ASSUME GradesAssumption == Grades \subseteq 0..5
ASSUME RepsAssumption == MaxReps \in Nat /\ MaxDay \in Nat

NoCard  == [reps |-> -1]
MinEase == 130
Fresh(day) == [ease |-> 250, interval |-> 0, reps |-> 0, due |-> day]
Card    == [ease : Nat, interval : Nat, reps : Nat, due : Nat]

VARIABLES
  day,
  memo,    \* memo[m]: "absent", "live" or "deleted"
  card,    \* srs: card[m], NoCard when there is no row
  review   \* review[c]: the call under way

deck == <<day, memo, card, review>>

AtRest == [op |-> "rest"]
Call   == [op : {"enroll", "insert", "grade"}, id : Memos, grade : Grades \cup {-1},
           read : Card \cup {NoCard}]

ReviewInit ==
  /\ day = 0
  /\ memo = [m \in Memos |-> "absent"]
  /\ card = [m \in Memos |-> NoCard]
  /\ review = [c \in Reviewers |-> AtRest]

ReviewAt(c, op) == review[c] # AtRest /\ review[c].op = op
Call1(c, op, m, g, k) ==
  review' = [review EXCEPT ![c] = [op |-> op, id |-> m, grade |-> g, read |-> k]]
Finish(c) == review' = [review EXCEPT ![c] = AtRest]
-----------------------------------------------------------------------------
(* The schedule. *)

AtLeast(x, y) == IF x < y THEN y ELSE x

\* An interval times an ease, rounded.
Stretched(i, e) == AtLeast((2 * i * e + 100) \div 200, 1)

NextInterval(k) ==
  IF k.reps = 0 THEN 1 ELSE IF k.reps = 1 THEN 6 ELSE Stretched(k.interval, k.ease)

\* 0.1 - (5 - q) * (0.08 + (5 - q) * 0.02)
EaseChange(q) == 10 - (5 - q) * (8 + (5 - q) * 2)

\* A grade below 3 starts the card over, due at once.
Graded(k, q) ==
  LET i == IF q < 3 THEN 0 ELSE NextInterval(k)
  IN  [ease |-> AtLeast(k.ease + EaseChange(q), MinEase), interval |-> i,
       reps |-> IF q < 3 THEN 0 ELSE k.reps + 1, due |-> day + i]
-----------------------------------------------------------------------------
(* The calls. *)

\* Engine.AddToReview: the caller can read the memory ...
AddToReview(c, m) ==
  /\ review[c] = AtRest /\ memo[m] = "live"
  /\ Call1(c, "enroll", m, -1, NoCard)
  /\ UNCHANGED <<day, memo, card>>

\* ... it still exists ...
MemoryExists(c) ==
  LET m == review[c].id IN
  /\ ReviewAt(c, "enroll")
  /\ IF memo[m] = "live" THEN Call1(c, "insert", m, -1, NoCard) ELSE Finish(c)
  /\ UNCHANGED <<day, memo, card>>

\* ... and a row is inserted unless there is one; of a memory that has gone
\* meanwhile the foreign key refuses it.
InsertOrIgnore(c) ==
  LET m == review[c].id IN
  /\ ReviewAt(c, "insert")
  /\ IF memo[m] = "live" /\ card[m] = NoCard
     THEN card' = [card EXCEPT ![m] = Fresh(day)] ELSE UNCHANGED card
  /\ Finish(c)
  /\ UNCHANGED <<day, memo>>

RemoveFromReview(m) ==
  /\ card[m] # NoCard
  /\ card' = [card EXCEPT ![m] = NoCard]
  /\ UNCHANGED <<day, memo, review>>

\* Grade reads the card, if there is one ...
Grade(c, m, q) ==
  /\ review[c] = AtRest /\ card[m] # NoCard /\ card[m].reps < MaxReps
  /\ Call1(c, "grade", m, q, card[m])
  /\ UNCHANGED <<day, memo, card>>

\* faulty variant: an upsert
UpdateCard_Upsert(c) ==
  LET r == review[c] IN
  /\ ReviewAt(c, "grade")
  /\ card' = [card EXCEPT ![r.id] = Graded(r.read, r.grade)]
  /\ Finish(c)
  /\ UNCHANGED <<day, memo>>

\* ... and writes what it makes of it, if there still is one.
UpdateCard(c) ==
  LET r == review[c] IN
  /\ ReviewAt(c, "grade")
  /\ card' = IF card[r.id] = NoCard THEN card
             ELSE [card EXCEPT ![r.id] = Graded(r.read, r.grade)]
  /\ Finish(c)
  /\ UNCHANGED <<day, memo>>

\* Elsewhere: a memory is written; it is deleted, and its card with it.
WriteMemo(m) ==
  /\ memo[m] = "absent"
  /\ memo' = [memo EXCEPT ![m] = "live"]
  /\ UNCHANGED <<day, card, review>>

DeleteMemo(m) ==
  /\ memo[m] = "live"
  /\ memo' = [memo EXCEPT ![m] = "deleted"]
  /\ card' = [card EXCEPT ![m] = NoCard]
  /\ UNCHANGED <<day, review>>

NextDay ==
  /\ day < MaxDay /\ day' = day + 1
  /\ UNCHANGED <<memo, card, review>>

ReviewNext ==
  \/ \E c \in Reviewers :
       \/ \E m \in Memos : AddToReview(c, m) \/ \E q \in Grades : Grade(c, m, q)
       \/ MemoryExists(c) \/ InsertOrIgnore(c) \/ UpdateCard(c)
  \/ \E m \in Memos : RemoveFromReview(m) \/ WriteMemo(m) \/ DeleteMemo(m)
  \/ NextDay

ReviewSpec == ReviewInit /\ [][ReviewNext]_deck
-----------------------------------------------------------------------------
(* Properties. *)

\* reps, interval and due agree, the more passes the longer the interval, and
\* ease keeps to its floor (RVW-03, RVW-04, RVW-05).
Coherent(k) ==
  /\ k.ease >= MinEase
  /\ k.interval = (IF k.reps = 0 THEN 0 ELSE IF k.reps = 1 THEN 1
                   ELSE IF k.reps = 2 THEN 6 ELSE AtLeast(k.interval, 6 + k.reps - 1))
  /\ k.due >= k.interval

ReviewTypeOK ==
  /\ day \in Nat
  /\ memo \in [Memos -> {"absent", "live", "deleted"}]
  /\ card \in [Memos -> Card \cup {NoCard}]
  /\ review \in [Reviewers -> {AtRest} \cup Call]
  /\ \A m \in Memos : card[m] # NoCard => memo[m] = "live" /\ Coherent(card[m])

\* The deck holds what was put into it: a card is of a live memory, appears only
\* by enrolling and then fresh, and once there is changed by grades alone; a
\* grade or an enrolment that began before the card was dropped or the memory
\* deleted brings back neither (RVW-02, RVW-06, RVW-09).
NoPhantomCard ==
  [][\A m \in Memos : card'[m] # card[m] /\ card'[m] # NoCard =>
       /\ memo'[m] = "live"
       /\ IF card[m] = NoCard THEN card'[m] = Fresh(day)
          ELSE \E c \in Reviewers : ReviewAt(c, "grade") /\ review[c].id = m
                 /\ (review[c].grade >= 3 => card'[m].interval > review[c].read.interval)]_deck
=============================================================================
