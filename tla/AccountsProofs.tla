--------------------------- MODULE AccountsProofs ---------------------------
(***************************************************************************)
(* Accounts for any identities, tokens, sessions and handlers: its types,  *)
(* that logging in and confirming open sessions of confirmed accounts      *)
(* only, and that a reset token that has set a password is on no row.      *)
(*                                                                         *)
(* The argument for the first: a row is never made anew and never loses    *)
(* its confirmation, so what a handler has seen of it stands for as long   *)
(* as the row does.  For the second: a token is issued once and to one     *)
(* row, which a handler that has selected by it goes back to by id; so     *)
(* whatever that row holds by then, the token is nowhere else.             *)
(***************************************************************************)
EXTENDS Accounts, TLAPS

\* A handler's step follows from its kind, and one that redeems has a token.
Ordered(c) ==
  /\ At(c, "confirm") => call[c].op = "confirm"
  /\ At(c, "checkConfirmed") => call[c].op = "login"
  /\ At(c, "setPassword") => call[c].op = "reset" /\ call[c].token \in ResetTokens
  /\ At(c, "session") => call[c].op \in {"confirm", "login", "reset"}

InOrder == \A c \in Calls : Ordered(c)

\* The row has been made, and if it is still there it has been confirmed.
Made(i)    == row[i] # Absent
Settled(i) == Made(i) /\ (Present(i) => row[i].confirmed)

Entered ==
  /\ \A s \in Sessions :
       session[s] \in Entry =>
         Made(session[s].id) /\ (session[s].by # "reset" => Settled(session[s].id))
  /\ \A c \in Calls :
       call[c] # Free =>
         Made(call[c].id) /\ (At(c, "session") /\ call[c].op # "reset" => Settled(call[c].id))

\* i's row has token k.
Has(i, k) == Present(i) /\ row[i].reset = k

TokensOnce ==
  /\ \A i \in Ids, k \in ResetTokens : Has(i, k) => k \in issued
  /\ \A i, j \in Ids, k \in ResetTokens : Has(i, k) /\ Has(j, k) => i = j
  /\ \A c \in Calls, i \in Ids :
       At(c, "setPassword") =>
         call[c].token \in issued /\ (Has(i, call[c].token) => i = call[c].id)

IInv == TypeOK /\ InOrder /\ Entered /\ TokensOnce /\ UsedTokensAreDead

-----------------------------------------------------------------------------
(* Rows, sessions and handlers are told from their empty slots. *)

LEMMA Shapes ==
  /\ Absent \notin Row /\ Deleted \notin Row /\ Absent # Deleted
  /\ Unused \notin Entry /\ Ended \notin Entry /\ Free \notin CallRecord
<1>1. Absent \notin Row /\ Deleted \notin Row /\ Absent # Deleted
  BY DEF Absent, Deleted, Row
<1>2. Unused \notin Entry /\ Ended \notin Entry
  BY DEF Unused, Ended, Entry
<1>3. Free \notin CallRecord
  BY DEF Free, CallRecord
<1> QED  BY <1>1, <1>2, <1>3

LEMMA PresentIsRow ==
  ASSUME TypeOK, NEW i \in Ids
  PROVE  Present(i) <=> row[i] \in Row
BY Shapes DEF TypeOK, Present

LEMMA BusyIsRecord ==
  ASSUME TypeOK, NEW c \in Calls, call[c] # Free
  PROVE  call[c] \in CallRecord
BY DEF TypeOK

\* A step of a handler keeps everything of it but its pc.
LEMMA GotoKeeps ==
  ASSUME TypeOK, NEW c \in Calls, call[c] # Free, Goto(c, "session")
  PROVE  /\ call' \in [Calls -> {Free} \cup CallRecord]
         /\ call'[c] # Free /\ call'[c].pc = "session"
         /\ call'[c].op = call[c].op /\ call'[c].id = call[c].id
         /\ call'[c].token = call[c].token
         /\ \A d \in Calls : d # c => call'[d] = call[d]
<1>1. call[c] \in CallRecord
  BY DEF TypeOK
<1>2. call'[c] = [call[c] EXCEPT !.pc = "session"]
  BY DEF TypeOK, Goto
<1>3. call'[c] \in CallRecord
  BY <1>1, <1>2 DEF CallRecord
<1> QED  BY <1>1, <1>2, <1>3, Shapes DEF Goto, TypeOK, CallRecord

LEMMA ReturnKeeps ==
  ASSUME TypeOK, NEW c \in Calls, Return(c)
  PROVE  /\ call' \in [Calls -> {Free} \cup CallRecord]
         /\ call'[c] = Free
         /\ \A d \in Calls : d # c => call'[d] = call[d]
BY DEF Return, TypeOK

LEMMA BeginKeeps ==
  ASSUME TypeOK, NEW c \in Calls,
         NEW op \in {"signup", "confirm", "login", "forgot", "reset"}, NEW i \in Ids,
         NEW p \in Passwords \cup {None}, NEW k \in ResetTokens \cup {None},
         NEW pc \in {"issueConfirm", "confirm", "checkConfirmed", "issueReset", "setPassword"},
         Begin(c, op, i, p, k, pc)
  PROVE  /\ call' \in [Calls -> {Free} \cup CallRecord]
         /\ call[c] = Free /\ call'[c] # Free
         /\ call'[c].op = op /\ call'[c].id = i /\ call'[c].token = k /\ call'[c].pc = pc
         /\ \A d \in Calls : d # c => call'[d] = call[d]
<1>1. [op |-> op, id |-> i, password |-> p, token |-> k, pc |-> pc] \in CallRecord
  BY DEF CallRecord
<1> QED  BY <1>1, Shapes DEF Begin, TypeOK
-----------------------------------------------------------------------------
(* What a step does to a row. *)

Rows == [Ids -> {Absent, Deleted} \cup Row]

\* The hidden identity of a legacy grant: nobody can log in as it.
Hidden(i) == Present(i) => row[i].by = "grant" /\ row[i].email = None

\* The row is not made anew, does not lose its confirmation and, hidden, stays so.
Ages(i) ==
  Made(i) => /\ Made(i)' /\ (Hidden(i) => Hidden(i)')
             /\ Present(i)' => Present(i) /\ (row[i].confirmed => row'[i].confirmed)

\* It gets no token it has not had.
NoNewToken(i) == \A k \in ResetTokens : Has(i, k)' => Has(i, k)

RowAges == row' \in Rows /\ \A i \in Ids : Ages(i) /\ NoNewToken(i)

LEMMA InsertAges ==
  ASSUME TypeOK, NEW i \in Ids, NEW e \in Emails \cup {None}, NEW p \in Passwords \cup {None},
         NEW confirmed \in BOOLEAN, NEW by \in {"signup", "admin", "process", "grant"},
         Insert(i, e, p, confirmed, by)
  PROVE  RowAges /\ Made(i)' /\ \A j \in Ids : j # i => row'[j] = row[j]
<1> DEFINE r == [email |-> e, password |-> p, confirmed |-> confirmed, confirm |-> "unset",
                 reset |-> None, resetLive |-> FALSE, by |-> by]
<1>1. r \in Row
  BY DEF Row
<1>2. row \in Rows /\ row[i] = Absent /\ row' = [row EXCEPT ![i] = r]
  BY DEF Insert, TypeOK, Rows
<1>3. row' \in Rows
  BY <1>1, <1>2 DEF Rows
<1>4. row'[i] = r /\ \A j \in Ids : j # i => row'[j] = row[j]
  BY <1>2 DEF Rows
<1>5. Ages(i) /\ Made(i)'
  BY <1>1, <1>2, <1>4, Shapes DEF Ages, Hidden, Made
<1>6. r.reset = None
  OBVIOUS
<1>7. NoNewToken(i)
  BY <1>4, <1>6, NoneAssumption DEF NoNewToken, Has, Present
<1>8. \A j \in Ids : j # i => Ages(j) /\ NoNewToken(j)
  BY <1>4 DEF Ages, Hidden, NoNewToken, Has, Made, Present
<1> QED  BY <1>3, <1>4, <1>5, <1>7, <1>8 DEF RowAges

\* An UPDATE of a row that is there, by one that is as old and has no new token.
LEMMA UpdateAges ==
  ASSUME TypeOK, NEW i \in Ids, Present(i), NEW r \in Row,
         row[i].confirmed => r.confirmed,
         row[i].by = "grant" => r.by = "grant" /\ r.email = row[i].email,
         r.reset \in {row[i].reset, None},
         row' = [row EXCEPT ![i] = r]
  PROVE  RowAges
<1>1. row \in Rows
  BY DEF TypeOK, Rows
<1>2. row' \in Rows
  BY <1>1 DEF Rows
<1>3. row'[i] = r /\ \A j \in Ids : j # i => row'[j] = row[j]
  BY <1>1 DEF Rows
<1>4. Ages(i)
  BY <1>3, Shapes DEF Ages, Hidden, Made, Present
<1>5. NoNewToken(i)
  BY <1>3, NoneAssumption DEF NoNewToken, Has, Present
<1>6. \A j \in Ids : j # i => Ages(j) /\ NoNewToken(j)
  BY <1>3 DEF Ages, Hidden, NoNewToken, Has, Made, Present
<1> QED  BY <1>2, <1>4, <1>5, <1>6 DEF RowAges

LEMMA SameRowAges ==
  ASSUME TypeOK, row' = row
  PROVE  RowAges
BY DEF RowAges, Rows, TypeOK, Ages, Hidden, Hidden, NoNewToken, Made, Has, Present

-----------------------------------------------------------------------------
(* The step of the whole system on rows: all but the new token of            *)
(* SetResetToken is aging.                                                   *)

\* An update that may find its row gone.
LEMMA UpdateOrNothingAges ==
  ASSUME TypeOK, NEW i \in Ids, NEW r,
         Present(i) => /\ r \in Row /\ (row[i].confirmed => r.confirmed)
                       /\ row[i].by = "grant" => r.by = "grant" /\ r.email = row[i].email
                       /\ r.reset \in {row[i].reset, None},
         row' = IF Present(i) THEN [row EXCEPT ![i] = r] ELSE row
  PROVE  RowAges
BY UpdateAges, SameRowAges

LEMMA SetConfirmTokenAges ==
  ASSUME TypeOK, NEW c \in Calls, SetConfirmToken(c)
  PROVE  RowAges
<1> DEFINE i == call[c].id  r == [row[i] EXCEPT !.confirm = "live"]
<1>1. i \in Ids
  BY BusyIsRecord DEF SetConfirmToken, At, CallRecord
<1>2. Present(i) => /\ r \in Row /\ r.by = row[i].by /\ r.email = row[i].email
                    /\ r.confirmed = row[i].confirmed /\ r.reset = row[i].reset
  BY <1>1, PresentIsRow DEF Row
<1>3. row' = IF Present(i) THEN [row EXCEPT ![i] = r] ELSE row
  BY DEF SetConfirmToken
<1> QED  BY <1>1, <1>2, <1>3, UpdateOrNothingAges

LEMMA ConfirmByTokenAges ==
  ASSUME TypeOK, NEW c \in Calls, ConfirmByToken(c)
  PROVE  RowAges /\ (Present(call[c].id) => row'[call[c].id].confirmed)
<1> DEFINE i == call[c].id  r == [row[i] EXCEPT !.confirmed = TRUE, !.confirm = "used"]
<1>1. i \in Ids
  BY BusyIsRecord DEF ConfirmByToken, At, CallRecord
<1>2. Present(i) => /\ r \in Row /\ r.by = row[i].by /\ r.email = row[i].email
                    /\ r.confirmed /\ r.reset = row[i].reset
  BY <1>1, PresentIsRow DEF Row
<1>3. row' = IF Present(i) THEN [row EXCEPT ![i] = r] ELSE row
  BY DEF ConfirmByToken
<1>4. Present(i) => row'[i] = r
  BY <1>1, <1>3 DEF TypeOK
<1> QED  BY <1>1, <1>2, <1>3, <1>4, UpdateOrNothingAges

LEMMA ResetPasswordByTokenAges ==
  ASSUME TypeOK, NEW c \in Calls, ResetPasswordByToken(c)
  PROVE  RowAges /\ (Present(call[c].id) => row'[call[c].id].reset = None)
<1> DEFINE i == call[c].id
           r == [row[i] EXCEPT !.password = call[c].password, !.reset = None,
                               !.resetLive = FALSE]
<1>1. i \in Ids /\ call[c].password \in Passwords \cup {None}
  BY BusyIsRecord DEF ResetPasswordByToken, At, CallRecord
<1>2. Present(i) => /\ r \in Row /\ r.by = row[i].by /\ r.email = row[i].email
                    /\ r.confirmed = row[i].confirmed /\ r.reset = None
  <2>1. SUFFICES ASSUME Present(i)
                 PROVE  /\ r \in Row /\ r.by = row[i].by /\ r.email = row[i].email
                        /\ r.confirmed = row[i].confirmed /\ r.reset = None
    OBVIOUS
  <2>2. row[i] \in Row
    BY <1>1, <2>1, PresentIsRow
  <2> HIDE DEF i
  <2> DEFINE p == call[c].password
  <2>3. p \in Passwords \cup {None}
    BY <1>1
  <2> HIDE DEF p
  <2>4. r = [row[i] EXCEPT !.password = p, !.reset = None, !.resetLive = FALSE]
    BY DEF p
  <2> QED  BY <2>2, <2>3, <2>4 DEF Row
<1>3. row' = IF Present(i) THEN [row EXCEPT ![i] = r] ELSE row
  BY DEF ResetPasswordByToken
<1>4. Present(i) => row'[i] = r
  BY <1>1, <1>3 DEF TypeOK
<1> QED  BY <1>1, <1>2, <1>3, <1>4, UpdateOrNothingAges

LEMMA SetPasswordAges ==
  ASSUME TypeOK, NEW i \in Ids, NEW p \in Passwords, SetPassword(i, p)
  PROVE  RowAges
<1> DEFINE r == [row[i] EXCEPT !.password = p]
<1>1. /\ r \in Row /\ r.by = row[i].by /\ r.email = row[i].email
      /\ r.confirmed = row[i].confirmed /\ r.reset = row[i].reset
  BY PresentIsRow DEF SetPassword, Row
<1> QED  BY <1>1, UpdateAges DEF SetPassword

LEMMA PromoteToAdminAges ==
  ASSUME TypeOK, PromoteToAdmin
  PROVE  RowAges
<1>1. PICK i \in Ids, e \in Emails, p \in Passwords :
        /\ Present(i) /\ row[i].by = "process"
        /\ row' = [row EXCEPT ![i].email = e, ![i].password = p]
  BY DEF PromoteToAdmin
<1> DEFINE r == [row[i] EXCEPT !.email = e, !.password = p]
<1>2. r \in Row /\ r.confirmed = row[i].confirmed /\ r.reset = row[i].reset
  BY <1>1, PresentIsRow DEF Row
<1>3. row' = [row EXCEPT ![i] = r]
  BY <1>1
<1> QED  BY <1>1, <1>2, <1>3, UpdateAges

LEMMA ExpiryAges ==
  ASSUME TypeOK, NEW i \in Ids, ConfirmExpires(i) \/ ResetExpires(i)
  PROVE  RowAges
<1>1. CASE ConfirmExpires(i)
  <2> DEFINE r == [row[i] EXCEPT !.confirm = "expired"]
  <2>1. /\ r \in Row /\ r.by = row[i].by /\ r.email = row[i].email
        /\ r.confirmed = row[i].confirmed /\ r.reset = row[i].reset
    BY <1>1, PresentIsRow DEF ConfirmExpires, Row
  <2> QED  BY <1>1, <2>1, UpdateAges DEF ConfirmExpires
<1>2. CASE ResetExpires(i)
  <2> DEFINE r == [row[i] EXCEPT !.resetLive = FALSE]
  <2>1. /\ r \in Row /\ r.by = row[i].by /\ r.email = row[i].email
        /\ r.confirmed = row[i].confirmed /\ r.reset = row[i].reset
    BY <1>2, PresentIsRow DEF ResetExpires, Row
  <2> QED  BY <1>2, <2>1, UpdateAges DEF ResetExpires
<1> QED  BY <1>1, <1>2

LEMMA DeleteAges ==
  ASSUME TypeOK, NEW i \in Ids, row' = [row EXCEPT ![i] = Deleted]
  PROVE  RowAges /\ ~Present(i)' /\ \A j \in Ids : j # i => row'[j] = row[j]
<1>1. row'[i] = Deleted /\ \A j \in Ids : j # i => row'[j] = row[j]
  BY DEF TypeOK
<1>2. row' \in Rows
  BY DEF TypeOK, Rows
<1>3. ~Present(i)'
  BY <1>1 DEF Present
<1>4. Ages(i) /\ NoNewToken(i)
  BY <1>1, <1>3, Shapes DEF Ages, Hidden, NoNewToken, Has, Made
<1>5. \A j \in Ids : j # i => Ages(j) /\ NoNewToken(j)
  BY <1>1 DEF Ages, Hidden, NoNewToken, Has, Made, Present
<1> QED  BY <1>1, <1>2, <1>3, <1>4, <1>5 DEF RowAges

LEMMA MigrateAges ==
  ASSUME TypeOK, Migrate
  PROVE  RowAges
<1>1. ASSUME NEW i \in Ids
      PROVE  row'[i] \in {Absent, Deleted} \cup Row /\ Ages(i) /\ NoNewToken(i)
  <2> DEFINE r == [row[i] EXCEPT !.confirmed = TRUE]
  <2>1. row'[i] = row[i] \/ (Present(i) /\ row'[i] = r)
    BY DEF Migrate
  <2>2. Present(i) => /\ r \in Row /\ r.by = row[i].by /\ r.email = row[i].email
                    /\ r.confirmed /\ r.reset = row[i].reset
    BY PresentIsRow DEF Row
  <2>3. CASE row'[i] = row[i]
    BY <2>3 DEF TypeOK, Ages, Hidden, NoNewToken, Has, Made, Present
  <2>4. CASE Present(i) /\ row'[i] = r
    BY <2>2, <2>4, Shapes DEF Ages, Hidden, NoNewToken, Has, Made, Present
  <2> QED  BY <2>1, <2>3, <2>4
<1>2. \E f : row' = [i \in Ids |-> f[i]]
  <2> DEFINE f == [i \in Ids |->
               IF Present(i) /\ row[i].password # None
                  /\ row[i].confirm \in {"unset", "used"}
               THEN [row[i] EXCEPT !.confirmed = TRUE] ELSE row[i]]
  <2>1. row' = f
    BY DEF Migrate
  <2>2. f = [i \in Ids |-> f[i]]
    OBVIOUS
  <2> QED  BY <2>1, <2>2
<1>3. row' \in Rows
  BY <1>1, <1>2 DEF Rows
<1> QED  BY <1>1, <1>3 DEF RowAges

\* The one step that gives a row a token: a new one.
LEMMA SetResetTokenGives ==
  ASSUME TypeOK, NEW c \in Calls, SetResetToken(c)
  PROVE  /\ row' \in Rows /\ \A i \in Ids : Ages(i)
         /\ \E k \in ResetTokens \ issued :
              /\ issued' = issued \cup {k}
              /\ \A i \in Ids, m \in ResetTokens :
                   Has(i, m)' => Has(i, m) \/ (m = k /\ i = call[c].id)
<1> DEFINE i == call[c].id  r(k) == [row[i] EXCEPT !.reset = k, !.resetLive = TRUE]
<1>1. i \in Ids
  BY BusyIsRecord DEF SetResetToken, At, CallRecord
<1>2. PICK k \in ResetTokens \ issued :
        /\ issued' = issued \cup {k}
        /\ row' = IF Present(i) THEN [row EXCEPT ![i] = r(k)] ELSE row
  BY DEF SetResetToken
<1>3. Present(i) => r(k) \in Row /\ r(k).by = row[i].by /\ r(k).email = row[i].email
                    /\ r(k).confirmed = row[i].confirmed /\ r(k).reset = k
  BY <1>1, PresentIsRow DEF Row
<1> HIDE DEF i, r
<1>4. CASE ~Present(i)
  BY <1>2, <1>4, SameRowAges DEF RowAges, NoNewToken
<1>5. CASE Present(i)
  <2>1. row'[i] = r(k) /\ \A j \in Ids : j # i => row'[j] = row[j]
    BY <1>1, <1>2, <1>5 DEF TypeOK
  <2>2. row' \in Rows
    BY <1>1, <1>2, <1>3, <1>5 DEF TypeOK, Rows
  <2>3. \A j \in Ids : Ages(j)
    BY <1>3, <1>5, <2>1, Shapes DEF Ages, Hidden, Made, Present
  <2>4. \A j \in Ids, m \in ResetTokens : Has(j, m)' => Has(j, m) \/ (m = k /\ j = i)
    BY <1>3, <1>5, <2>1 DEF Has, Present
  <2> QED  BY <1>2, <2>2, <2>3, <2>4 DEF i
<1> QED  BY <1>4, <1>5

-----------------------------------------------------------------------------
(* The step of a handler. *)

\* It begins with a row that has been made, ...
Begins(c) ==
  /\ call[c] = Free /\ call'[c] # Free /\ Made(call[c].id)'
  /\ ~At(c, "session")' /\ Ordered(c)'
  /\ At(c, "setPassword")' => row' = row /\ Has(call'[c].id, call'[c].token)

\* ... or comes to its last step, with a confirmed account or to reset a password.
GoesOn(c) ==
  /\ call[c] # Free /\ call'[c] # Free /\ At(c, "session")' /\ Ordered(c)'
  /\ call'[c].op = call[c].op /\ call'[c].id = call[c].id
  /\ call[c].op # "reset" => (Present(call[c].id) => row'[call[c].id].confirmed)

CallSteps(c) ==
  /\ call' \in [Calls -> {Free} \cup CallRecord]
  /\ \A d \in Calls : d # c => call'[d] = call[d]
  /\ call'[c] = Free \/ Begins(c) \/ GoesOn(c)

LEMMA SignupSteps ==
  ASSUME TypeOK, NEW c \in Calls, Signup(c)
  PROVE  CallSteps(c) /\ RowAges
<1>1. PICK i \in Ids, e \in Emails, p \in Passwords :
        Insert(i, e, p, FALSE, "signup") /\ Begin(c, "signup", i, p, None, "issueConfirm")
  BY DEF Signup
<1>2. RowAges /\ Made(i)'
  BY <1>1, InsertAges
<1>3. /\ call' \in [Calls -> {Free} \cup CallRecord]
      /\ call[c] = Free /\ call'[c] # Free /\ call'[c].id = i /\ call'[c].pc = "issueConfirm"
      /\ \A d \in Calls : d # c => call'[d] = call[d]
  BY <1>1, BeginKeeps
<1> QED  BY <1>2, <1>3 DEF CallSteps, Begins, Ordered, At

LEMMA ConfirmSteps ==
  ASSUME TypeOK, NEW c \in Calls, Confirm(c)
  PROVE  CallSteps(c) /\ row' = row
<1>1. PICK i \in Ids : Present(i) /\ Begin(c, "confirm", i, None, None, "confirm")
  BY DEF Confirm
<1>2. /\ call' \in [Calls -> {Free} \cup CallRecord]
      /\ call[c] = Free /\ call'[c] # Free /\ call'[c].id = i /\ call'[c].pc = "confirm"
      /\ call'[c].op = "confirm"
      /\ \A d \in Calls : d # c => call'[d] = call[d]
  BY <1>1, BeginKeeps
<1> QED  BY <1>1, <1>2 DEF Confirm, CallSteps, Begins, Ordered, At, Made, Present

LEMMA LoginSteps ==
  ASSUME TypeOK, NEW c \in Calls, Login(c)
  PROVE  CallSteps(c) /\ row' = row
<1>1. PICK i \in Ids, p \in Passwords :
        Present(i) /\ Begin(c, "login", i, p, None, "checkConfirmed")
  BY DEF Login
<1>2. /\ call' \in [Calls -> {Free} \cup CallRecord]
      /\ call[c] = Free /\ call'[c] # Free /\ call'[c].id = i /\ call'[c].pc = "checkConfirmed"
      /\ call'[c].op = "login"
      /\ \A d \in Calls : d # c => call'[d] = call[d]
  BY <1>1, BeginKeeps
<1> QED  BY <1>1, <1>2 DEF Login, CallSteps, Begins, Ordered, At, Made, Present

LEMMA ForgotSteps ==
  ASSUME TypeOK, NEW c \in Calls, Forgot(c)
  PROVE  CallSteps(c) /\ row' = row
<1>1. PICK i \in Ids : Present(i) /\ Begin(c, "forgot", i, None, None, "issueReset")
  BY DEF Forgot
<1>2. /\ call' \in [Calls -> {Free} \cup CallRecord]
      /\ call[c] = Free /\ call'[c] # Free /\ call'[c].id = i /\ call'[c].pc = "issueReset"
      /\ \A d \in Calls : d # c => call'[d] = call[d]
  BY <1>1, BeginKeeps
<1> QED  BY <1>1, <1>2 DEF Forgot, CallSteps, Begins, Ordered, At, Made, Present

LEMMA ResetSteps ==
  ASSUME TypeOK, NEW c \in Calls, Reset(c)
  PROVE  CallSteps(c) /\ row' = row
<1>1. PICK i \in Ids, p \in Passwords :
        /\ Present(i) /\ row[i].reset # None
        /\ Begin(c, "reset", i, p, row[i].reset, "setPassword")
  BY DEF Reset
<1>2. row[i].reset \in ResetTokens
  BY <1>1, PresentIsRow DEF Row
<1>3. /\ call' \in [Calls -> {Free} \cup CallRecord]
      /\ call[c] = Free /\ call'[c] # Free /\ call'[c].id = i /\ call'[c].pc = "setPassword"
      /\ call'[c].op = "reset" /\ call'[c].token = row[i].reset
      /\ \A d \in Calls : d # c => call'[d] = call[d]
  BY <1>1, <1>2, BeginKeeps
<1>4. row' = row
  BY DEF Reset
<1>5. Made(i)' /\ Has(i, row[i].reset)
  BY <1>1, <1>4 DEF Made, Present, Has
<1> QED  BY <1>2, <1>3, <1>4, <1>5 DEF CallSteps, Begins, Ordered, At

LEMMA ConfirmByTokenSteps ==
  ASSUME TypeOK, InOrder, NEW c \in Calls, ConfirmByToken(c)
  PROVE  CallSteps(c)
<1>1. call[c] # Free /\ Goto(c, "session") /\ call[c].op = "confirm"
  BY DEF ConfirmByToken, At, InOrder, Ordered
<1>2. Present(call[c].id) => row'[call[c].id].confirmed
  BY ConfirmByTokenAges
<1> QED  BY <1>1, <1>2, GotoKeeps DEF CallSteps, GoesOn, Ordered, At

LEMMA IsConfirmedSteps ==
  ASSUME TypeOK, InOrder, NEW c \in Calls, IsConfirmed(c)
  PROVE  CallSteps(c)
<1>1. call[c] # Free /\ call[c].op = "login" /\ row' = row
  BY DEF IsConfirmed, At, InOrder, Ordered
<1>2. CASE Return(c)
  BY <1>2, ReturnKeeps DEF CallSteps
<1>3. CASE Goto(c, "session") /\ row[call[c].id].confirmed
  BY <1>1, <1>3, GotoKeeps DEF CallSteps, GoesOn, Ordered, At
<1> QED  BY <1>2, <1>3 DEF IsConfirmed

LEMMA ResetPasswordByTokenSteps ==
  ASSUME TypeOK, InOrder, NEW c \in Calls, ResetPasswordByToken(c)
  PROVE  CallSteps(c)
<1>1. call[c] # Free /\ Goto(c, "session") /\ call[c].op = "reset"
  BY DEF ResetPasswordByToken, At, InOrder, Ordered
<1> QED  BY <1>1, GotoKeeps DEF CallSteps, GoesOn, Ordered, At

LEMMA HandlerSteps ==
  ASSUME TypeOK, InOrder, NEW c \in Calls, Handler(c)
  PROVE  /\ CallSteps(c)
         /\ row' \in Rows /\ \A i \in Ids : Ages(i)
         /\ RowAges \/ SetResetToken(c)
<1>1. CASE Signup(c) \/ Confirm(c) \/ Login(c) \/ Forgot(c) \/ Reset(c)
  BY <1>1, SignupSteps, ConfirmSteps, LoginSteps, ForgotSteps, ResetSteps, SameRowAges
     DEF RowAges
<1>2. CASE ConfirmByToken(c)
  BY <1>2, ConfirmByTokenSteps, ConfirmByTokenAges DEF RowAges
<1>3. CASE IsConfirmed(c)
  BY <1>3, IsConfirmedSteps, SameRowAges DEF IsConfirmed, RowAges
<1>4. CASE ResetPasswordByToken(c)
  BY <1>4, ResetPasswordByTokenSteps, ResetPasswordByTokenAges DEF RowAges
<1>5. CASE SetConfirmToken(c)
  BY <1>5, SetConfirmTokenAges, ReturnKeeps DEF SetConfirmToken, CallSteps, RowAges
<1>6. CASE SetResetToken(c)
  BY <1>6, SetResetTokenGives, ReturnKeeps DEF SetResetToken, CallSteps
<1>7. CASE CreateSession(c) \/ Abandon(c)
  BY <1>7, SameRowAges, ReturnKeeps DEF CreateSession, Abandon, CallSteps, RowAges
<1> QED  BY <1>1, <1>2, <1>3, <1>4, <1>5, <1>6, <1>7 DEF Handler

\* What happens outside handlers.
Outside ==
  \/ AdminCreateUser \/ CreateIdentity \/ PromoteToAdmin \/ Migrate
  \/ \E s \in Sessions : EndSession(s)
  \/ \E i \in Ids : Delete(i) \/ ConfirmExpires(i) \/ ResetExpires(i)
  \/ \E i \in Ids, p \in Passwords : SetPassword(i, p)

LEMMA OutsideSteps ==
  ASSUME TypeOK, Outside
  PROVE  RowAges /\ UNCHANGED <<call, issued, redeemed>>
<1>1. CASE AdminCreateUser
  BY <1>1, InsertAges DEF AdminCreateUser
<1>2. CASE CreateIdentity
  BY <1>2, InsertAges DEF CreateIdentity
<1>3. CASE PromoteToAdmin \/ Migrate
  BY <1>3, PromoteToAdminAges, MigrateAges DEF PromoteToAdmin, Migrate
<1>4. CASE \E s \in Sessions : EndSession(s)
  BY <1>4, SameRowAges DEF EndSession
<1>5. CASE \E i \in Ids : Delete(i)
  BY <1>5, DeleteAges DEF Delete
<1>6. CASE \E i \in Ids : ConfirmExpires(i) \/ ResetExpires(i)
  BY <1>6, ExpiryAges DEF ConfirmExpires, ResetExpires
<1>7. CASE \E i \in Ids, p \in Passwords : SetPassword(i, p)
  BY <1>7, SetPasswordAges DEF SetPassword
<1> QED  BY <1>1, <1>2, <1>3, <1>4, <1>5, <1>6, <1>7 DEF Outside

-----------------------------------------------------------------------------
(* What a step does to sessions and tokens. *)

\* A session is opened for the account of a handler at its last step.
Opened(c, s) == At(c, "session") /\ session'[s] = [id |-> call[c].id, by |-> call[c].op]

LEMMA SessionSteps ==
  ASSUME TypeOK, InOrder, Next
  PROVE  /\ session' \in [Sessions -> {Unused, Ended} \cup Entry]
         /\ \A s \in Sessions :
              session'[s] \in {session[s], Ended} \/ \E c \in Calls : Opened(c, s)
<1>1. CASE \E c \in Calls : CreateSession(c)
  <2>1. PICK c \in Calls, s \in Sessions :
          /\ At(c, "session")
          /\ session' = [session EXCEPT ![s] = [id |-> call[c].id, by |-> call[c].op]]
    BY <1>1 DEF CreateSession
  <2>2. [id |-> call[c].id, by |-> call[c].op] \in Entry
    BY <2>1, BusyIsRecord DEF At, InOrder, Ordered, CallRecord, Entry
  <2>3. Opened(c, s) /\ \A x \in Sessions : x # s => session'[x] = session[x]
    BY <2>1 DEF TypeOK, Opened
  <2> QED  BY <2>1, <2>2, <2>3 DEF TypeOK
<1>2. CASE \E s \in Sessions : EndSession(s)
  BY <1>2 DEF EndSession, TypeOK
<1>3. CASE session' = session
  BY <1>3 DEF TypeOK
<1> QED
  BY <1>1, <1>2, <1>3
     DEF Next, Handler, Signup, SetConfirmToken, Confirm, ConfirmByToken, Login, IsConfirmed,
         Forgot, SetResetToken, Reset, ResetPasswordByToken, Abandon, AdminCreateUser,
         CreateIdentity, PromoteToAdmin, Migrate, Delete, ConfirmExpires, ResetExpires, SetPassword

LEMMA TokenSteps ==
  ASSUME TypeOK, InOrder, Next
  PROVE  \/ issued' = issued /\ redeemed' = redeemed
         \/ \E c \in Calls : SetResetToken(c) /\ redeemed' = redeemed
         \/ \E c \in Calls : /\ ResetPasswordByToken(c) /\ issued' = issued
                             /\ call[c] \in CallRecord /\ call[c].token \in ResetTokens
<1>1. CASE \E c \in Calls : SetResetToken(c)
  BY <1>1 DEF SetResetToken
<1>2. CASE \E c \in Calls : ResetPasswordByToken(c)
  BY <1>2, BusyIsRecord DEF ResetPasswordByToken, At, InOrder, Ordered
<1>3. CASE issued' = issued /\ redeemed' = redeemed
  BY <1>3
<1> QED
  BY <1>1, <1>2, <1>3
     DEF Next, Handler, Signup, SetConfirmToken, Confirm, ConfirmByToken, Login, IsConfirmed,
         CreateSession, EndSession, Forgot, Reset, Abandon, AdminCreateUser,
         CreateIdentity, PromoteToAdmin, Migrate, Delete, ConfirmExpires, ResetExpires, SetPassword

\* The step as a whole.
LEMMA Steps ==
  ASSUME TypeOK, InOrder, Next
  PROVE  /\ row' \in Rows /\ \A i \in Ids : Ages(i)
         /\ \/ call' = call /\ RowAges
            \/ \E c \in Calls : CallSteps(c) /\ (RowAges \/ SetResetToken(c))
<1>1. CASE \E c \in Calls : Handler(c)
  BY <1>1, HandlerSteps
<1>2. CASE Outside
  BY <1>2, OutsideSteps DEF RowAges
<1> QED  BY <1>1, <1>2 DEF Next, Outside
-----------------------------------------------------------------------------
(* Types. *)

LEMMA InitTypes == Init => TypeOK /\ InOrder
BY DEF Init, TypeOK, InOrder, Ordered, At

LEMMA NextTypes ==
  ASSUME TypeOK, InOrder, Next
  PROVE  TypeOK' /\ InOrder'
<1>1. row' \in [Ids -> {Absent, Deleted} \cup Row]
  BY Steps DEF Rows
<1>2. session' \in [Sessions -> {Unused, Ended} \cup Entry]
  BY SessionSteps
<1>3. issued' \in SUBSET ResetTokens
  BY TokenSteps DEF TypeOK, SetResetToken
<1>4. redeemed' \in [ResetTokens -> Nat]
  <2>1. CASE redeemed' = redeemed
    BY <2>1 DEF TypeOK
  <2>2. ASSUME NEW c \in Calls, ResetPasswordByToken(c), call[c].token \in ResetTokens
        PROVE  redeemed' \in [ResetTokens -> Nat]
    <3>1. redeemed[call[c].token] + 1 \in Nat /\ redeemed[call[c].token] \in Nat
      BY <2>2 DEF TypeOK
    <3> QED  BY <2>2, <3>1 DEF ResetPasswordByToken, TypeOK
  <2> QED  BY <2>1, <2>2, TokenSteps
<1>5. call' \in [Calls -> {Free} \cup CallRecord]
  BY Steps DEF TypeOK, CallSteps
<1>6. InOrder'
  <2>1. CASE call' = call
    BY <2>1 DEF InOrder, Ordered, At
  <2>2. ASSUME NEW c \in Calls, CallSteps(c)
        PROVE  InOrder'
    <3>1. Ordered(c)'
      BY <2>2 DEF CallSteps, Begins, GoesOn, Ordered, At
    <3>2. \A d \in Calls : d # c => Ordered(d)'
      BY <2>2 DEF CallSteps, InOrder, Ordered, At
    <3> QED  BY <3>1, <3>2 DEF InOrder
  <2> QED  BY <2>1, <2>2, Steps
<1> QED  BY <1>1, <1>2, <1>3, <1>4, <1>5, <1>6 DEF TypeOK
-----------------------------------------------------------------------------
(* Sessions of confirmed accounts. *)

LEMMA AgeingSettles ==
  ASSUME NEW i, Ages(i)
  PROVE  (Made(i) => Made(i)') /\ (Settled(i) => Settled(i)')
BY DEF Ages, Settled

LEMMA NextEntered ==
  ASSUME TypeOK, InOrder, Entered, Next
  PROVE  Entered'
<1>1. \A i \in Ids : (Made(i) => Made(i)') /\ (Settled(i) => Settled(i)')
  BY Steps, AgeingSettles
<1>2. ASSUME NEW s \in Sessions, session'[s] \in Entry
      PROVE  /\ Made(session[s].id)'
             /\ session'[s].by # "reset" => Settled(session[s].id)'
  <2>1. CASE session'[s] \in {session[s], Ended}
    <3>1. session'[s] = session[s] /\ session[s] \in Entry /\ session[s].id \in Ids
      BY <1>2, <2>1, Shapes DEF Entry
    <3> QED  BY <1>1, <3>1 DEF Entered, Made, Settled, Present
  <2>2. ASSUME NEW c \in Calls, Opened(c, s)
        PROVE  /\ Made(session[s].id)'
               /\ session'[s].by # "reset" => Settled(session[s].id)'
    <3>1. session'[s].id = call[c].id /\ session'[s].by = call[c].op /\ call[c].id \in Ids
      BY <2>2, BusyIsRecord DEF Opened, At, CallRecord
    <3>2. /\ Made(call[c].id)
          /\ call[c].op # "reset" => Settled(call[c].id)
      BY <2>2 DEF Opened, At, Entered
    <3> QED  BY <1>1, <3>1, <3>2 DEF Made, Settled, Present
  <2> QED  BY <2>1, <2>2, SessionSteps
<1>3. ASSUME NEW c \in Calls, call'[c] = call[c], call[c] # Free
      PROVE  /\ Made(call[c].id)'
             /\ At(c, "session")' /\ call'[c].op # "reset" => Settled(call[c].id)'
  <2>1. call[c].id \in Ids
    BY <1>3, BusyIsRecord DEF CallRecord
  <2> QED  BY <1>1, <1>3, <2>1 DEF Entered, At, Made, Settled, Present
<1>4. ASSUME NEW c \in Calls, CallSteps(c), call'[c] # Free
      PROVE  /\ Made(call[c].id)'
             /\ At(c, "session")' /\ call'[c].op # "reset" => Settled(call[c].id)'
  <2>1. CASE Begins(c)
    BY <2>1 DEF Begins
  <2>2. CASE GoesOn(c)
    <3>1. call[c].id \in Ids /\ call'[c].id = call[c].id /\ call'[c].op = call[c].op
      BY <2>2, BusyIsRecord DEF GoesOn, CallRecord
    <3>2. Made(call[c].id)
      BY <2>2 DEF GoesOn, Entered
    <3>3. Ages(call[c].id)
      BY <3>1, Steps
    <3> QED  BY <2>2, <3>1, <3>2, <3>3 DEF GoesOn, Ages, Made, Settled, Present
  <2> QED  BY <1>4, <2>1, <2>2 DEF CallSteps
<1>5. \A c \in Calls :
        call'[c] # Free =>
          /\ Made(call[c].id)'
          /\ At(c, "session")' /\ call'[c].op # "reset" => Settled(call[c].id)'
  BY <1>3, <1>4, Steps DEF CallSteps
<1> QED  BY <1>2, <1>5 DEF Entered

-----------------------------------------------------------------------------
(* Tokens. *)

\* A call that a step leaves as it is keeps what it knew of its token.
LEMMA NextTokensOnce ==
  ASSUME TypeOK, InOrder, TokensOnce, Next
  PROVE  TokensOnce'
<1>1. CASE \E c \in Calls : SetResetToken(c)
  <2>1. PICK c \in Calls : SetResetToken(c)
    BY <1>1
  <2>2. PICK n \in ResetTokens \ issued :
          /\ issued' = issued \cup {n}
          /\ \A i \in Ids, m \in ResetTokens :
               Has(i, m)' => Has(i, m) \/ (m = n /\ i = call[c].id)
    BY <2>1, SetResetTokenGives
  <2>3. \A i \in Ids : ~Has(i, n)
    BY <2>2 DEF TokensOnce
  <2>4. \A i \in Ids, k \in ResetTokens : Has(i, k)' => k \in issued'
    BY <2>2 DEF TokensOnce
  <2>5. \A i, j \in Ids, k \in ResetTokens : Has(i, k)' /\ Has(j, k)' => i = j
    BY <2>2, <2>3 DEF TokensOnce
  <2>6. ASSUME NEW d \in Calls, NEW i \in Ids, At(d, "setPassword")'
        PROVE  /\ call'[d].token \in issued'
               /\ Has(i, call[d].token)' => i = call'[d].id
    <3>1. call'[d] = call[d] /\ At(d, "setPassword")
      BY <2>1, <2>6, ReturnKeeps DEF SetResetToken, At
    <3>2. call[d].token \in issued /\ call[d].token \in ResetTokens
      BY <3>1 DEF TokensOnce, InOrder, Ordered
    <3>3. Has(i, call[d].token)' => Has(i, call[d].token)
      BY <2>2, <3>1, <3>2 DEF Has, Present
    <3> QED  BY <2>2, <3>1, <3>2, <3>3 DEF TokensOnce
  <2> QED  BY <2>4, <2>5, <2>6 DEF TokensOnce
<1>2. CASE RowAges /\ issued' = issued
  <2>1. \A i \in Ids, k \in ResetTokens : Has(i, k)' => Has(i, k)
    BY <1>2 DEF RowAges, NoNewToken
  <2>2. ASSUME NEW d \in Calls, NEW i \in Ids, call'[d] = call[d], At(d, "setPassword")'
        PROVE  /\ call'[d].token \in issued'
               /\ Has(i, call[d].token)' => i = call'[d].id
    <3>1. At(d, "setPassword") /\ call[d].token \in ResetTokens
      BY <2>2 DEF At, InOrder, Ordered
    <3>2. Has(i, call[d].token)' => Has(i, call[d].token)
      BY <2>1, <2>2, <3>1 DEF Has, Present
    <3> QED  BY <1>2, <2>2, <3>1, <3>2 DEF TokensOnce
  <2>3. ASSUME NEW d \in Calls, NEW i \in Ids, CallSteps(d), At(d, "setPassword")'
        PROVE  /\ call'[d].token \in issued'
               /\ Has(i, call[d].token)' => i = call'[d].id
    <3>1. Begins(d)
      BY <2>3 DEF CallSteps, GoesOn, At
    <3>2. row' = row /\ Has(call'[d].id, call'[d].token) /\ call'[d].token \in ResetTokens
      BY <2>3, <3>1 DEF Begins, Ordered
    <3>3. call'[d].id \in Ids
      BY <2>3, <3>1 DEF Begins, CallSteps, CallRecord
    <3> QED  BY <1>2, <3>2, <3>3 DEF TokensOnce, Has, Present
  <2>4. \A d \in Calls, i \in Ids :
          At(d, "setPassword")' =>
            call'[d].token \in issued' /\ (Has(i, call[d].token)' => i = call'[d].id)
    BY <2>2, <2>3, Steps DEF CallSteps
  <2> QED  BY <1>2, <2>1, <2>4 DEF TokensOnce
<1> QED  BY <1>1, <1>2, Steps, TokenSteps

LEMMA NextTokensDead ==
  ASSUME TypeOK, InOrder, TokensOnce, UsedTokensAreDead, Next
  PROVE  UsedTokensAreDead'
<1> SUFFICES ASSUME NEW k \in ResetTokens, redeemed'[k] > 0
             PROVE  k \in issued' /\ \A i \in Ids : ~Has(i, k)'
  BY DEF UsedTokensAreDead, Has
<1>1. CASE \E c \in Calls : SetResetToken(c) /\ redeemed' = redeemed
  <2>1. PICK c \in Calls : SetResetToken(c) /\ redeemed' = redeemed
    BY <1>1
  <2>2. k \in issued /\ \A i \in Ids : ~Has(i, k)
    BY <2>1 DEF UsedTokensAreDead, Has
  <2> QED  BY <2>1, <2>2, SetResetTokenGives
<1>2. CASE RowAges /\ issued' = issued /\ redeemed' = redeemed
  BY <1>2 DEF UsedTokensAreDead, RowAges, NoNewToken, Has
<1>3. CASE \E c \in Calls : ResetPasswordByToken(c) /\ issued' = issued /\ call[c] \in CallRecord
  <2>1. PICK c \in Calls : ResetPasswordByToken(c) /\ issued' = issued /\ call[c] \in CallRecord
    BY <1>3
  <2>2. RowAges /\ (Present(call[c].id) => row'[call[c].id].reset = None) /\ At(c, "setPassword")
    BY <2>1, ResetPasswordByTokenAges DEF ResetPasswordByToken
  <2>3. CASE redeemed'[k] = redeemed[k]
    BY <2>1, <2>2, <2>3 DEF UsedTokensAreDead, RowAges, NoNewToken, Has
  <2>4. CASE k = call[c].token /\ Present(call[c].id)
    <3>1. call[c].id \in Ids
      BY <2>1 DEF CallRecord
    <3>2. k \in issued /\ \A i \in Ids : Has(i, k) => i = call[c].id
      BY <2>2, <2>4, <3>1 DEF TokensOnce
    <3>3. ASSUME NEW i \in Ids, Has(i, k)'
          PROVE  FALSE
      <4>1. Has(i, k)
        BY <2>2, <3>3 DEF RowAges, NoNewToken
      <4>2. i = call[c].id
        BY <3>2, <4>1
      <4>3. row'[i].reset = None
        BY <2>2, <2>4, <4>2
      <4> QED  BY <3>3, <4>3, NoneAssumption DEF Has
    <3> QED  BY <2>1, <3>2, <3>3
  <2> QED  BY <2>1, <2>3, <2>4 DEF ResetPasswordByToken, TypeOK
<1>4. CASE \E c \in Calls : SetResetToken(c)
  BY <1>1, <1>4, TokenSteps DEF SetResetToken
<1> QED  BY <1>1, <1>2, <1>3, <1>4, Steps, TokenSteps
-----------------------------------------------------------------------------

LEMMA InitInv == Init => IInv
<1> SUFFICES ASSUME Init PROVE IInv
  OBVIOUS
<1>1. /\ \A i \in Ids : ~Present(i)
      /\ \A s \in Sessions : session[s] \notin Entry
      /\ \A c \in Calls : call[c] = Free
      /\ \A k \in ResetTokens : redeemed[k] = 0
  BY Shapes DEF Init, Present
<1> QED  BY <1>1, InitTypes DEF IInv, Entered, TokensOnce, UsedTokensAreDead, Has, At

LEMMA NextInv == IInv /\ [Next]_vars => IInv'
<1> SUFFICES ASSUME IInv, [Next]_vars PROVE IInv'
  OBVIOUS
<1>1. CASE Next
  BY <1>1, NextTypes, NextEntered, NextTokensOnce, NextTokensDead DEF IInv
<1>2. CASE UNCHANGED vars
  BY <1>2 DEF vars, IInv, TypeOK, InOrder, Ordered, Entered, Made, Settled, TokensOnce,
              UsedTokensAreDead, Has, Present, At
<1> QED  BY <1>1, <1>2

LEMMA Inductive == Spec => []IInv
BY InitInv, NextInv, PTL DEF Spec

\* The tables and the handlers keep their types, however handlers interleave and
\* wherever they are cut short.
THEOREM TypeCorrect == Spec => []TypeOK
<1>1. IInv => TypeOK
  BY DEF IInv
<1> QED  BY <1>1, Inductive, PTL

\* A session that login or confirming opened is of a confirmed account, if that is
\* still there, for any number of accounts, sessions and handlers.
THEOREM SessionsAreConfirmed == Spec => []EntryIsConfirmed
<1>1. IInv => EntryIsConfirmed
  BY DEF IInv, Entered, Settled, EntryIsConfirmed
<1> QED  BY <1>1, Inductive, PTL

\* A reset token that has set a password was issued and is on no row, whatever
\* other tokens were issued to its row or to others before and after.
THEOREM SpentTokensAreDead == Spec => []UsedTokensAreDead
<1>1. IInv => UsedTokensAreDead
  BY DEF IInv
<1> QED  BY <1>1, Inductive, PTL
=============================================================================
