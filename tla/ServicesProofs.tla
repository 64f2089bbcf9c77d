---------------------------- MODULE ServicesProofs ----------------------------
(* The smaller services around the corpus, whose runs MCServices composes:     *)
(* what a client of a forwarded request is told, what the review deck holds,   *)
(* what a rate limit lets pass, and what documentation a server serves.        *)
EXTENDS DocsSync, Forwarding, RateLimit, Review, SequenceTheorems, TLAPS

-----------------------------------------------------------------------------
(* Forwarding.  A request has at most two legs, the client's and the one at  *)
(* whoever the hint named.  It has been written as often as a leg has ended  *)
(* well; and only the leg that arrived last writes, for the first one is     *)
(* waiting for the second, or has given up on it, in which case lost says    *)
(* so.                                                                       *)

\* A leg and what its request was written; the second has nobody to forward to.
OneLeg(r) ==
  /\ legs[r][1].pc \in {"gate", "write", "relay"} \cup Finished
  /\ legs[r][1].pc = "relay" => legs[r][1].to \in Nodes
  /\ applied[r] = IF legs[r][1].pc = "ok" THEN 1 ELSE 0

TwoLegs(r) ==
  /\ legs[r][1].pc \in {"waiting"} \cup Finished
  /\ legs[r][2].pc \in {"gate", "write"} \cup Finished
  /\ applied[r] = IF legs[r][2].pc = "ok" THEN 1 ELSE 0
  /\ legs[r][1].pc = "ok" => legs[r][2].pc = "ok"
  /\ legs[r][1].pc \in {"not_primary", "failed"} => lost[r] \/ legs[r][2].pc = legs[r][1].pc

LegsOK(r) ==
  /\ legs[r] \in Seq(Leg) /\ Len(legs[r]) \in {0, 1, 2}
  /\ Len(legs[r]) = 0 => applied[r] = 0
  /\ Len(legs[r]) = 1 => OneLeg(r)
  /\ Len(legs[r]) = 2 => TwoLegs(r)

FInv ==
  /\ primary \in Nodes \cup {NoNode} /\ owner \in Nodes \cup {NoNode}
  /\ hint \in [Nodes -> Nodes \cup {NoNode}]
  /\ DOMAIN legs = Requests
  /\ applied \in [Requests -> Nat] /\ lost \in [Requests -> BOOLEAN]
  /\ \A r \in Requests : LegsOK(r)

LEMMA InitForward == ForwardInit => FInv
BY DEF ForwardInit, FInv, LegsOK

\* What LegsOK says of a request that is left alone stays.
LEMMA LegsStay ==
  ASSUME NEW r, LegsOK(r), legs'[r] = legs[r], applied'[r] = applied[r], lost'[r] = lost[r]
  PROVE  LegsOK(r)'
BY DEF LegsOK, OneLeg, TwoLegs

\* A step of a leg, the others as they were.
LEMMA GotoMovesLeg ==
  ASSUME FInv, NEW r \in Requests, NEW l \in DOMAIN legs[r], NEW next, Goto1(r, l, next),
         next \in {"gate", "write", "relay", "waiting"} \cup Finished
  PROVE  /\ DOMAIN legs' = Requests
         /\ \A s \in Requests : s # r => legs'[s] = legs[s]
         /\ legs'[r] \in Seq(Leg) /\ Len(legs'[r]) = Len(legs[r])
         /\ legs'[r][l].pc = next /\ legs'[r][l].to = legs[r][l].to
         /\ \A m \in 1..Len(legs[r]) : m # l => legs'[r][m] = legs[r][m]
<1> DEFINE new == [legs[r][l] EXCEPT !.pc = next]
<1>1. legs[r] \in Seq(Leg) /\ legs[r][l] \in Leg
  BY DEF FInv, LegsOK
<1>2. new \in Leg /\ new.pc = next /\ new.to = legs[r][l].to
  BY <1>1 DEF Leg
<1>3. legs' = [legs EXCEPT ![r] = [legs[r] EXCEPT ![l] = new]]
  BY DEF Goto1, FInv
<1> HIDE DEF new
<1>4. legs'[r] = [legs[r] EXCEPT ![l] = new] /\ DOMAIN legs' = Requests
  BY <1>3 DEF FInv
<1>5. \A s \in Requests : s # r => legs'[s] = legs[s]
  BY <1>3 DEF FInv
<1> QED  BY <1>1, <1>2, <1>4, <1>5

LEMMA LegOneOrTwo ==
  ASSUME FInv, NEW r \in Requests, NEW l, l \in DOMAIN legs[r]
  PROVE  \/ l = 1 /\ Len(legs[r]) = 1 /\ OneLeg(r)
         \/ l = 1 /\ Len(legs[r]) = 2 /\ TwoLegs(r)
         \/ l = 2 /\ Len(legs[r]) = 2 /\ TwoLegs(r)
BY DEF FInv, LegsOK

\* A step of one request leaves the others alone.
LEMMA OneRequest ==
  ASSUME FInv, NEW r \in Requests, UNCHANGED Lease,
         DOMAIN legs' = Requests, \A s \in Requests : s # r => legs'[s] = legs[s],
         applied' \in [Requests -> Nat], \A s \in Requests : s # r => applied'[s] = applied[s],
         lost' \in [Requests -> BOOLEAN], \A s \in Requests : s # r => lost'[s] = lost[s],
         LegsOK(r)'
  PROVE  FInv'
<1>1. ASSUME NEW s \in Requests, s # r PROVE LegsOK(s)'
  BY <1>1, LegsStay DEF FInv
<1> QED  BY <1>1 DEF FInv, Lease

\* A leg whose step writes nothing and goes no further than its place allows.
LEMMA GotoKeepsLegs ==
  ASSUME FInv, NEW r \in Requests, NEW l \in DOMAIN legs[r], NEW next, Goto1(r, l, next),
         UNCHANGED <<Lease, applied>>, lost' \in [Requests -> BOOLEAN],
         \A s \in Requests : s # r => lost'[s] = lost[s], lost[r] => lost'[r],
         legs[r][l].pc \notin Finished,
         \/ next \in {"write", "not_primary", "failed"} /\ legs[r][l].pc \in {"gate", "write", "relay"}
         \/ /\ l = 1 /\ legs[r][1].pc = "waiting"
            /\ \/ next \in {"not_primary", "failed"} /\ (lost'[r] \/ legs[r][2].pc = next)
               \/ next = "ok" /\ legs[r][2].pc = "ok"
  PROVE  FInv'
<1>1. /\ DOMAIN legs' = Requests
      /\ \A s \in Requests : s # r => legs'[s] = legs[s]
      /\ legs'[r] \in Seq(Leg) /\ Len(legs'[r]) = Len(legs[r])
      /\ legs'[r][l].pc = next /\ legs'[r][l].to = legs[r][l].to
      /\ \A m \in 1..Len(legs[r]) : m # l => legs'[r][m] = legs[r][m]
  BY GotoMovesLeg DEF Finished
<1>2. applied' = applied
  OBVIOUS
<1>3. CASE l = 1 /\ Len(legs[r]) = 1 /\ OneLeg(r)
  <2>1. OneLeg(r)'
    BY <1>1, <1>2, <1>3 DEF OneLeg, Finished
  <2>2. LegsOK(r)'
    BY <1>1, <1>3, <2>1 DEF LegsOK
  <2> QED  BY <1>1, <1>2, <2>2, OneRequest DEF FInv
<1>4. CASE l = 1 /\ Len(legs[r]) = 2 /\ TwoLegs(r)
  <2>1. legs'[r][2] = legs[r][2]
    BY <1>1, <1>4
  <2>2. TwoLegs(r)'
    BY <1>1, <1>2, <1>4, <2>1 DEF TwoLegs, Finished
  <2>3. LegsOK(r)'
    BY <1>1, <1>4, <2>2 DEF LegsOK
  <2> QED  BY <1>1, <1>2, <2>3, OneRequest DEF FInv
<1>5. CASE l = 2 /\ Len(legs[r]) = 2 /\ TwoLegs(r)
  <2>1. legs'[r][1] = legs[r][1]
    BY <1>1, <1>5
  <2>2. TwoLegs(r)'
    BY <1>1, <1>2, <1>5, <2>1 DEF TwoLegs, Finished
  <2>3. LegsOK(r)'
    BY <1>1, <1>5, <2>2 DEF LegsOK
  <2> QED  BY <1>1, <1>2, <2>3, OneRequest DEF FInv
<1> QED  BY <1>3, <1>4, <1>5, LegOneOrTwo

LEMMA GateInv ==
  ASSUME FInv, NEW r \in Requests, NEW l, RequirePrimary(r, l)
  PROVE  FInv'
<1> DEFINE to == OwnerFromContext(legs[r][l].node)
<1>1. /\ l \in DOMAIN legs[r] /\ legs[r][l].pc = "gate"
      /\ applied' = applied /\ lost' = lost /\ UNCHANGED Lease
  BY DEF RequirePrimary, LegAt
<1>2. CASE Goto1(r, l, "write") \/ Goto1(r, l, "not_primary")
  BY <1>1, <1>2, GotoKeepsLegs DEF Finished, FInv
<1>3. CASE /\ l = 1 /\ to # NoNode
           /\ legs' = [legs EXCEPT ![r][l].pc = "relay", ![r][l].to = to]
  <2> DEFINE new == [legs[r][1] EXCEPT !.pc = "relay", !.to = to]
  <2>1. legs[r] \in Seq(Leg) /\ legs[r][1] \in Leg
    BY <1>1, <1>3 DEF FInv, LegsOK
  <2>2. to \in Nodes
    <3>1. legs[r][1].node \in Nodes
      BY <2>1 DEF Leg
    <3> QED  BY <1>3, <3>1 DEF OwnerFromContext, FInv
  <2>3. legs' = [legs EXCEPT ![r] = [legs[r] EXCEPT ![1] = new]]
    BY <1>1, <1>3, <2>1 DEF FInv
  <2>4. new \in Leg /\ new.pc = "relay" /\ new.to \in Nodes
    BY <2>1, <2>2 DEF Leg
  <2> HIDE DEF new
  <2>5. /\ legs'[r] = [legs[r] EXCEPT ![1] = new] /\ DOMAIN legs' = Requests
        /\ \A s \in Requests : s # r => legs'[s] = legs[s]
    BY <2>3 DEF FInv
  <2>6. Len(legs[r]) = 1 /\ OneLeg(r)
    BY <1>1, <1>3, LegOneOrTwo DEF TwoLegs, Finished
  <2>7. legs'[r] \in Seq(Leg) /\ Len(legs'[r]) = 1 /\ legs'[r][1] = new
    BY <1>1, <1>3, <2>1, <2>4, <2>5, <2>6
  <2>8. OneLeg(r)'
    BY <1>1, <2>4, <2>6, <2>7, <1>3 DEF OneLeg
  <2>9. LegsOK(r)'
    BY <2>7, <2>8 DEF LegsOK
  <2> QED  BY <1>1, <2>5, <2>9, OneRequest DEF FInv
<1> QED  BY <1>2, <1>3 DEF RequirePrimary

LEMMA NoLegs == ASSUME NEW S, NEW s \in Seq(S), Len(s) = 0 PROVE s = <<>>
OBVIOUS

LEMMA SomeLegs == ASSUME NEW s, Len(s) # 0 PROVE s # <<>>
OBVIOUS

LEMMA SecondLeg ==
  ASSUME NEW S, NEW s \in Seq(S), Len(s) = 1, NEW e \in S
  PROVE  /\ Append(s, e) \in Seq(S) /\ Len(Append(s, e)) = 2
         /\ Append(s, e)[1] = s[1] /\ Append(s, e)[2] = e
<1>1. Len(Append(s, e)) = Len(s) + 1
  BY AppendProperties
<1>2. Append(s, e)[1] = s[1] /\ Append(s, e)[2] = e
  BY AppendProperties
<1> QED  BY <1>1, <1>2

LEMMA RelayInv ==
  ASSUME FInv, NEW r \in Requests, NEW l, ForwardToOwner(r, l)
  PROVE  FInv'
<1>1. /\ l \in DOMAIN legs[r] /\ legs[r][l].pc = "relay"
      /\ applied' = applied /\ lost' = lost /\ UNCHANGED Lease
  BY DEF ForwardToOwner, LegAt
<1>2. CASE Goto1(r, l, "not_primary")
  BY <1>1, <1>2, GotoKeepsLegs DEF Finished, FInv
<1>3. CASE legs' = [legs EXCEPT ![r] =
                      Append([@ EXCEPT ![l].pc = "waiting"], Arrive(legs[r][l].to))]
  <2> DEFINE new == [legs[r][1] EXCEPT !.pc = "waiting"]
             old == [legs[r] EXCEPT ![1] = new]
             arrived == Arrive(legs[r][1].to)
  <2>1. l = 1 /\ Len(legs[r]) = 1 /\ OneLeg(r)
    BY <1>1, LegOneOrTwo DEF TwoLegs, Finished
  <2>2. legs[r] \in Seq(Leg) /\ legs[r][1] \in Leg
    <3>1. legs[r] \in Seq(Leg)
      BY DEF FInv, LegsOK
    <3> QED  BY <2>1, <3>1
  <2>3. legs' = [legs EXCEPT ![r] = Append(old, arrived)]
    BY <1>3, <2>1
  <2>4. new \in Leg /\ new.pc = "waiting"
    BY <2>2 DEF Leg
  <2>5. arrived \in Leg /\ arrived.pc = "gate"
    BY <1>1, <2>1 DEF Arrive, Leg, OneLeg
  <2> HIDE DEF new, arrived
  <2>6. old \in Seq(Leg) /\ Len(old) = 1 /\ old[1] = new
    BY <2>1, <2>2, <2>4
  <2> HIDE DEF old
  <2>7. /\ legs'[r] = Append(old, arrived) /\ DOMAIN legs' = Requests
        /\ \A s \in Requests : s # r => legs'[s] = legs[s]
    BY <2>3 DEF FInv
  <2>8. /\ legs'[r] \in Seq(Leg) /\ Len(legs'[r]) = 2
        /\ legs'[r][1] = new /\ legs'[r][2] = arrived
    BY <2>5, <2>6, <2>7, SecondLeg
  <2>9. TwoLegs(r)'
    BY <1>1, <2>1, <2>4, <2>5, <2>8 DEF OneLeg, TwoLegs, Finished
  <2>10. LegsOK(r)'
    BY <2>8, <2>9 DEF LegsOK
  <2> QED  BY <1>1, <2>7, <2>10, OneRequest DEF FInv
<1> QED  BY <1>2, <1>3 DEF ForwardToOwner

LEMMA ApplyInv ==
  ASSUME FInv, NEW r \in Requests, NEW l, Apply(r, l)
  PROVE  FInv'
<1>1. l \in DOMAIN legs[r] /\ legs[r][l].pc = "write" /\ lost' = lost /\ UNCHANGED Lease
  BY DEF Apply, LegAt
<1>2. CASE Goto1(r, l, "failed") /\ UNCHANGED applied
  BY <1>1, <1>2, GotoKeepsLegs DEF Finished, FInv
<1>3. CASE Goto1(r, l, "ok") /\ applied' = [applied EXCEPT ![r] = @ + 1]
  <2>1. /\ DOMAIN legs' = Requests
        /\ \A s \in Requests : s # r => legs'[s] = legs[s]
        /\ legs'[r] \in Seq(Leg) /\ Len(legs'[r]) = Len(legs[r])
        /\ legs'[r][l].pc = "ok"
        /\ \A m \in 1..Len(legs[r]) : m # l => legs'[r][m] = legs[r][m]
    BY <1>1, <1>3, GotoMovesLeg DEF Finished
  <2>2. /\ applied' \in [Requests -> Nat] /\ applied'[r] = applied[r] + 1
        /\ \A s \in Requests : s # r => applied'[s] = applied[s]
    BY <1>3 DEF FInv
  <2>3. CASE l = 1 /\ Len(legs[r]) = 1 /\ OneLeg(r)
    <3>1. OneLeg(r)'
      BY <1>1, <2>1, <2>2, <2>3 DEF OneLeg, Finished
    <3>2. LegsOK(r)'
      BY <2>1, <2>3, <3>1 DEF LegsOK
    <3> QED  BY <1>1, <2>1, <2>2, <3>2, OneRequest DEF FInv
  <2>4. CASE l = 2 /\ Len(legs[r]) = 2 /\ TwoLegs(r)
    <3>1. legs'[r][1] = legs[r][1]
      BY <2>1, <2>4
    <3>2. TwoLegs(r)'
      BY <1>1, <2>1, <2>2, <2>4, <3>1 DEF TwoLegs, Finished
    <3>3. LegsOK(r)'
      BY <2>1, <2>4, <3>2 DEF LegsOK
    <3> QED  BY <1>1, <2>1, <2>2, <3>3, OneRequest DEF FInv
  <2> QED  BY <1>1, <2>3, <2>4, LegOneOrTwo DEF TwoLegs, Finished
<1> QED  BY <1>2, <1>3 DEF Apply

LEMMA AnsweredInv ==
  ASSUME FInv, NEW r \in Requests, NEW l,
         Refuse(r, l) \/ Respond(r, l) \/ ForwardFails(r, l)
  PROVE  FInv'
<1>1. CASE Refuse(r, l)
  BY <1>1, GotoKeepsLegs DEF Refuse, LegAt, Finished, FInv
<1>2. ASSUME Respond(r, l) \/ ForwardFails(r, l)
      PROVE  l \in DOMAIN legs[r] /\ l = 1 /\ Len(legs[r]) = 2 /\ legs[r][1].pc = "waiting"
  BY <1>2, LegOneOrTwo DEF Respond, ForwardFails, LegAt, OneLeg, TwoLegs, Finished
<1>3. CASE Respond(r, l)
  <2>1. /\ Goto1(r, l, legs[r][2].pc) /\ legs[r][2].pc \in {"ok", "not_primary", "failed"}
        /\ UNCHANGED <<Lease, applied>> /\ lost' = lost
    BY <1>2, <1>3 DEF Respond, Finished
  <2> QED  BY <1>2, <1>3, <2>1, GotoKeepsLegs DEF Finished, FInv
<1>4. CASE ForwardFails(r, l)
  <2>1. /\ Goto1(r, l, "not_primary") /\ lost' \in [Requests -> BOOLEAN] /\ lost'[r]
        /\ \A s \in Requests : s # r => lost'[s] = lost[s]
        /\ UNCHANGED <<Lease, applied>>
    BY <1>4 DEF ForwardFails, FInv
  <2> QED  BY <1>2, <1>4, <2>1, GotoKeepsLegs DEF Finished
<1> QED  BY <1>1, <1>3, <1>4

LEMMA SendInv ==
  ASSUME FInv, NEW r \in Requests, Send(r)
  PROVE  FInv'
<1>1. PICK n \in Nodes : legs' = [legs EXCEPT ![r] = <<Arrive(n)>>]
  BY DEF Send
<1>2. legs[r] = <<>> /\ applied' = applied /\ lost' = lost /\ UNCHANGED Lease
  BY DEF Send
<1>3. applied[r] = 0
  BY <1>2 DEF FInv, LegsOK
<1>4. Arrive(n) \in Leg /\ Arrive(n).pc = "gate"
  BY DEF Arrive, Leg
<1>5. /\ legs'[r] = <<Arrive(n)>> /\ DOMAIN legs' = Requests
      /\ \A s \in Requests : s # r => legs'[s] = legs[s]
  BY <1>1 DEF FInv
<1>6. legs'[r] \in Seq(Leg) /\ Len(legs'[r]) = 1 /\ legs'[r][1].pc = "gate"
  BY <1>4, <1>5
<1>7. LegsOK(r)'
  BY <1>2, <1>3, <1>6 DEF LegsOK, OneLeg
<1> QED  BY <1>2, <1>5, <1>7, OneRequest DEF FInv

\* A crash ends legs, and none of those that have ended well.
LEMMA CrashInv ==
  ASSUME FInv, NEW n \in Nodes, Crash(n)
  PROVE  FInv'
<1>1. ASSUME NEW r \in Requests PROVE LegsOK(r)'
  <2> DEFINE new(l) == IF legs[r][l].node = n /\ legs[r][l].pc \notin Finished
                       THEN [legs[r][l] EXCEPT !.pc = "gone"] ELSE legs[r][l]
  <2>1. legs[r] \in Seq(Leg) /\ LegsOK(r)
    BY DEF FInv, LegsOK
  <2>2. legs'[r] = [l \in 1..Len(legs[r]) |-> new(l)]
    BY <2>1 DEF Crash
  <2>3. ASSUME NEW l \in 1..Len(legs[r])
        PROVE  /\ new(l) \in Leg /\ new(l).to = legs[r][l].to
               /\ \/ new(l).pc = legs[r][l].pc
                  \/ legs[r][l].pc \notin Finished /\ new(l).pc = "gone"
    <3>1. legs[r][l] \in Leg
      BY <2>1
    <3> QED  BY <3>1 DEF Leg, Finished
  <2> HIDE DEF new
  <2>4. /\ legs'[r] \in Seq(Leg) /\ Len(legs'[r]) = Len(legs[r])
        /\ \A l \in 1..Len(legs[r]) : legs'[r][l] = new(l)
    <3>1. Len(legs[r]) \in Nat
      BY <2>1
    <3>2. legs'[r] \in [1..Len(legs[r]) -> Leg]
      BY <2>2, <2>3
    <3>3. legs'[r] \in Seq(Leg)
      BY <3>1, <3>2
    <3>4. Len(legs'[r]) = Len(legs[r])
      BY <3>1, <3>2
    <3> QED  BY <2>2, <3>3, <3>4
  <2>5. applied' = applied /\ lost' = lost
    BY DEF Crash
  <2>6. Len(legs[r]) = 1 => OneLeg(r)'
    BY <2>1, <2>3, <2>4, <2>5 DEF LegsOK, OneLeg, Finished
  <2>7. Len(legs[r]) = 2 => TwoLegs(r)'
    <3>1. SUFFICES ASSUME Len(legs[r]) = 2 PROVE TwoLegs(r)'
      OBVIOUS
    <3>2. TwoLegs(r) /\ legs'[r][1] = new(1) /\ legs'[r][2] = new(2)
      BY <2>1, <2>4, <3>1 DEF LegsOK
    <3>3. 1 \in 1..Len(legs[r]) /\ 2 \in 1..Len(legs[r])
      BY <3>1
    <3>4. \A l \in {1, 2} :
            new(l).pc = legs[r][l].pc \/ (legs[r][l].pc \notin Finished /\ new(l).pc = "gone")
      BY <2>3, <3>3
    <3> QED  BY <2>5, <3>2, <3>4 DEF TwoLegs, Finished
  <2> QED  BY <2>1, <2>4, <2>5, <2>6, <2>7 DEF LegsOK
<1>2. DOMAIN legs' = Requests
  BY DEF Crash
<1>3. /\ primary' \in Nodes \cup {NoNode} /\ owner' \in Nodes \cup {NoNode}
      /\ hint' \in [Nodes -> Nodes \cup {NoNode}] /\ applied' = applied /\ lost' = lost
  BY DEF Crash, FInv
<1> QED  BY <1>1, <1>2, <1>3 DEF FInv

LEMMA LeaseInv ==
  ASSUME FInv, LeaseMoves
  PROVE  FInv'
<1>1. legs' = legs /\ applied' = applied /\ lost' = lost
  BY DEF LeaseMoves
<1>2. /\ primary' \in Nodes \cup {NoNode} /\ owner' \in Nodes \cup {NoNode}
      /\ hint' \in [Nodes -> Nodes \cup {NoNode}]
  BY DEF LeaseMoves, LoseLease, AcquireLease, LeaseExists, FInv
<1>3. \A r \in Requests : LegsOK(r)'
  BY <1>1, LegsStay DEF FInv
<1> QED  BY <1>1, <1>2, <1>3 DEF FInv

LEMMA StepForward == FInv /\ [ForwardNext]_forward => FInv'
<1> SUFFICES ASSUME FInv, [ForwardNext]_forward PROVE FInv'
  OBVIOUS
<1>1. ASSUME NEW r \in Requests, NEW l \in Legs, Handle(r, l) PROVE FInv'
  BY <1>1, GateInv, RelayInv, ApplyInv, AnsweredInv DEF Handle
<1>2. CASE ForwardNext
  BY <1>1, <1>2, LeaseInv, SendInv, CrashInv DEF ForwardNext
<1>3. CASE UNCHANGED forward
  <2>1. \A r \in Requests : LegsOK(r)'
    BY <1>3, LegsStay DEF FInv, forward
  <2> QED  BY <1>3, <2>1 DEF FInv, forward
<1> QED  BY <1>2, <1>3

\* A success was written exactly once and a refusal not at all, unless the
\* answer to a forward got lost, for any nodes, hints and lease moves and any
\* crashes (forwardToOwner, requireTenantPrimary).
THEOREM ForwardTellsTheTruth == ForwardSpec => []AnswersTellTheTruth
<1>1. FInv => AnswersTellTheTruth
  <2> SUFFICES ASSUME FInv, NEW r \in Requests
               PROVE  /\ applied[r] <= 1
                      /\ Answer(r) = "ok" => applied[r] = 1
                      /\ Answer(r) \in {"not_primary", "failed"} /\ applied[r] = 1 => lost[r]
    BY DEF AnswersTellTheTruth
  <2>1. LegsOK(r) /\ legs[r] \in Seq(Leg)
    BY DEF FInv, LegsOK
  <2>2. CASE Len(legs[r]) = 0
    <3>1. legs[r] = <<>> /\ applied[r] = 0
      BY <2>1, <2>2, NoLegs DEF LegsOK
    <3> QED  BY <3>1 DEF Answer
  <2>3. CASE Len(legs[r]) = 1
    <3>1. legs[r] # <<>>
      BY <2>3, SomeLegs
    <3> QED  BY <2>1, <2>3, <3>1 DEF LegsOK, OneLeg, Answer
  <2>4. CASE Len(legs[r]) = 2
    <3>1. legs[r] # <<>>
      BY <2>4, SomeLegs
    <3> QED  BY <2>1, <2>4, <3>1 DEF LegsOK, TwoLegs, Answer
  <2> QED  BY <2>1, <2>2, <2>3, <2>4 DEF LegsOK
<1> QED  BY <1>1, InitForward, StepForward, PTL DEF ForwardSpec
-----------------------------------------------------------------------------
(* The review deck.  The schedule keeps a card coherent and moves it on; and *)
(* a grade under way holds what it has read, which was such a card, however  *)
(* the card itself has fared since.                                          *)

DInv ==
  /\ ReviewTypeOK
  /\ \A c \in Reviewers : ReviewAt(c, "grade") =>
       /\ review[c].grade \in Grades
       /\ review[c].read \in Card /\ Coherent(review[c].read)

LEMMA NoCardIsNone == NoCard \notin Card
BY DEF NoCard, Card

\* An interval of i days, stretched by an ease of at least 1.3, is longer.
LEMMA StretchedGrows ==
  ASSUME NEW i \in Nat, NEW e \in Nat, e >= 130, i >= 6
  PROVE  Stretched(i, e) \in Nat /\ Stretched(i, e) > i /\ (i = 6 => Stretched(i, e) >= 8)
<1> DEFINE p == i * e
<1>1. p \in Nat /\ p >= 130 * i
  <2>1. i * e = 130 * i + i * (e - 130) /\ i * (e - 130) >= 0
    OBVIOUS
  <2> QED  BY <2>1
<1>2. 2 * i * e = 2 * p
  OBVIOUS
<1> HIDE DEF p
<1> DEFINE d == (2 * p + 100) \div 200
<1>3. d \in Int /\ 200 * d > 2 * p - 100
  BY <1>1
<1> HIDE DEF d
<1>4. d > i /\ (i = 6 => d >= 8)
  BY <1>1, <1>3
<1>5. Stretched(i, e) = AtLeast(d, 1)
  BY <1>2 DEF Stretched, d
<1> QED  BY <1>3, <1>4, <1>5 DEF AtLeast

LEMMA EaseChanges == ASSUME NEW q \in 0..5 PROVE EaseChange(q) \in Int
BY DEF EaseChange

LEMMA GradedIsCard ==
  ASSUME NEW k \in Card, Coherent(k), NEW q \in Grades, day \in Nat
  PROVE  /\ Graded(k, q) \in Card /\ Coherent(Graded(k, q))
         /\ q >= 3 => Graded(k, q).interval > k.interval
<1> DEFINE g == Graded(k, q)
           e == AtLeast(k.ease + EaseChange(q), MinEase)
           i == IF q < 3 THEN 0 ELSE NextInterval(k)
           n == IF q < 3 THEN 0 ELSE k.reps + 1
<1>1. /\ k.ease \in Nat /\ k.interval \in Nat /\ k.reps \in Nat /\ k.due \in Nat
      /\ q \in 0..5 /\ k.ease >= 130
  BY GradesAssumption DEF Card, Coherent, MinEase
<1>2. e \in Nat /\ e >= MinEase
  BY <1>1, EaseChanges DEF AtLeast, MinEase
<1>3. g = [ease |-> e, interval |-> i, reps |-> n, due |-> day + i]
  BY DEF Graded
<1> HIDE DEF e, g
<1>4. CASE q < 3
  <2>1. i = 0 /\ n = 0
    BY <1>4
  <2>2. g \in Card /\ g.ease = e /\ g.interval = 0 /\ g.reps = 0 /\ g.due = day
    BY <1>1, <1>2, <1>3, <2>1 DEF Card
  <2>3. Coherent(g)
    BY <1>2, <2>2 DEF Coherent
  <2> QED  BY <1>1, <1>4, <2>2, <2>3 DEF g
<1>5. CASE q >= 3
  <2>1. i = NextInterval(k) /\ n = k.reps + 1
    BY <1>1, <1>5
  <2>2. /\ i \in Nat /\ i > k.interval
        /\ i = (IF n = 0 THEN 0 ELSE IF n = 1 THEN 1
                ELSE IF n = 2 THEN 6 ELSE AtLeast(i, 6 + n - 1))
    <3>1. CASE k.reps = 0
      BY <1>1, <2>1, <3>1 DEF NextInterval, Coherent
    <3>2. CASE k.reps = 1
      BY <1>1, <2>1, <3>2 DEF NextInterval, Coherent
    <3>3. CASE k.reps >= 2
      <4>1. i = Stretched(k.interval, k.ease)
        BY <1>1, <2>1, <3>3 DEF NextInterval
      <4>2. IF k.reps = 2 THEN k.interval = 6 ELSE k.interval >= k.reps + 5
        BY <1>1, <3>3 DEF Coherent, AtLeast
      <4>3. i \in Nat /\ i > k.interval /\ (k.interval = 6 => i >= 8)
        <5>1. k.interval \in Nat /\ k.interval >= 6 /\ k.ease \in Nat /\ k.ease >= 130
          BY <1>1, <3>3, <4>2
        <5> HIDE DEF i
        <5> QED  BY <4>1, <5>1, StretchedGrows
      <4>4. i >= 6 + n - 1 /\ n >= 3
        BY <1>1, <2>1, <3>3, <4>2, <4>3
      <4> QED  BY <1>1, <2>1, <4>3, <4>4 DEF AtLeast
    <3> QED  BY <1>1, <3>1, <3>2, <3>3
  <2> HIDE DEF i, n
  <2>3. /\ g \in Card /\ g.ease = e /\ g.interval = i /\ g.reps = n /\ g.due = day + i
    BY <1>1, <1>2, <1>3, <2>1, <2>2 DEF Card
  <2>4. Coherent(g)
    BY <1>2, <2>2, <2>3 DEF Coherent
  <2> QED  BY <1>1, <1>5, <2>2, <2>3, <2>4 DEF g
<1> QED  BY <1>1, <1>4, <1>5

LEMMA FreshIsCard ==
  ASSUME day \in Nat PROVE Fresh(day) \in Card /\ Coherent(Fresh(day))
BY DEF Fresh, Card, Coherent, MinEase

LEMMA InitDeck == ReviewInit => DInv
BY DEF ReviewInit, DInv, ReviewTypeOK, ReviewAt

\* A call that ends leaves the others, and a deck that kept its cards, as they were.
LEMMA CallEnds ==
  ASSUME DInv, NEW c \in Reviewers, Finish(c), UNCHANGED <<day, memo>>,
         card' \in [Memos -> Card \cup {NoCard}],
         \A m \in Memos : card'[m] # NoCard => memo[m] = "live" /\ Coherent(card'[m])
  PROVE  DInv'
<1>1. review' \in [Reviewers -> {AtRest} \cup Call]
  BY DEF Finish, DInv, ReviewTypeOK
<1>2. \A d \in Reviewers : review'[d] = review[d] \/ review'[d] = AtRest
  BY DEF Finish, DInv, ReviewTypeOK
<1>3. \A m \in Memos : card'[m] # NoCard => memo'[m] = "live" /\ Coherent(card[m])'
  BY DEF Coherent
<1> QED  BY <1>1, <1>2, <1>3 DEF DInv, ReviewTypeOK, ReviewAt, Coherent

\* So does one that begins, or goes on.
LEMMA CallGoesOn ==
  ASSUME DInv, NEW c \in Reviewers, NEW op \in {"enroll", "insert", "grade"}, NEW m \in Memos,
         NEW g \in Grades \cup {-1}, NEW k \in Card \cup {NoCard}, Call1(c, op, m, g, k),
         UNCHANGED <<day, memo, card>>,
         op = "grade" => g \in Grades /\ k \in Card /\ Coherent(k)
  PROVE  DInv'
<1> DEFINE call1 == [op |-> op, id |-> m, grade |-> g, read |-> k]
<1>1. call1 \in Call
  BY DEF Call
<1>2. review' = [review EXCEPT ![c] = call1]
  BY DEF Call1
<1>3. review' \in [Reviewers -> {AtRest} \cup Call]
  BY <1>1, <1>2 DEF DInv, ReviewTypeOK
<1>4. review'[c] = call1 /\ \A d \in Reviewers : d # c => review'[d] = review[d]
  BY <1>2 DEF DInv, ReviewTypeOK
<1>5. ReviewTypeOK'
  BY <1>3 DEF DInv, ReviewTypeOK, Coherent
<1>6. ASSUME NEW d \in Reviewers, ReviewAt(d, "grade")'
      PROVE  (/\ review[d].grade \in Grades
              /\ review[d].read \in Card /\ Coherent(review[d].read))'
  <2>1. CASE d = c
    BY <1>4, <1>6, <2>1 DEF ReviewAt, Coherent
  <2>2. CASE d # c
    BY <1>4, <1>6, <2>2 DEF ReviewAt, Coherent, DInv
  <2> QED  BY <2>1, <2>2
<1> QED  BY <1>5, <1>6 DEF DInv

LEMMA StepDeck == DInv /\ [ReviewNext]_deck => DInv'
<1> SUFFICES ASSUME DInv, [ReviewNext]_deck PROVE DInv'
  OBVIOUS
<1>1. /\ day \in Nat /\ memo \in [Memos -> {"absent", "live", "deleted"}]
      /\ card \in [Memos -> Card \cup {NoCard}]
      /\ review \in [Reviewers -> {AtRest} \cup Call]
      /\ \A m \in Memos : card[m] # NoCard => memo[m] = "live" /\ Coherent(card[m])
  BY DEF DInv, ReviewTypeOK
<1>2. ASSUME NEW c \in Reviewers, NEW op, ReviewAt(c, op)
      PROVE  review[c] \in Call /\ review[c].id \in Memos
  BY <1>1, <1>2 DEF ReviewAt, Call
<1>3. ASSUME NEW c \in Reviewers, NEW m \in Memos, AddToReview(c, m) PROVE DInv'
  BY <1>3, CallGoesOn DEF AddToReview
<1>4. ASSUME NEW c \in Reviewers, NEW m \in Memos, NEW q \in Grades, Grade(c, m, q)
      PROVE  DInv'
  <2>1. card[m] \in Card /\ Coherent(card[m])
    BY <1>1, <1>4 DEF Grade
  <2> QED  BY <1>4, <2>1, CallGoesOn DEF Grade
<1>5. ASSUME NEW c \in Reviewers, MemoryExists(c) PROVE DInv'
  <2>1. ReviewAt(c, "enroll") /\ UNCHANGED <<day, memo, card>>
    BY <1>5 DEF MemoryExists
  <2>2. CASE Call1(c, "insert", review[c].id, -1, NoCard)
    BY <1>2, <2>1, <2>2, CallGoesOn
  <2>3. CASE Finish(c)
    BY <1>1, <2>1, <2>3, CallEnds
  <2> QED  BY <1>5, <2>2, <2>3 DEF MemoryExists
<1>6. ASSUME NEW c \in Reviewers, InsertOrIgnore(c) PROVE DInv'
  <2>1. ReviewAt(c, "insert") /\ Finish(c) /\ UNCHANGED <<day, memo>>
    BY <1>6 DEF InsertOrIgnore
  <2>2. \/ card' = card
        \/ /\ memo[review[c].id] = "live"
           /\ card' = [card EXCEPT ![review[c].id] = Fresh(day)]
    BY <1>6 DEF InsertOrIgnore
  <2>3. Fresh(day) \in Card /\ Coherent(Fresh(day))
    BY <1>1, FreshIsCard
  <2>4. /\ card' \in [Memos -> Card \cup {NoCard}]
        /\ \A m \in Memos : card'[m] = card[m] \/ (card'[m] = Fresh(day) /\ memo[m] = "live")
    BY <1>1, <2>2, <2>3
  <2> QED  BY <1>1, <2>1, <2>3, <2>4, CallEnds
<1>7. ASSUME NEW c \in Reviewers, UpdateCard(c) PROVE DInv'
  <2> DEFINE new == Graded(review[c].read, review[c].grade)
  <2>1. ReviewAt(c, "grade") /\ Finish(c) /\ UNCHANGED <<day, memo>>
    BY <1>7 DEF UpdateCard
  <2>2. new \in Card /\ Coherent(new)
    BY <1>1, <2>1, GradedIsCard DEF DInv
  <2>3. \/ card' = card
        \/ card[review[c].id] # NoCard /\ card' = [card EXCEPT ![review[c].id] = new]
    BY <1>7 DEF UpdateCard
  <2> HIDE DEF new
  <2>4. /\ card' \in [Memos -> Card \cup {NoCard}]
        /\ \A m \in Memos : card'[m] = card[m] \/ (card'[m] = new /\ card[m] # NoCard)
    BY <1>1, <2>2, <2>3
  <2> QED  BY <1>1, <2>1, <2>2, <2>4, CallEnds
<1>8. ASSUME NEW m \in Memos, RemoveFromReview(m) \/ WriteMemo(m) \/ DeleteMemo(m)
      PROVE  DInv'
  <2>1. /\ day' = day /\ review' = review
        /\ card' \in [Memos -> Card \cup {NoCard}]
        /\ memo' \in [Memos -> {"absent", "live", "deleted"}]
        /\ \A n \in Memos : card'[n] = NoCard \/ (card'[n] = card[n] /\ memo'[n] = memo[n])
    BY <1>1, <1>8 DEF RemoveFromReview, WriteMemo, DeleteMemo
  <2> QED  BY <1>1, <2>1 DEF DInv, ReviewTypeOK, ReviewAt, Coherent
<1>9. CASE NextDay
  BY <1>1, <1>9 DEF NextDay, DInv, ReviewTypeOK, ReviewAt, Coherent
<1>10. CASE UNCHANGED deck
  BY <1>10 DEF deck, DInv, ReviewTypeOK, ReviewAt, Coherent
<1> QED  BY <1>3, <1>4, <1>5, <1>6, <1>7, <1>8, <1>9, <1>10 DEF ReviewNext

\* Every card is of a live memory, and its schedule is coherent: intervals grow
\* with every pass whatever the grades, and ease keeps to its floor (srs.go, sm2).
THEOREM DeckIsCoherent == ReviewSpec => []ReviewTypeOK
<1>1. DInv => ReviewTypeOK
  BY DEF DInv
<1> QED  BY <1>1, InitDeck, StepDeck, PTL DEF ReviewSpec

DeckStep ==
  \A m \in Memos : card'[m] # card[m] /\ card'[m] # NoCard =>
    /\ memo'[m] = "live"
    /\ IF card[m] = NoCard THEN card'[m] = Fresh(day)
       ELSE \E c \in Reviewers : ReviewAt(c, "grade") /\ review[c].id = m
              /\ (review[c].grade >= 3 => card'[m].interval > review[c].read.interval)

LEMMA StepCards == DInv /\ [ReviewNext]_deck => [DeckStep]_deck
<1> SUFFICES ASSUME DInv, ReviewNext, NEW m \in Memos, card'[m] # card[m], card'[m] # NoCard
             PROVE  /\ memo'[m] = "live"
                    /\ IF card[m] = NoCard THEN card'[m] = Fresh(day)
                       ELSE \E c \in Reviewers : ReviewAt(c, "grade") /\ review[c].id = m
                         /\ (review[c].grade >= 3
                               => card'[m].interval > review[c].read.interval)
  BY DEF DeckStep
<1>1. /\ card \in [Memos -> Card \cup {NoCard}] /\ day \in Nat
      /\ card[m] # NoCard => memo[m] = "live"
  BY DEF DInv, ReviewTypeOK
<1>2. PICK c \in Reviewers : InsertOrIgnore(c) \/ UpdateCard(c)
  BY <1>1 DEF ReviewNext, AddToReview, Grade, MemoryExists, RemoveFromReview, WriteMemo,
     DeleteMemo, NextDay
<1>3. CASE InsertOrIgnore(c)
  BY <1>1, <1>3 DEF InsertOrIgnore
<1>4. CASE UpdateCard(c)
  <2>1. /\ ReviewAt(c, "grade") /\ memo' = memo
        /\ card[review[c].id] # NoCard
        /\ card' = [card EXCEPT ![review[c].id] = Graded(review[c].read, review[c].grade)]
    BY <1>4 DEF UpdateCard
  <2>2. /\ review[c].id = m /\ card[m] # NoCard
        /\ card'[m] = Graded(review[c].read, review[c].grade)
    BY <1>1, <2>1
  <2>3. review[c].grade >= 3 => card'[m].interval > review[c].read.interval
    BY <1>1, <2>1, <2>2, GradedIsCard DEF DInv
  <2> QED  BY <1>1, <2>1, <2>2, <2>3
<1> QED  BY <1>2, <1>3, <1>4

\* A card appears by enrolling a live memory and changes by grades alone; no
\* call that was under way when it was dropped brings it back (srs.go:
\* AddToReview, Grade).
THEOREM NoCardReturns == ReviewSpec => NoPhantomCard
<1>1. [DeckStep]_deck =>
        [\A m \in Memos : card'[m] # card[m] /\ card'[m] # NoCard =>
           /\ memo'[m] = "live"
           /\ IF card[m] = NoCard THEN card'[m] = Fresh(day)
              ELSE \E c \in Reviewers : ReviewAt(c, "grade") /\ review[c].id = m
                     /\ (review[c].grade >= 3
                           => card'[m].interval > review[c].read.interval)]_deck
  BY DEF DeckStep
<1> QED  BY <1>1, InitDeck, StepDeck, StepCards, PTL DEF ReviewSpec, NoPhantomCard
-----------------------------------------------------------------------------
(* Rate limits, for every burst, window, set of addresses and number of       *)
(* waiting requests: what an observed peer has had, together with what its    *)
(* bucket still holds, is no more than a burst and what has flowed in between *)
(* the observer's coming and the time up to which the bucket was last filled. *)
(*                                                                            *)
(* Flow(n) is what flows in during a time n; every fact about it that the     *)
(* proofs use is one of the lemmas on arithmetic.                             *)
RInv == RateTypeOK /\ RateInv

Flow(n) == Burst * n

USE BurstAssumption, WindowAssumption, MaxTimeAssumption, ClaimAssumption,
    EvictAssumption

-----------------------------------------------------------------------------
(* Arithmetic.                                                              *)

LEMMA FlowIsInt == ASSUME NEW n \in Int PROVE Flow(n) \in Int
BY DEF Flow

LEMMA FlowIsNat == ASSUME NEW n \in Nat PROVE Flow(n) \in Nat
BY DEF Flow

LEMMA FlowAdds ==
  ASSUME NEW m \in Int, NEW n \in Int PROVE Flow(m + n) = Flow(m) + Flow(n)
BY DEF Flow

LEMMA FlowOfNothing == Flow(0) = 0
BY DEF Flow

LEMMA FlowTakesAway ==
  ASSUME NEW m \in Int, NEW n \in Int PROVE Flow(m - n) = Flow(m) - Flow(n)
BY DEF Flow

LEMMA FlowGrows ==
  ASSUME NEW m \in Int, NEW n \in Int, m <= n PROVE Flow(m) <= Flow(n)
<1>1. n - m \in Nat
  OBVIOUS
<1>2. Flow(n - m) \in Nat /\ Flow(n - m) = Flow(n) - Flow(m)
  BY <1>1, FlowIsNat, FlowTakesAway
<1> QED
  BY <1>2, FlowIsInt

LEMMA FullIsFlow == Full \in Nat /\ Full = Flow(Window)
BY DEF Full, Flow

\* What the definitions of the module say, in terms of Flow.
LEMMA FilledIs ==
  ASSUME NEW b \in Buckets, NEW now \in Int
  PROVE  LET t == b.tokens + (Flow(now) - Flow(b.lastFill))
         IN  Filled(b, now) = IF t > Full THEN Full ELSE t
<1>1. b # NoBucket
  <2>1. b.tokens >= -Burst * MaxWait /\ Burst * MaxWait \in Nat
    BY DEF Buckets
  <2>2. NoBucket.tokens = -1 - Burst * MaxWait
    BY DEF NoBucket
  <2> QED
    BY <2>1, <2>2
<1>2. Burst * (now - b.lastFill) = Flow(now) - Flow(b.lastFill)
  <2>1. b.lastFill \in Int
    BY DEF Buckets
  <2>2. Flow(now - b.lastFill) = Flow(now) - Flow(b.lastFill)
    BY <2>1, FlowTakesAway
  <2> QED
    BY <2>2 DEF Flow
<1> QED
  BY <1>1, <1>2 DEF Filled

LEMMA NewIsFull == ASSUME NEW now \in Int PROVE Filled(NoBucket, now) = Full
BY DEF Filled

LEMMA BucketsAreBuckets ==
  ASSUME NEW b \in Buckets
  PROVE  /\ b # NoBucket /\ b.lastFill \in 0..MaxTime
         /\ b.tokens \in -Flow(MaxWait)..Full /\ b.tokens \in Int
<1>1. /\ b.tokens \in -Burst * MaxWait..Full /\ b.lastFill \in 0..MaxTime
      /\ Burst * MaxWait \in Nat
  BY DEF Buckets
<1>2. NoBucket.tokens = -1 - Burst * MaxWait
  BY DEF NoBucket
<1>3. -Burst * MaxWait = -Flow(MaxWait)
  BY DEF Flow
<1>4. b # NoBucket
  BY <1>1, <1>2
<1> QED
  BY <1>1, <1>3, <1>4, FullIsFlow

-----------------------------------------------------------------------------
(* Sweeps.                                                                  *)

\* A bucket in the terms of the lemmas below: one that was last filled before
\* now, and lacks no more than what has flowed in since.
Sound(b) ==
  /\ b \in Buckets
  /\ b.lastFill <= clock
  /\ b.tokens + (Flow(clock) - Flow(b.lastFill)) >= 0

LEMMA TypeOKGivesSound ==
  ASSUME RateTypeOK, NEW k \in Addresses, bucket[k] # NoBucket
  PROVE  Sound(bucket[k])
<1>1. /\ bucket[k] \in Buckets /\ bucket[k].lastFill <= clock /\ clock \in Int
      /\ bucket[k].tokens + Burst * (clock - bucket[k].lastFill) >= 0
  BY DEF RateTypeOK
<1>2. bucket[k].lastFill \in Int
  BY <1>1, BucketsAreBuckets
<1>3. Flow(clock - bucket[k].lastFill) = Flow(clock) - Flow(bucket[k].lastFill)
  BY <1>1, <1>2, FlowTakesAway
<1> QED
  BY <1>1, <1>3 DEF Sound, Flow

\* What a sweep drops would be full for every request that still waits: it lacks
\* at most what flows in during MaxWait, and a request that waits has read a time
\* no more than MaxWait before the sweeper's (ratelimit.go:172-176).
LEMMA SweptIsFull ==
  ASSUME NEW b \in Buckets, NEW now \in Int, now - b.lastFill > EvictTTL,
         NEW n \in Int, n >= now - MaxWait
  PROVE  b.tokens + (Flow(n) - Flow(b.lastFill)) >= Full
<1>1. /\ b.lastFill \in Int /\ b.tokens \in Int /\ b.tokens >= -Flow(MaxWait)
  BY BucketsAreBuckets, FlowIsNat
<1>2. n >= b.lastFill + (Window + MaxWait)
  BY <1>1
<1>3. Flow(n) >= Flow(b.lastFill) + (Flow(Window) + Flow(MaxWait))
  <2>1. Flow(b.lastFill + (Window + MaxWait)) <= Flow(n)
    BY <1>1, <1>2, FlowGrows
  <2>2. Flow(b.lastFill + (Window + MaxWait)) = Flow(b.lastFill) + Flow(Window + MaxWait)
    <3>1. Window + MaxWait \in Int
      OBVIOUS
    <3> QED
      BY <1>1, <3>1, FlowAdds
  <2>3. Flow(Window + MaxWait) = Flow(Window) + Flow(MaxWait)
    BY FlowAdds
  <2> QED
    BY <2>1, <2>2, <2>3
<1>4. Flow(n) \in Int /\ Flow(b.lastFill) \in Int /\ Flow(Window) \in Int /\ Flow(MaxWait) \in Int
  BY <1>1, FlowIsInt
<1> QED
  BY <1>1, <1>3, <1>4, FullIsFlow

-----------------------------------------------------------------------------
(* The invariant.                                                           *)

LEMMA InitHolds == RateInit => RInv
<1> SUFFICES ASSUME RateInit PROVE RInv
  OBVIOUS
<1>1. RateTypeOK
  BY DEF RateInit, RateTypeOK
<1>2. RateInv
  BY DEF RateInit, RateInv, Nobody
<1> QED
  BY <1>1, <1>2 DEF RInv

\* A waiting request that looked at the clock takes its time with it.
LEMMA ReadClockHolds ==
  ASSUME RInv, NEW q \in Callers, NEW peer \in Addresses,
         NEW claim \in Addresses \cup {NoClaim}, ReadClock(q, peer, claim)
  PROVE  RInv'
<1>1. RateTypeOK'
  <2> DEFINE new == [peer |-> peer, key |-> ClientIP(peer, claim), now |-> clock]
  <2>1. /\ new \in Calls /\ new.now = clock
        /\ new.peer \notin Trusted => new.key = new.peer
    BY DEF RInv, RateTypeOK, Calls, ClientIP
  <2>2. call' = [call EXCEPT ![q] = new] /\ UNCHANGED <<clock, bucket, watch>>
    BY DEF ReadClock
  <2>3. call' \in [Callers -> Calls \cup {NoCall}]
    BY <2>1, <2>2 DEF RInv, RateTypeOK
  <2>4. \A r \in Callers : call'[r] = IF r = q THEN new ELSE call[r]
    BY <2>2 DEF RInv, RateTypeOK
  <2>5. clock - clock = 0 /\ clock <= clock
    BY DEF RInv, RateTypeOK
  <2> HIDE DEF new
  <2> QED
    BY <2>1, <2>2, <2>3, <2>4, <2>5 DEF RInv, RateTypeOK
<1>2. RateInv'
  BY DEF RInv, RateInv, ReadClock
<1> QED
  BY <1>1, <1>2 DEF RInv

\* Time only adds to what buckets hold.
LEMMA TickHolds == ASSUME RInv, Tick PROVE RInv'
<1>1. clock \in Nat /\ clock' = clock + 1 /\ clock' \in 0..MaxTime
  BY DEF RInv, RateTypeOK, Tick
<1>2. bucket' = bucket /\ call' = call /\ watch' = watch
  BY DEF Tick
<1>3. Flow(clock') >= Flow(clock) /\ Flow(clock') \in Int /\ Flow(clock) \in Int
  BY <1>1, FlowGrows, FlowIsInt
<1>4. \A q \in Callers :
        call[q] # NoCall => call[q].now <= clock' /\ clock' - call[q].now <= MaxWait
  <2> TAKE q \in Callers
  <2> HAVE call[q] # NoCall
  <2>1. call[q] \in Calls /\ call[q].now <= clock /\ clock - call[q].now < MaxWait
    BY DEF RInv, RateTypeOK, Tick
  <2>2. call[q].now \in Int
    BY <2>1 DEF Calls
  <2> QED
    BY <1>1, <2>1, <2>2
<1>5. \A k \in Addresses :
        bucket[k] # NoBucket =>
          /\ bucket[k].lastFill <= clock'
          /\ bucket[k].tokens + Burst * (clock' - bucket[k].lastFill) >= 0
  <2> TAKE k \in Addresses
  <2> HAVE bucket[k] # NoBucket
  <2> DEFINE b == bucket[k]
  <2>1. Sound(b)
    BY TypeOKGivesSound DEF RInv
  <2>2. b.lastFill \in Int /\ b.tokens \in Int /\ Flow(b.lastFill) \in Int
    BY <2>1, BucketsAreBuckets, FlowIsInt DEF Sound
  <2>3. Burst * (clock' - b.lastFill) = Flow(clock') - Flow(b.lastFill)
    <3> DEFINE l == b.lastFill
    <3>1. clock' \in Int /\ l \in Int
      BY <1>1, <2>2
    <3> HIDE DEF l
    <3>2. Flow(clock' - l) = Flow(clock') - Flow(l)
      BY <3>1, FlowTakesAway
    <3> QED
      BY <3>2 DEF Flow, l
  <2>4. b.lastFill <= clock'
    BY <1>1, <2>1, <2>2 DEF Sound
  <2>5. b.tokens + (Flow(clock') - Flow(b.lastFill)) >= 0
    BY <1>3, <2>1, <2>2 DEF Sound
  <2> QED
    BY <2>3, <2>4, <2>5
<1>6. watch = Nobody \/
        watch \in [address : Addresses \ Trusted, from : 0..clock', count : Nat]
  BY <1>1 DEF RInv, RateTypeOK
<1>7. RateTypeOK'
  BY <1>1, <1>2, <1>4, <1>5, <1>6 DEF RInv, RateTypeOK
<1>8. RateInv'
  <2> SUFFICES ASSUME watch.count > 0, bucket[watch.address] = NoBucket
               PROVE  watch.count * Window <= Burst * (clock' - MaxWait - watch.from)
    BY <1>2 DEF RInv, RateInv
  <2>1. watch.count * Window <= Burst * (clock - MaxWait - watch.from)
    BY DEF RInv, RateInv
  <2>2. watch.from \in Int /\ watch.count \in Int
    BY DEF RInv, RateTypeOK, Nobody
  <2>3. Flow(clock - MaxWait - watch.from) <= Flow(clock' - MaxWait - watch.from)
    BY <1>1, <2>2, FlowGrows
  <2>4. watch.count * Window \in Int
    BY <2>2
  <2>5. /\ Flow(clock - MaxWait - watch.from) \in Int
        /\ Flow(clock' - MaxWait - watch.from) \in Int
    BY <1>1, <2>2, FlowIsInt
  <2>6. watch.count * Window <= Flow(clock' - MaxWait - watch.from)
    <3> DEFINE c == watch.count * Window
    <3>1. c <= Flow(clock - MaxWait - watch.from)
      BY <2>1 DEF Flow
    <3> HIDE DEF c
    <3> QED
      BY <2>3, <2>4, <2>5, <3>1 DEF c
  <2> QED
    BY <2>6 DEF Flow
<1> QED
  BY <1>7, <1>8 DEF RInv

\* Whoever starts to look has seen nothing get through.
LEMMA WatchHolds == ASSUME RInv, NEW a \in Addresses \ Trusted, Watch(a) PROVE RInv'
<1>1. clock \in 0..MaxTime /\ watch' = [address |-> a, from |-> clock, count |-> 0]
  BY DEF RInv, RateTypeOK, Watch
<1>2. RateTypeOK'
  BY <1>1 DEF RInv, RateTypeOK, Watch
<1>3. RateInv'
  BY <1>1 DEF RateInv
<1> QED
  BY <1>2, <1>3 DEF RInv

-----------------------------------------------------------------------------
(* A request gets the mutex.                                                *)

\* The bound of RateInv for n requests since from and bucket b, in terms of Flow.
Within(n, from, b) ==
  IF b = NoBucket
  THEN n * Window <= Flow(clock - MaxWait) - Flow(from)
  ELSE n * Window + b.tokens <= Full + (Flow(b.lastFill) - Flow(from))

LEMMA WithinIs ==
  ASSUME NEW n \in Nat, NEW from \in Int, NEW b \in Buckets \cup {NoBucket},
         clock \in Int
  PROVE  Within(n, from, b) <=>
           IF b = NoBucket
           THEN n * Window <= Burst * (clock - MaxWait - from)
           ELSE n * Window + b.tokens <= Full + Burst * (b.lastFill - from)
<1>1. CASE b = NoBucket
  <2>1. clock - MaxWait \in Int
    OBVIOUS
  <2>2. Flow((clock - MaxWait) - from) = Flow(clock - MaxWait) - Flow(from)
    BY <2>1, FlowTakesAway
  <2>3. Burst * (clock - MaxWait - from) = Flow(clock - MaxWait) - Flow(from)
    BY <2>2 DEF Flow
  <2> QED
    BY <1>1, <2>3 DEF Within
<1>2. CASE b # NoBucket
  <2>1. b.lastFill \in Int
    BY <1>2, BucketsAreBuckets
  <2>2. Flow(b.lastFill - from) = Flow(b.lastFill) - Flow(from)
    BY <2>1, FlowTakesAway
  <2>3. Burst * (b.lastFill - from) = Flow(b.lastFill) - Flow(from)
    BY <2>2 DEF Flow
  <2> QED
    BY <1>2, <2>3 DEF Within
<1> QED
  BY <1>1, <1>2

\* A request that gets through costs its own bucket a window's worth, filled up
\* to the request's time; another's bucket it can only sweep (ratelimit.go:139-163).
LEMMA AllowHolds == ASSUME RInv, NEW q \in Callers, Allow(q) PROVE RInv'
<1> DEFINE k     == call[q].key
           peer  == call[q].peer
           now   == call[q].now
           t     == Filled(Swept(k, now), now)
           ok    == t >= Window
           v     == IF ok THEN t - Window ELSE t
           new   == [tokens |-> v, lastFill |-> now]
           w     == watch.address
           n     == watch.count
           from  == watch.from
<1>1. /\ k \in Addresses /\ peer \in Addresses /\ now \in 0..MaxTime /\ now \in Int
      /\ now <= clock /\ clock - now <= MaxWait
      /\ peer \notin Trusted => k = peer
      /\ clock \in 0..MaxTime /\ clock \in Int
  <2>1. call[q] \in Calls /\ call[q] # NoCall
    BY DEF Allow, RInv, RateTypeOK
  <2> QED
    BY <2>1 DEF RInv, RateTypeOK, Calls
<1>2. /\ bucket' = [a \in Addresses |-> IF a = k THEN new ELSE Swept(a, now)]
      /\ call' = [call EXCEPT ![q] = NoCall] /\ clock' = clock
      /\ watch' = IF ok /\ peer = w /\ now >= from
                  THEN [watch EXCEPT !.count = @ + 1] ELSE watch
  BY DEF Allow
<1>3. ASSUME NEW a \in Addresses
      PROVE  /\ Swept(a, now) = bucket[a] \/ Swept(a, now) = NoBucket
             /\ Swept(a, now) # bucket[a] => now - bucket[a].lastFill > EvictTTL
             /\ bucket[a] \in Buckets \cup {NoBucket}
             /\ Swept(a, now) \in Buckets \cup {NoBucket}
             /\ Swept(a, now) # NoBucket => Sound(Swept(a, now))
  <2>1. /\ Swept(a, now) = bucket[a] \/ Swept(a, now) = NoBucket
        /\ Swept(a, now) # bucket[a] => now - bucket[a].lastFill > EvictTTL
    BY DEF Swept, Idle
  <2>2. bucket[a] \in Buckets \cup {NoBucket}
    BY DEF RInv, RateTypeOK
  <2>3. bucket[a] # NoBucket => Sound(bucket[a])
    BY TypeOKGivesSound DEF RInv
  <2> QED
    BY <2>1, <2>2, <2>3
<1>4. Flow(clock) \in Int /\ Flow(now) \in Int /\ Flow(now) <= Flow(clock)
  BY <1>1, FlowIsInt, FlowGrows
<1>5. t \in Int /\ t <= Full /\ t + (Flow(clock) - Flow(now)) >= 0
  <2> DEFINE s == Swept(k, now)
  <2>1. CASE s = NoBucket
    <3>1. t = Full
      BY <1>1, <2>1, NewIsFull
    <3> HIDE DEF t
    <3> QED
      BY <1>4, <3>1, FullIsFlow
  <2>2. CASE s # NoBucket
    <3>1. s \in Buckets /\ Sound(s)
      BY <1>1, <1>3, <2>2
    <3>2. s.tokens \in Int /\ s.lastFill \in Int /\ Flow(s.lastFill) \in Int
      BY <3>1, BucketsAreBuckets, FlowIsInt
    <3>3. s.tokens + (Flow(clock) - Flow(s.lastFill)) >= 0
      BY <3>1 DEF Sound
    <3> DEFINE x == s.tokens + (Flow(now) - Flow(s.lastFill))
    <3>4. Filled(s, now) = IF x > Full THEN Full ELSE x
      BY <1>1, <3>1, FilledIs
    <3>5. t = IF x > Full THEN Full ELSE x
      BY <3>4
    <3> HIDE DEF t, s
    <3> QED
      BY <1>4, <3>2, <3>3, <3>5, FullIsFlow
  <2> QED
    BY <2>1, <2>2
<1>6. v \in Int /\ v <= Full /\ v + (Flow(clock) - Flow(now)) >= 0 /\ v <= t
  <2> HIDE DEF t, now
  <2>1. CASE ok
    <3>1. v = t - Window /\ t >= Window
      BY <2>1
    <3> HIDE DEF v, ok
    <3> QED
      BY <1>4, <1>5, <3>1, FullIsFlow
  <2>2. CASE ~ ok
    <3>1. v = t
      BY <2>2
    <3> HIDE DEF v, ok
    <3> QED
      BY <1>5, <3>1
  <2> QED
    BY <2>1, <2>2
<1>7. new \in Buckets /\ new # NoBucket /\ new.tokens = v /\ new.lastFill = now
  <2>1. v >= -Flow(MaxWait)
    <3>1. Flow(clock - now) = Flow(clock) - Flow(now)
      BY <1>1, FlowTakesAway
    <3>2. Flow(clock - now) <= Flow(MaxWait)
      <4>1. clock - now \in Int /\ MaxWait \in Int
        BY <1>1
      <4> QED
        BY <1>1, <4>1, FlowGrows
    <3>3. Flow(MaxWait) \in Int
      BY FlowIsInt
    <3> HIDE DEF v
    <3> QED
      BY <1>4, <1>6, <3>1, <3>2, <3>3
  <2>2. -Flow(MaxWait) = -Burst * MaxWait /\ Burst * MaxWait \in Nat
    BY DEF Flow
  <2> HIDE DEF v
  <2>3. v \in -Burst * MaxWait..Full
    BY <1>6, <2>1, <2>2, FullIsFlow
  <2>4. new \in Buckets
    BY <1>1, <2>3 DEF Buckets
  <2>5. new # NoBucket
    BY <2>4, BucketsAreBuckets
  <2> QED
    BY <2>4, <2>5
<1>8. \A a \in Addresses : bucket'[a] = IF a = k THEN new ELSE Swept(a, now)
  BY <1>2
<1> HIDE DEF new, v, ok, t
<1>9. watch = Nobody \/
        /\ watch \in [address : Addresses \ Trusted, from : 0..clock, count : Nat]
        /\ w \in Addresses /\ w \notin Trusted /\ n \in Nat /\ from \in 0..clock
  BY DEF RInv, RateTypeOK
<1>10. watch' = Nobody \/
         watch' \in [address : Addresses \ Trusted, from : 0..clock, count : Nat]
  <2>1. CASE watch = Nobody
    <3>1. peer # w
      BY <1>1, <2>1 DEF Nobody
    <3> HIDE DEF peer, now
    <3> QED
      BY <1>2, <2>1, <3>1
  <2>2. CASE watch # Nobody
    <3> HIDE DEF peer, now
    <3> QED
      BY <1>2, <1>9, <2>2
  <2> QED
    BY <2>1, <2>2
<1>11. RateTypeOK'
  <2>1. call' \in [Callers -> Calls \cup {NoCall}]
    BY <1>2 DEF RInv, RateTypeOK
  <2>2. \A r \in Callers : call'[r] # NoCall => call'[r] = call[r]
    BY <1>2 DEF RInv, RateTypeOK
  <2>3. bucket' \in [Addresses -> Buckets \cup {NoBucket}]
    BY <1>2, <1>3, <1>7
  <2>4. \A a \in Addresses : bucket'[a] # NoBucket => Sound(bucket'[a])
    <3> TAKE a \in Addresses
    <3>1. CASE a = k
      <4>1. Sound(new)
        <5> HIDE DEF now
        <5> QED
          BY <1>1, <1>6, <1>7 DEF Sound
      <4> QED
        BY <1>8, <3>1, <4>1
    <3>2. CASE a # k
      BY <1>3, <1>8, <3>2
    <3> QED
      BY <3>1, <3>2
  <2>5. \A a \in Addresses : bucket'[a] # NoBucket =>
          /\ bucket'[a].lastFill <= clock
          /\ bucket'[a].tokens + Burst * (clock - bucket'[a].lastFill) >= 0
    <3> TAKE a \in Addresses
    <3> HAVE bucket'[a] # NoBucket
    <3> DEFINE b == bucket'[a]
    <3>1. Sound(b)
      BY <2>4
    <3>2. b.lastFill \in Int
      BY <3>1, BucketsAreBuckets DEF Sound
    <3>3. Flow(clock - b.lastFill) = Flow(clock) - Flow(b.lastFill)
      BY <1>1, <3>2, FlowTakesAway
    <3> HIDE DEF b
    <3>4. b.lastFill <= clock /\ b.tokens + Burst * (clock - b.lastFill) >= 0
      BY <3>1, <3>3 DEF Sound, Flow
    <3> QED
      BY <3>4 DEF b
  <2> QED
    BY <1>1, <1>2, <1>10, <2>1, <2>2, <2>3, <2>5 DEF RInv, RateTypeOK
<1>12. RateInv'
  <2> SUFFICES ASSUME watch'.count > 0
               PROVE  LET b == bucket'[watch'.address]
                      IN  IF b = NoBucket
                          THEN watch'.count * Window <= Burst * (clock - MaxWait - watch'.from)
                          ELSE watch'.count * Window + b.tokens
                                 <= Full + Burst * (b.lastFill - watch'.from)
    BY <1>2 DEF RateInv
  <2>1. watch # Nobody
    <3> SUFFICES ASSUME watch = Nobody PROVE FALSE
      OBVIOUS
    <3>1. peer # w
      BY <1>1 DEF Nobody
    <3>2. watch' = Nobody
      BY <1>2, <3>1
    <3> QED
      BY <3>2 DEF Nobody
  <2>2. /\ watch \in [address : Addresses \ Trusted, from : 0..clock, count : Nat]
        /\ w \in Addresses /\ w \notin Trusted /\ n \in Nat /\ from \in Int
    BY <1>1, <1>9, <2>1
  <2>3. watch'.address = w /\ watch'.from = from
        /\ watch'.count = IF ok /\ peer = w /\ now >= from THEN n + 1 ELSE n
    <3> HIDE DEF peer, now
    <3> QED
      BY <1>2, <2>2
  <2>4. n > 0 => Within(n, from, bucket[w])
    <3>1. bucket[w] \in Buckets \cup {NoBucket}
      BY <1>3, <2>2
    <3>2. Within(n, from, bucket[w]) <=>
            IF bucket[w] = NoBucket
            THEN n * Window <= Burst * (clock - MaxWait - from)
            ELSE n * Window + bucket[w].tokens <= Full + Burst * (bucket[w].lastFill - from)
      BY <1>1, <2>2, <3>1, WithinIs
    <3> QED
      BY <3>2 DEF RInv, RateInv
  <2>5. Within(watch'.count, from, bucket'[w])
    <3>0. /\ n * Window \in Int /\ Flow(from) \in Int /\ Flow(clock - MaxWait) \in Int
          /\ now >= clock - MaxWait /\ Flow(now) >= Flow(clock - MaxWait)
          /\ clock - MaxWait \in Int
      <4>1. n * Window \in Int /\ clock - MaxWait \in Int /\ now >= clock - MaxWait
        BY <1>1, <2>2
      <4> HIDE DEF n, now, from
      <4> QED
        BY <1>1, <2>2, <4>1, FlowIsInt, FlowGrows
    <3> DEFINE had == n * Window
               b   == bucket[w]
    <3>1. CASE w = k
      \* The watched bucket before the request takes its share.
      <4>1. n > 0 => had + t <= Full + (Flow(now) - Flow(from))
        <5> HAVE n > 0
        <5>1. CASE b = NoBucket
          <6>1. t = Full
            BY <1>1, <1>3, <3>1, <5>1, NewIsFull DEF t
          <6>2. had <= Flow(clock - MaxWait) - Flow(from)
            BY <2>4, <5>1 DEF Within
          <6> HIDE DEF had, now, from
          <6> QED
            BY <1>4, <3>0, <6>1, <6>2, FullIsFlow DEF had
        <5>2. CASE b # NoBucket
          <6>1. /\ b \in Buckets /\ b.tokens \in Int /\ b.lastFill \in Int
                /\ Flow(b.lastFill) \in Int
            BY <1>3, <2>2, <5>2, BucketsAreBuckets, FlowIsInt
          <6>2. had + b.tokens <= Full + (Flow(b.lastFill) - Flow(from))
            BY <2>4, <5>2 DEF Within
          <6>3. t <= b.tokens + (Flow(now) - Flow(b.lastFill))
            <7>1. CASE Swept(k, now) = b
              <8> DEFINE x == b.tokens + (Flow(now) - Flow(b.lastFill))
              <8>1. t = IF x > Full THEN Full ELSE x
                BY <1>1, <6>1, <7>1, FilledIs DEF t
              <8>2. x \in Int
                BY <1>4, <6>1
              <8> HIDE DEF x
              <8>3. t <= x
                BY <8>1, <8>2, FullIsFlow
              <8> QED
                BY <8>3 DEF x
            <7>2. CASE Swept(k, now) # b
              <8>1. Swept(k, now) = NoBucket /\ now - b.lastFill > EvictTTL
                BY <1>1, <1>3, <3>1, <7>2
              <8>2. t = Full
                BY <1>1, <8>1, NewIsFull DEF t
              <8>3. now >= now - MaxWait
                BY <1>1
              <8>4. b.tokens + (Flow(now) - Flow(b.lastFill)) >= Full
                BY <1>1, <6>1, <8>1, <8>3, SweptIsFull
              <8> QED
                BY <8>2, <8>4, <1>4, <6>1, FullIsFlow
            <7> QED
              BY <7>1, <7>2
          <6> HIDE DEF had, now, from, b
          <6> QED
            BY <1>4, <1>5, <3>0, <6>1, <6>2, <6>3, FullIsFlow DEF had
        <5> QED
          BY <5>1, <5>2
      <4>2. bucket'[w] = new
        BY <1>8, <2>2, <3>1
      <4>3. watch'.count * Window + v <= Full + (Flow(now) - Flow(from))
        <5>1. CASE ok /\ peer = w /\ now >= from
          <6>1. watch'.count = n + 1 /\ (n + 1) * Window = had + Window
            BY <2>2, <2>3, <5>1
          <6>2. v = t - Window
            BY <5>1 DEF v
          <6>3. had + t <= Full + (Flow(now) - Flow(from))
            <7>1. CASE n > 0
              BY <4>1, <7>1
            <7>2. CASE n = 0
              <8>1. had = 0
                BY <7>2
              <8>2. Flow(from) <= Flow(now)
                BY <1>1, <2>2, <5>1, FlowGrows
              <8> HIDE DEF had, now, from
              <8> QED
                BY <1>4, <1>5, <3>0, <8>1, <8>2, FullIsFlow
            <7> QED
              BY <2>2, <7>1, <7>2
          <6>4. had + Window + (t - Window) = had + t
            <7> HIDE DEF had
            <7> QED
              BY <1>5, <3>0 DEF had
          <6> QED
            BY <6>1, <6>2, <6>3, <6>4
        <5>2. CASE ~ (ok /\ peer = w /\ now >= from)
          <6>1. watch'.count = n /\ n > 0
            BY <2>3, <5>2
          <6>2. had + t <= Full + (Flow(now) - Flow(from))
            BY <4>1, <6>1
          <6>3. had + v <= had + t
            <7> HIDE DEF had
            <7> QED
              BY <1>5, <1>6, <3>0 DEF had
          <6>4. had + v <= Full + (Flow(now) - Flow(from))
            <7> HIDE DEF had, now, from
            <7> QED
              BY <1>4, <1>5, <1>6, <3>0, <6>2, <6>3, FullIsFlow DEF had
          <6> QED
            BY <6>1, <6>4
        <5> QED
          BY <5>1, <5>2
      <4> QED
        BY <1>7, <4>2, <4>3 DEF Within
    <3>2. CASE w # k
      <4>1. peer # w
        BY <1>1, <2>2, <3>2
      <4>2. watch'.count = n /\ n > 0
        BY <2>3, <4>1
      <4>3. bucket'[w] = Swept(w, now)
        BY <1>8, <2>2, <3>2
      <4>4. CASE Swept(w, now) = b
        BY <2>4, <4>2, <4>3, <4>4
      <4>5. CASE Swept(w, now) # b
        <5>1. Swept(w, now) = NoBucket /\ now - b.lastFill > EvictTTL /\ b \in Buckets
          BY <1>3, <2>2, <4>5
        <5>2. /\ b # NoBucket /\ b.tokens \in Int /\ b.lastFill \in Int
              /\ Flow(b.lastFill) \in Int
          BY <5>1, BucketsAreBuckets, FlowIsInt
        <5>3. clock - MaxWait >= now - MaxWait
          BY <1>1
        <5>4. b.tokens + (Flow(clock - MaxWait) - Flow(b.lastFill)) >= Full
          BY <1>1, <3>0, <5>1, <5>3, SweptIsFull
        <5>5. had + b.tokens <= Full + (Flow(b.lastFill) - Flow(from))
          BY <2>4, <4>2, <5>2 DEF Within
        <5>6. had <= Flow(clock - MaxWait) - Flow(from)
          <6> HIDE DEF had, b, from
          <6> QED
            BY <3>0, <5>2, <5>4, <5>5, FullIsFlow DEF had
        <5> QED
          BY <4>2, <4>3, <5>1, <5>6 DEF Within
      <4> QED
        BY <4>4, <4>5
    <3> QED
      BY <3>1, <3>2
  <2>6. bucket'[w] \in Buckets \cup {NoBucket} /\ watch'.count \in Nat
    BY <1>3, <1>7, <1>8, <2>2, <2>3
  <2>7. Within(watch'.count, from, bucket'[w]) <=>
          IF bucket'[w] = NoBucket
          THEN watch'.count * Window <= Burst * (clock - MaxWait - from)
          ELSE watch'.count * Window + bucket'[w].tokens
                 <= Full + Burst * (bucket'[w].lastFill - from)
    <3> DEFINE c == watch'.count
               b == bucket'[w]
    <3>1. c \in Nat /\ b \in Buckets \cup {NoBucket}
      BY <2>6
    <3> HIDE DEF c, b
    <3>2. Within(c, from, b) <=>
            IF b = NoBucket
            THEN c * Window <= Burst * (clock - MaxWait - from)
            ELSE c * Window + b.tokens <= Full + Burst * (b.lastFill - from)
      BY <1>1, <2>2, <3>1, WithinIs
    <3> QED
      BY <3>2 DEF c, b
  <2> QED
    BY <2>3, <2>5, <2>7
<1> QED
  BY <1>11, <1>12 DEF RInv

-----------------------------------------------------------------------------
(* The theorems.                                                            *)

LEMMA StepHolds == ASSUME RInv, [RateNext]_limiter PROVE RInv'
<1>1. CASE Tick
  BY <1>1, TickHolds
<1>2. CASE \E a \in Addresses \ Trusted : Watch(a)
  BY <1>2, WatchHolds
<1>3. CASE \E q \in Callers : Allow(q)
  BY <1>3, AllowHolds
<1>4. CASE \E q \in Callers, peer \in Addresses, claim \in Addresses \cup {NoClaim} :
             ReadClock(q, peer, claim)
  BY <1>4, ReadClockHolds
<1>5. CASE UNCHANGED limiter
  BY <1>5 DEF limiter, RInv, RateTypeOK, RateInv
<1> QED
  BY <1>1, <1>2, <1>3, <1>4, <1>5 DEF RateNext

\* Waiting requests, buckets and the observer have their types; no bucket lacks
\* more than what flows in while a request waits (ratelimit.go:105-163).
THEOREM RateTypeCorrect == RateSpec => []RateTypeOK
<1>1. RateInit => RInv
  BY InitHolds
<1>2. RInv /\ [RateNext]_limiter => RInv'
  BY StepHolds
<1>3. RInv => RateTypeOK
  BY DEF RInv
<1> QED
  BY <1>1, <1>2, <1>3, PTL DEF RateSpec

\* Of the requests that a peer makes since any moment no more than a burst and
\* burst per window get through, for every burst and window, however many
\* requests wait for the mutex and in whatever order they get it, as long as
\* buckets are kept for a window and twice the longest wait
\* (ratelimit.go:138-177).
THEOREM LimitIsHeld == RateSpec => []RateHeld
<1>1. RateInit => RInv
  BY InitHolds
<1>2. RInv /\ [RateNext]_limiter => RInv'
  BY StepHolds
<1>3. ASSUME RInv PROVE RateHeld
  <2> DEFINE n    == watch.count
             from == watch.from
             had  == n * Window
             b    == bucket[watch.address]
  <2>1. clock \in Int /\ n \in Nat /\ from \in Int /\ from <= clock
    BY <1>3 DEF RInv, RateTypeOK, Nobody
  <2>2. /\ had \in Int /\ Flow(clock) \in Int /\ Flow(from) \in Int
        /\ Flow(from) <= Flow(clock)
    <3>1. had \in Int
      BY <2>1
    <3> HIDE DEF had, n, from
    <3> QED
      BY <2>1, <3>1, FlowIsInt, FlowGrows
  <2>3. had <= Full + (Flow(clock) - Flow(from))
    <3>1. CASE n = 0
      <4>1. had = 0
        BY <3>1
      <4> HIDE DEF had, from
      <4> QED
        BY <2>2, <4>1, FullIsFlow
    <3>2. CASE n > 0
      <4>1. /\ watch.address \in Addresses /\ b \in Buckets \cup {NoBucket}
        BY <1>3, <3>2 DEF RInv, RateTypeOK, Nobody
      <4>2. Within(n, from, b)
        <5>1. Within(n, from, b) <=>
                IF b = NoBucket
                THEN n * Window <= Burst * (clock - MaxWait - from)
                ELSE n * Window + b.tokens <= Full + Burst * (b.lastFill - from)
          BY <2>1, <4>1, WithinIs
        <5> QED
          BY <1>3, <3>2, <5>1 DEF RInv, RateInv
      <4>3. CASE b = NoBucket
        <5>1. had <= Flow(clock - MaxWait) - Flow(from)
          BY <4>2, <4>3 DEF Within
        <5>2. clock - MaxWait \in Int /\ clock - MaxWait <= clock
          BY <2>1
        <5>3. Flow(clock - MaxWait) <= Flow(clock) /\ Flow(clock - MaxWait) \in Int
          BY <2>1, <5>2, FlowGrows, FlowIsInt
        <5> HIDE DEF had, from
        <5> QED
          BY <2>2, <5>1, <5>3, FullIsFlow
      <4>4. CASE b # NoBucket
        <5>1. had + b.tokens <= Full + (Flow(b.lastFill) - Flow(from))
          BY <4>2, <4>4 DEF Within
        <5>2. Sound(b)
          BY <1>3, <4>1, <4>4, TypeOKGivesSound DEF RInv
        <5>3. b.tokens \in Int /\ b.lastFill \in Int /\ Flow(b.lastFill) \in Int
          BY <5>2, BucketsAreBuckets, FlowIsInt DEF Sound
        <5>4. b.tokens + (Flow(clock) - Flow(b.lastFill)) >= 0
          BY <5>2 DEF Sound
        <5> HIDE DEF had, from, b
        <5> QED
          BY <2>2, <5>1, <5>3, <5>4, FullIsFlow
      <4> QED
        BY <4>3, <4>4
    <3> QED
      BY <2>1, <3>1, <3>2
  <2>4. Burst * (clock - from) = Flow(clock) - Flow(from)
    <3>1. Flow(clock - from) = Flow(clock) - Flow(from)
      <4> HIDE DEF from
      <4> QED
        BY <2>1, FlowTakesAway
    <3> QED
      BY <3>1 DEF Flow
  <2> QED
    BY <2>3, <2>4 DEF RateHeld
<1> QED
  BY <1>1, <1>2, <1>3, PTL DEF RateSpec

-----------------------------------------------------------------------------
(* The documentation.  While Sync writes, every row is one it has listed or    *)
(* the text of a document it has come to; and what it has come to is there.    *)

Rows ==
  /\ mem \in [Ids -> [version : 0..MaxVersion, body : Bodies \cup {NoBody}]]
  /\ \A i \in Live(mem) : mem[i].body \in Bodies
  /\ \A i, j \in Live(mem) : mem[i].body.title = mem[j].body.title => i = j

\* The documents that Sync has come to.
DocsDone == {docs[k] : k \in 1..(nth - 1)}

\* A row that was listed holds what was listed, or its document.
Listed(m) ==
  /\ m.id \in Live(mem) /\ mem[m.id].body.title = m.body.title
  /\ \A b \in DocsDone : b.title = m.body.title => mem[m.id].body = b
  /\ (\A b \in DocsDone : b.title # m.body.title) => mem[m.id].body = m.body

HalfWay ==
  /\ nth \in 1..(Len(docs) + 1)
  /\ \A m \in byTitle : Listed(m)
  /\ \A m, o \in byTitle : m.id = o.id => m = o
  /\ \A i \in Live(mem) : (\E m \in byTitle : m.id = i) \/ mem[i].body \in DocsDone
  /\ \A b \in DocsDone : \E i \in Live(mem) : mem[i].body = b

DocsInv ==
  /\ Rows
  /\ docs \in Releases \cup {<<>>} /\ (boot # "down" => docs \in Releases)
  /\ boot = "write" => HalfWay
  /\ ServedIsFiles

\* A release is a list of documents, no two of one title.
LEMMA ReleaseIs ==
  ASSUME NEW r \in Releases
  PROVE  /\ Len(r) \in Nat /\ DOMAIN r = 1..Len(r)
         /\ \A k \in DOMAIN r : r[k] \in Bodies
         /\ \A j, k \in DOMAIN r : r[j].title = r[k].title => j = k
<1>1. r \in Seq(Bodies) /\ \A j, k \in DOMAIN r : r[j].title = r[k].title => j = k
  BY ReleasesAssumption
<1> QED  BY <1>1

LEMMA RowWritten ==
  ASSUME Rows, NEW i \in Ids, NEW n \in 1..MaxVersion, NEW b \in Bodies, WriteRow(i, n, b),
         \A j \in Live(mem) \ {i} : mem[j].body.title # b.title
  PROVE  /\ Rows' /\ Live(mem') = Live(mem) \cup {i}
         /\ mem'[i].body = b /\ \A j \in Ids \ {i} : mem'[j] = mem[j]
<1>1. mem' = [mem EXCEPT ![i] = [version |-> n, body |-> b]]
  BY DEF WriteRow
<1>2. /\ mem'[i] = [version |-> n, body |-> b] /\ \A j \in Ids \ {i} : mem'[j] = mem[j]
      /\ mem' \in [Ids -> [version : 0..MaxVersion, body : Bodies \cup {NoBody}]]
  BY <1>1, VersionAssumption DEF Rows
<1>3. Live(mem') = Live(mem) \cup {i}
  BY <1>2 DEF Live
<1>4. Live(mem) \subseteq Ids
  BY DEF Live
<1>5. \A j \in Live(mem') : mem'[j].body \in Bodies
  BY <1>2, <1>3, <1>4 DEF Rows
<1>6. \A j, k \in Live(mem') : mem'[j].body.title = mem'[k].body.title => j = k
  BY <1>2, <1>3, <1>4 DEF Rows
<1> QED  BY <1>2, <1>3, <1>5, <1>6 DEF Rows

LEMMA RowDeleted ==
  ASSUME Rows, NEW i \in Ids, Delete(i)
  PROVE  /\ Rows' /\ Live(mem') = Live(mem) \ {i}
         /\ \A j \in Ids \ {i} : mem'[j] = mem[j]
<1>1. mem' = [mem EXCEPT ![i] = Absent] /\ Absent.version = 0
  BY DEF Delete, Absent
<1>2. /\ mem'[i] = Absent /\ \A j \in Ids \ {i} : mem'[j] = mem[j]
      /\ mem' \in [Ids -> [version : 0..MaxVersion, body : Bodies \cup {NoBody}]]
  BY <1>1, VersionAssumption DEF Rows, Absent
<1>3. Live(mem') = Live(mem) \ {i}
  BY <1>1, <1>2 DEF Live
<1>4. Live(mem) \subseteq Ids
  BY DEF Live
<1> QED  BY <1>2, <1>3, <1>4 DEF Rows

LEMMA InitDocs == SyncInit => DocsInv
<1> SUFFICES ASSUME SyncInit PROVE DocsInv
  OBVIOUS
<1>1. Live(mem) = {} /\ Absent \in [version : 0..MaxVersion, body : Bodies \cup {NoBody}]
  BY VersionAssumption DEF SyncInit, Init, Live, Absent
<1>2. Rows
  BY <1>1 DEF SyncInit, Init, Rows
<1> QED  BY <1>2 DEF SyncInit, DocsInv, ServedIsFiles

LEMMA ListInv == ASSUME DocsInv, ListDocs PROVE DocsInv'
<1>1. /\ mem' = mem /\ docs' = docs /\ docs \in Releases /\ nth' = 1 /\ boot' = "write"
      /\ byTitle' = {[id |-> i, body |-> mem[i].body] : i \in Live(mem)}
  BY DEF ListDocs, DocsInv, vars, tables
<1>2. Len(docs) \in Nat
  BY <1>1, ReleaseIs
<1>3. DocsDone' = {}
  BY <1>1 DEF DocsDone
<1>4. ASSUME NEW m \in byTitle' PROVE Listed(m)' /\ \E i \in Live(mem) : m.id = i
  <2>1. PICK i \in Live(mem) : m = [id |-> i, body |-> mem[i].body]
    BY <1>1
  <2>2. m.id = i /\ m.body = mem[i].body
    BY <2>1
  <2> QED  BY <1>1, <1>3, <2>2 DEF Listed
<1>5. \A m, o \in byTitle' : m.id = o.id => m = o
  BY <1>1
<1>6. ASSUME NEW i \in Live(mem) PROVE \E m \in byTitle' : m.id = i
  <2>1. [id |-> i, body |-> mem[i].body] \in byTitle'
    BY <1>1
  <2>2. [id |-> i, body |-> mem[i].body].id = i
    OBVIOUS
  <2> QED  BY <2>1, <2>2, Zenon
<1>7. nth' \in 1..(Len(docs) + 1)
  BY <1>1, <1>2
<1>8. HalfWay'
  BY <1>1, <1>3, <1>4, <1>5, <1>6, <1>7 DEF HalfWay
<1> QED  BY <1>1, <1>8 DEF DocsInv, Rows, ServedIsFiles

\* What stays of HalfWay when a document comes to be the text of the row w.
LEMMA DocWritten ==
  ASSUME DocsInv, boot = "write", nth \in DOMAIN docs, NEW w \in Ids,
         nth' = nth + 1, UNCHANGED <<boot, docs, byTitle>>,
         Rows', Live(mem') = Live(mem) \cup {w}, mem'[w].body = docs[nth],
         \A j \in Ids \ {w} : mem'[j] = mem[j],
         (\E m \in Current(docs[nth]) : m.id = w) \/ (w \notin Live(mem) /\ Current(docs[nth]) = {})
  PROVE  DocsInv'
<1> DEFINE b == docs[nth]
<1>1. /\ docs \in Releases /\ HalfWay /\ Rows
  BY DEF DocsInv
<1>2. /\ Len(docs) \in Nat /\ DOMAIN docs = 1..Len(docs) /\ nth \in 1..Len(docs)
      /\ \A j, k \in DOMAIN docs : docs[j].title = docs[k].title => j = k
  BY <1>1, ReleaseIs
<1>3. DocsDone' = DocsDone \cup {b}
  <2>1. 1..(nth' - 1) = 1..(nth - 1) \cup {nth}
    BY <1>2
  <2> QED  BY <2>1 DEF DocsDone
<1>4. \A x \in DocsDone : x.title # b.title
  <2>1. \A k \in 1..(nth - 1) : k \in DOMAIN docs /\ k # nth
    BY <1>2
  <2> QED  BY <1>2, <2>1 DEF DocsDone
<1>5. Live(mem) \subseteq Ids
  BY DEF Live
<1>6. ASSUME NEW m \in byTitle PROVE Listed(m)'
  <2>1. Listed(m)
    BY <1>1 DEF HalfWay
  <2>2. CASE m.id = w
    <3>1. m.body.title = b.title
      <4>1. w \in Live(mem)
        BY <2>1, <2>2 DEF Listed
      <4>2. PICK o \in Current(b) : o.id = w
        BY <4>1
      <4>3. o \in byTitle /\ o.body.title = b.title
        BY <4>2 DEF Current
      <4> QED  BY <1>1, <2>2, <4>2, <4>3 DEF HalfWay
    <3> QED  BY <1>3, <1>4, <2>1, <2>2, <3>1 DEF Listed
  <2>3. CASE m.id # w
    <3>1. mem'[m.id] = mem[m.id] /\ m.id \in Live(mem')
      BY <1>5, <2>1, <2>3 DEF Listed
    <3>2. m.body.title # b.title
      <4>1. CASE Current(b) = {}
        BY <4>1 DEF Current
      <4>2. CASE \E o \in Current(b) : o.id = w
        <5>1. PICK o \in Current(b) : o.id = w
          BY <4>2
        <5>2. Listed(o) /\ o.body.title = b.title
          BY <1>1, <5>1 DEF HalfWay, Current
        <5> QED  BY <1>1, <2>1, <2>3, <5>1, <5>2 DEF Rows, Listed
      <4> QED  BY <4>1, <4>2
    <3> QED  BY <1>3, <2>1, <3>1, <3>2 DEF Listed
  <2> QED  BY <2>2, <2>3
<1>7. ASSUME NEW i \in Live(mem')
      PROVE  (\E m \in byTitle : m.id = i) \/ mem'[i].body \in DocsDone'
  <2>1. CASE i = w
    BY <1>3, <2>1
  <2>2. CASE i # w
    BY <1>1, <1>3, <1>5, <2>2 DEF HalfWay
  <2> QED  BY <2>1, <2>2
<1>8. ASSUME NEW x \in DocsDone' PROVE \E i \in Live(mem') : mem'[i].body = x
  <2>1. CASE x = b
    BY <2>1
  <2>2. CASE x \in DocsDone
    <3>1. PICK i \in Live(mem) : mem[i].body = x
      BY <1>1, <2>2 DEF HalfWay
    <3>2. i # w
      <4>1. CASE w \notin Live(mem)
        BY <4>1
      <4>2. CASE \E o \in Current(b) : o.id = w
        <5>1. PICK o \in Current(b) : o.id = w
          BY <4>2
        <5>2. Listed(o) /\ o.body.title = b.title
          BY <1>1, <5>1 DEF HalfWay, Current
        <5> QED  BY <1>4, <2>2, <3>1, <5>1, <5>2 DEF Listed
      <4> QED  BY <4>1, <4>2
    <3> QED  BY <1>5, <3>1, <3>2
  <2> QED  BY <1>3, <2>1, <2>2
<1>9. nth' \in 1..(Len(docs) + 1)
  BY <1>2
<1>10. HalfWay'
  BY <1>1, <1>6, <1>7, <1>8, <1>9 DEF HalfWay
<1> QED  BY <1>1, <1>10 DEF DocsInv, ServedIsFiles

LEMMA SyncDocInv == ASSUME DocsInv, SyncDoc PROVE DocsInv'
<1> DEFINE b == docs[nth]
<1>1. /\ boot = "write" /\ nth \in DOMAIN docs /\ nth' = nth + 1
      /\ UNCHANGED <<boot, docs, byTitle>>
  BY DEF SyncDoc
<1>2. /\ Rows /\ HalfWay /\ b \in Bodies
  BY <1>1, ReleaseIs DEF DocsInv
<1>3. Live(mem) \subseteq Ids
  BY DEF Live
<1>4. ASSUME NEW x \in DocsDone PROVE x.title # b.title
  <2>1. /\ nth \in 1..Len(docs) /\ DOMAIN docs = 1..Len(docs) /\ Len(docs) \in Nat
        /\ \A j, k \in DOMAIN docs : docs[j].title = docs[k].title => j = k
    BY <1>1, ReleaseIs DEF DocsInv
  <2>2. \A k \in 1..(nth - 1) : k \in DOMAIN docs /\ k # nth
    BY <2>1
  <2> QED  BY <2>1, <2>2 DEF DocsDone
<1>5. CASE Current(b) = {} /\ \E i \in Ids : Insert(i, b)
  <2>1. PICK i \in Ids : Insert(i, b)
    BY <1>5
  <2>2. WriteRow(i, 1, b) /\ i \notin Live(mem) /\ 1 \in 1..MaxVersion
    BY <2>1, VersionAssumption DEF Insert
  <2>3. ASSUME NEW j \in Live(mem) \ {i} PROVE mem[j].body.title # b.title
    <3>1. CASE \E m \in byTitle : m.id = j
      BY <1>2, <1>5, <3>1 DEF HalfWay, Listed, Current
    <3>2. CASE mem[j].body \in DocsDone
      BY <1>4, <3>2
    <3> QED  BY <1>2, <3>1, <3>2 DEF HalfWay
  <2>4. /\ Rows' /\ Live(mem') = Live(mem) \cup {i}
        /\ mem'[i].body = b /\ \A j \in Ids \ {i} : mem'[j] = mem[j]
    BY <1>2, <2>2, <2>3, RowWritten
  <2> QED  BY <1>1, <1>5, <2>2, <2>4, DocWritten
<1>6. CASE \E m \in Current(b) : m.body # b /\ Update(m.id, Keep, b, NoBase)
  <2>1. PICK m \in Current(b) : m.body # b /\ Update(m.id, Keep, b, NoBase)
    BY <1>6
  <2> DEFINE i == m.id
  <2>2. /\ i \in Live(mem) /\ mem[i].version < MaxVersion
        /\ WriteRow(i, mem[i].version + 1, b)
    BY <2>1 DEF Update
  <2>3. mem[i].version \in 0..MaxVersion /\ mem[i].version + 1 \in 1..MaxVersion
    BY <1>2, <1>3, <2>2, VersionAssumption DEF Rows
  <2>4. mem[i].body.title = b.title
    BY <1>2, <2>1 DEF HalfWay, Listed, Current
  <2>5. \A j \in Live(mem) \ {i} : mem[j].body.title # b.title
    BY <1>2, <2>2, <2>4 DEF Rows
  <2>6. i \in Ids
    BY <1>3, <2>2
  <2>7. /\ Rows' /\ Live(mem') = Live(mem) \cup {i}
        /\ mem'[i].body = b /\ \A j \in Ids \ {i} : mem'[j] = mem[j]
    BY <1>2, <2>2, <2>3, <2>5, <2>6, RowWritten
  <2> HIDE DEF i
  <2>8. \E o \in Current(b) : o.id = i
    BY <2>1 DEF i
  <2> QED  BY <1>1, <2>6, <2>7, <2>8, DocWritten
<1>7. CASE \E m \in Current(b) : m.body = b /\ UNCHANGED tables
  <2>1. PICK m \in Current(b) : m.body = b /\ UNCHANGED tables
    BY <1>7
  <2>2. Listed(m) /\ m.body = b /\ mem' = mem
    BY <1>2, <2>1 DEF HalfWay, Current, tables
  <2>3. m.id \in Live(mem) /\ mem[m.id].body = b
    BY <1>4, <2>2 DEF Listed
  <2>4. Rows' /\ Live(mem') = Live(mem) \cup {m.id}
    BY <1>2, <2>2, <2>3 DEF Rows
  <2>5. m.id \in Ids /\ mem'[m.id].body = b
    BY <1>3, <2>2, <2>3
  <2> QED  BY <1>1, <2>1, <2>2, <2>4, <2>5, DocWritten
<1> QED  BY <1>5, <1>6, <1>7 DEF SyncDoc

LEMMA RemoveInv == ASSUME DocsInv, RemoveDoc PROVE DocsInv'
<1>1. PICK m \in Unwanted : Delete(m.id) /\ byTitle' = byTitle \ {m}
  BY DEF RemoveDoc
<1>2. boot = "write" /\ nth \notin DOMAIN docs /\ UNCHANGED <<boot, docs, nth>>
  BY DEF RemoveDoc
<1>3. Rows /\ HalfWay /\ docs \in Releases
  BY <1>2 DEF DocsInv
<1>4. m \in byTitle /\ m.body.title \notin {b.title : b \in FileBodies(docs)} /\ Listed(m)
  BY <1>1, <1>3 DEF Unwanted, HalfWay
<1>5. m.id \in Ids /\ Live(mem) \subseteq Ids
  BY <1>4 DEF Listed, Live
<1>6. Rows' /\ Live(mem') = Live(mem) \ {m.id} /\ \A j \in Ids \ {m.id} : mem'[j] = mem[j]
  BY <1>1, <1>3, <1>5, RowDeleted
<1>7. DocsDone' = DocsDone /\ DocsDone \subseteq FileBodies(docs)
  <2>1. 1..(nth - 1) \subseteq DOMAIN docs
    BY <1>3, ReleaseIs DEF HalfWay
  <2> QED  BY <1>2, <2>1 DEF DocsDone, FileBodies
<1>8. ASSUME NEW o \in byTitle' PROVE Listed(o)'
  <2>1. o \in byTitle /\ o.id # m.id /\ Listed(o)
    BY <1>1, <1>3, <1>4 DEF HalfWay
  <2>2. o.id \in Live(mem') /\ mem'[o.id] = mem[o.id]
    BY <1>5, <1>6, <2>1 DEF Listed
  <2> QED  BY <1>7, <2>1, <2>2 DEF Listed
<1>9. ASSUME NEW i \in Live(mem')
      PROVE  (\E o \in byTitle' : o.id = i) \/ mem'[i].body \in DocsDone'
  <2>1. i \in Live(mem) /\ i # m.id /\ mem'[i] = mem[i]
    BY <1>5, <1>6
  <2>2. (\E o \in byTitle : o.id = i) \/ mem[i].body \in DocsDone
    BY <1>3, <2>1 DEF HalfWay
  <2> QED  BY <1>1, <1>7, <2>1, <2>2
<1>10. ASSUME NEW b \in DocsDone' PROVE \E i \in Live(mem') : mem'[i].body = b
  <2>1. PICK i \in Live(mem) : mem[i].body = b
    BY <1>3, <1>7 DEF HalfWay
  <2>2. i # m.id
    BY <1>4, <1>7, <2>1 DEF Listed
  <2> QED  BY <1>5, <1>6, <2>1, <2>2
<1>11. nth' \in 1..(Len(docs') + 1) /\ \A p, o \in byTitle' : p.id = o.id => p = o
  BY <1>1, <1>2, <1>3 DEF HalfWay
<1>12. HalfWay'
  BY <1>8, <1>9, <1>10, <1>11 DEF HalfWay
<1> QED  BY <1>2, <1>3, <1>6, <1>12 DEF DocsInv, ServedIsFiles

\* With titles that SQL folds as links are normalized, a link finds a title's name.
LEMMA TitleNamed ==
  ASSUME Forms \subseteq {Plain, Upper}, NEW t \in Titles, NEW l
  PROVE  /\ SqlKey(t) = Raw(l) <=> t.name = l.raw
         /\ LinkKey(t) = Raw(l) <=> t.name = l.raw
<1>1. t.form = Plain \/ t.form = Upper
  BY DEF Titles
<1>2. Plain # Upper /\ Plain # Accented /\ Plain # Wide
  BY DEF Plain, Upper, Accented, Wide
<1> QED  BY <1>1, <1>2 DEF SqlKey, LinkKey, Fold, Raw

\* A rebuilt link points to a document of the name, if there is another.
LEMMA RebuiltFinds ==
  ASSUME Forms \subseteq {Plain, Upper}, Rows, NEW order, NEW s \in Live(mem),
         NEW l \in mem[s].body.links
  PROVE  \/ Rebuilt(order, mem, s, l) \in Titled(l.raw) \ {s}
         \/ Rebuilt(order, mem, s, l) = Dangling /\ Titled(l.raw) \subseteq {s}
<1> DEFINE found == {i \in Live(mem) \ {s} : SqlKey(mem[i].body.title) = Raw(l)}
           healers == FirstAfter(order, mem, s, l)
<1>1. \A i \in Live(mem) : mem[i].body.title \in Titles
  BY DEF Rows, Bodies
<1>2. found = Titled(l.raw) \ {s}
  BY <1>1, TitleNamed DEF Titled
<1>3. healers \subseteq Titled(l.raw) \ {s}
  BY <1>1, TitleNamed DEF Titled, FirstAfter, Matching
<1>4. Resolve(mem, s, l) = IF found = {} THEN Dangling ELSE CHOOSE i \in found : TRUE
  BY DEF Resolve
<1>5. Rebuilt(order, mem, s, l) =
        IF Resolve(mem, s, l) # Dangling \/ healers = {} THEN Resolve(mem, s, l)
        ELSE CHOOSE i \in healers : TRUE
  BY DEF Rebuilt
<1>6. CASE found = {}
  <2>1. healers = {}
    BY <1>2, <1>3, <1>6
  <2> QED  BY <1>2, <1>4, <1>5, <1>6, <2>1
<1>7. CASE found # {}
  <2>1. (CHOOSE i \in found : TRUE) \in found
    BY <1>7
  <2>2. Dangling \notin found
    BY IdsAssumption DEF Live
  <2>3. Resolve(mem, s, l) \in found /\ Resolve(mem, s, l) # Dangling
    BY <1>4, <1>7, <2>1, <2>2
  <2> HIDE DEF found, healers
  <2> QED  BY <1>2, <1>5, <2>3
<1> QED  BY <1>6, <1>7

LEMMA ServeInv ==
  ASSUME Forms \subseteq {Plain, Upper}, DocsInv, RebuildDocEdges
  PROVE  DocsInv'
<1>1. /\ boot = "write" /\ boot' = "served" /\ nth \notin DOMAIN docs /\ Unwanted = {}
      /\ mem' = mem /\ docs' = docs
  BY DEF RebuildDocEdges
<1>2. PICK order \in [Ids -> 1..Cardinality(Ids)] :
        edges' = [s \in Ids |-> [l \in Links |->
                   IF s \in Live(mem) THEN Rebuilt(order, mem, s, l) ELSE NoEdge]]
  BY DEF RebuildDocEdges
<1>3. Rows /\ HalfWay /\ docs \in Releases
  BY <1>1 DEF DocsInv
<1>4. DocsDone = FileBodies(docs)
  <2>1. DOMAIN docs = 1..Len(docs) /\ Len(docs) \in Nat /\ nth \in 1..(Len(docs) + 1)
    BY <1>3, ReleaseIs DEF HalfWay
  <2>2. nth - 1 = Len(docs)
    BY <1>1, <2>1
  <2> QED  BY <2>1, <2>2 DEF DocsDone, FileBodies
<1>5. ASSUME NEW i \in Live(mem) PROVE mem[i].body \in DocsDone
  <2>1. CASE \E m \in byTitle : m.id = i
    <3>1. PICK m \in byTitle : m.id = i
      BY <2>1
    <3>2. PICK b \in FileBodies(docs) : b.title = m.body.title
      BY <1>1, <3>1 DEF Unwanted
    <3> QED  BY <1>3, <1>4, <3>1, <3>2 DEF HalfWay, Listed
  <2> QED  BY <1>3, <2>1 DEF HalfWay
<1>6. {mem[i].body : i \in Live(mem)} = FileBodies(docs)
  BY <1>3, <1>4, <1>5 DEF HalfWay
<1>7. \A i, j \in Live(mem) : mem[i].body = mem[j].body => i = j
  BY <1>3 DEF Rows
<1>8. ASSUME NEW s \in Live(mem), NEW l \in mem[s].body.links
      PROVE  \/ edges'[s][l] \in Titled(l.raw) \ {s}
             \/ edges'[s][l] = Dangling /\ Titled(l.raw) \subseteq {s}
  <2>1. s \in Ids /\ l \in Links
    <3>1. mem[s].body \in Bodies
      BY <1>3 DEF Rows
    <3> QED  BY <3>1, ContentsAssumption DEF Live, Bodies
  <2>2. edges'[s][l] = Rebuilt(order, mem, s, l)
    BY <1>2, <2>1
  <2>3. \/ Rebuilt(order, mem, s, l) \in Titled(l.raw) \ {s}
        \/ Rebuilt(order, mem, s, l) = Dangling /\ Titled(l.raw) \subseteq {s}
    BY <1>3, RebuiltFinds, Zenon
  <2> QED  BY <2>2, <2>3, Zenon
<1>9. ServedIsFiles'
  BY <1>1, <1>6, <1>7, <1>8 DEF ServedIsFiles, Titled
<1> QED  BY <1>1, <1>3, <1>9 DEF DocsInv, Rows

LEMMA StepDocs ==
  ASSUME Forms \subseteq {Plain, Upper}, DocsInv, [SyncNext]_<<vars, sync>>
  PROVE  DocsInv'
<1>1. CASE Start \/ SyncFails \/ Stop
  <2>1. mem' = mem /\ boot' \notin {"write", "served"} /\ docs' \in Releases \cup {<<>>}
        /\ (boot' # "down" => docs' \in Releases)
    BY <1>1 DEF Start, SyncFails, Stop, vars, tables, DocsInv
  <2> QED  BY <2>1 DEF DocsInv, Rows, ServedIsFiles
<1>2. CASE UNCHANGED <<vars, sync>>
  <2>1. /\ mem' = mem /\ edges' = edges /\ boot' = boot /\ docs' = docs /\ byTitle' = byTitle
        /\ nth' = nth
    BY <1>2 DEF vars, tables, sync
  <2>2. Rows' <=> Rows
    BY <2>1 DEF Rows
  <2>3. HalfWay' <=> HalfWay
    BY <2>1 DEF HalfWay, Listed, DocsDone
  <2>4. ServedIsFiles' <=> ServedIsFiles
    BY <2>1 DEF ServedIsFiles, Titled
  <2> QED  BY <2>1, <2>2, <2>3, <2>4 DEF DocsInv
<1> QED  BY <1>1, <1>2, ListInv, SyncDocInv, RemoveInv, ServeInv DEF SyncNext

\* The documentation a server serves is its binary's, whatever earlier releases
\* and boots cut short have left: Sync's map of titles, written once, and its last
\* RebuildEdges, suffice for every list of documents, provided their titles have
\* no capitals outside ASCII and no double blanks.
THEOREM DocsAreTheBinarys ==
  ASSUME Forms \subseteq {Plain, Upper}
  PROVE  SyncSpec => []ServedIsFiles
<1>1. DocsInv /\ [SyncNext]_<<vars, sync>> => DocsInv'
  BY StepDocs
<1>2. DocsInv => ServedIsFiles
  BY DEF DocsInv
<1> QED  BY <1>1, <1>2, InitDocs, PTL DEF SyncSpec
=============================================================================
