----------------------- MODULE LeaseReplicationProofs -----------------------
(***************************************************************************)
(* LeaseReplication for any set of nodes and tenantStates: its types, that *)
(* RequirePrimary lets one node write at a time but for those past the end *)
(* of their lease, and that the nodes that are not implement SingleWriter. *)
(*                                                                         *)
(* The argument: a tenantState that is, or is about to be, primary claims  *)
(* the lease.  Until the lease runs out under it, its node is the object's *)
(* owner, and nobody else remembers a Lease that still matches: so no      *)
(* other put and no deletion can succeed before the claim is given up.     *)
(***************************************************************************)
EXTENDS LeaseReplication, TLAPS

InMap(s) == phase[s] \in {"opening", "active"}

\* Claims a lease that has not run out since.
Holds(s) == Claims(s) /\ ~late[s]

\* An EnsureActive or a map entry per node: there is never a second.
OnePerNode ==
  \A s, r \in States : InMap(s) /\ InMap(r) /\ Node(s) = Node(r) => s = r

\* tenantStates that are not in use have nothing to say, attempts that have
\* not got their answer no Lease.
Unused ==
  \A s \in States :
    /\ phase[s] = "free" => att[s] = "off"
    /\ att[s] # "record" => got[s] = "none"
    /\ phase[s] \in {"free", "orphan"} => ~isPrimary[s]

\* A claim is backed by the lease, which nobody else can renew or release.
Backed(s) ==
  /\ holder = Node(s) /\ ~expired
  /\ att[s] = "record" /\ got[s] # "none" => got[s] = "current"
  /\ \A x \in States : x # s => lease[x] # "current" /\ got[x] # "current"

ClaimsBacked == \A s \in States : Holds(s) => Backed(s)

IInv == TypeOK /\ OnePerNode /\ Unused /\ ClaimsBacked

USE StatesAssumption, NodesAssumption

\* What a put leaves of the Leases others remember.
LEMMA PutMarks ==
  ASSUME TypeOK, NEW s \in States, NEW answered \in BOOLEAN, Put(s, answered)
  PROVE  /\ lease' \in [States -> {"none", "stale"}]
         /\ got' \in [States -> Marks]
         /\ \A x \in States : x # s => got'[x] \in {"none", "stale"}
         /\ got'[s] = IF answered THEN "current" ELSE "none"
         /\ \A x \in States : x # s => (got'[x] = "none" <=> got[x] = "none")
         /\ late' \in [States -> BOOLEAN] /\ ~late'[s]
         /\ \A x \in States : x # s => late'[x] = late[x]
  BY DEF TypeOK, Put, Outdated, Marks

-----------------------------------------------------------------------------
(* Type correctness needs no invariant. *)

LEMMA InitTypes == Init => TypeOK
<1> SUFFICES ASSUME Init PROVE TypeOK
  OBVIOUS
<1>1. holder \in Nodes \cup {Nobody} /\ expired \in BOOLEAN
  BY DEF Init
<1>2. /\ phase \in [States -> Phases] /\ att \in [States -> Attempts]
      /\ lease \in [States -> Marks] /\ got \in [States -> Marks]
  BY DEF Init, Phases, Attempts, Marks
<1>3. isPrimary \in [States -> BOOLEAN] /\ late \in [States -> BOOLEAN]
      /\ idle \in [States -> BOOLEAN]
  BY DEF Init
<1>4. /\ opened \in [Nodes -> BOOLEAN] /\ doomed \in [Nodes -> BOOLEAN]
      /\ closing \in [Nodes -> BOOLEAN]
  BY DEF Init
<1> QED  BY <1>1, <1>2, <1>3, <1>4 DEF TypeOK

LEMMA AttemptTypes ==
  ASSUME TypeOK, NEW s \in States, Attempt(s)
  PROVE  TypeOK'
<1>1. CASE StartAttempt(s)
  BY <1>1 DEF StartAttempt, TypeOK, object, nodeVars, Attempts, Marks
<1>2. CASE RenewFails(s)
  BY <1>2 DEF RenewFails, TypeOK, object, nodeVars, Attempts
<1>3. CASE AcquireFails(s)
  BY <1>3 DEF AcquireFails, TypeOK, object, nodeVars, Attempts
<1>4. CASE Record(s)
  BY <1>4 DEF Record, Outcome, Note, TypeOK, object, nodeVars, Attempts, Marks
<1>5. ASSUME NEW answered \in BOOLEAN, Renew(s, answered)
      PROVE  TypeOK'
  <2>1. Put(s, answered)  BY <1>5 DEF Renew
  <2>2. holder' \in Nodes /\ expired' \in BOOLEAN  BY <2>1 DEF Put
  <2>3. lease' \in [States -> Marks] /\ got' \in [States -> Marks]
    BY <2>1, PutMarks DEF Marks
  <2>5. late' \in [States -> BOOLEAN]  BY <2>1, PutMarks
  <2>4. att' \in [States -> Attempts]  BY <1>5 DEF Renew, TypeOK, Attempts
  <2> QED  BY <1>5, <2>2, <2>3, <2>4, <2>5 DEF Renew, TypeOK, nodeVars
<1>6. ASSUME NEW answered \in BOOLEAN, Acquire(s, answered)
      PROVE  TypeOK'
  <2>1. Put(s, answered)  BY <1>6 DEF Acquire
  <2>2. holder' \in Nodes /\ expired' \in BOOLEAN  BY <2>1 DEF Put
  <2>3. lease' \in [States -> Marks] /\ got' \in [States -> Marks]
    BY <2>1, PutMarks DEF Marks
  <2>5. late' \in [States -> BOOLEAN]  BY <2>1, PutMarks
  <2>4. att' \in [States -> Attempts]  BY <1>6 DEF Acquire, TypeOK, Attempts
  <2> QED  BY <1>6, <2>2, <2>3, <2>4, <2>5 DEF Acquire, TypeOK, nodeVars
<1> QED  BY <1>1, <1>2, <1>3, <1>4, <1>5, <1>6 DEF Attempt

LEMMA LifecycleTypes ==
  ASSUME TypeOK, NEW s \in States, Lifecycle(s)
  PROVE  TypeOK'
<1>1. CASE EnsureActiveMiss(s)
  BY <1>1 DEF EnsureActiveMiss, TypeOK, object, nodeVars, Phases, Attempts
<1>2. CASE GoIdle(s)
  BY <1>2 DEF GoIdle, TypeOK, object, nodeVars
<1>3. CASE Vanish(s)
  BY <1>3 DEF Vanish, TypeOK, object, nodeVars, Phases, Attempts, Marks
<1>4. ASSUME NEW opens \in BOOLEAN, Insert(s, opens)
      PROVE  TypeOK'
  BY <1>4 DEF Insert, TypeOK, object, Phases
<1>5. ASSUME NEW answered \in BOOLEAN, Release(s, answered)
      PROVE  TypeOK'
  <2>1. holder' \in Nodes \cup {Nobody} /\ expired' \in BOOLEAN
    BY <1>5 DEF Release, TypeOK, object
  <2> QED  BY <1>5, <2>1 DEF Release, TypeOK, nodeVars, Phases, Marks
<1> QED  BY <1>1, <1>2, <1>3, <1>4, <1>5 DEF Lifecycle

LEMMA NodeTypes ==
  ASSUME TypeOK, NEW n \in Nodes, OfNode(n)
  PROVE  TypeOK'
<1>1. CASE CloseHandle(n)
  BY <1>1 DEF CloseHandle, TypeOK, object
<1>2. CASE Sweep(n)
  BY <1>2 DEF Sweep, TypeOK, object
<1>3. CASE Leave(n)
  BY <1>3 DEF Leave, TypeOK, object, Phases
<1>4. CASE Close(n)
  BY <1>4 DEF Close, TypeOK, object
<1>5. CASE Exit(n)
  BY <1>5 DEF Exit, TypeOK, object, Phases, Attempts, Marks
<1>6. ASSUME NEW opens \in BOOLEAN, EnsureActiveHit(n, opens)
      PROVE  TypeOK'
  BY <1>6 DEF EnsureActiveHit, TypeOK, object
<1> QED  BY <1>1, <1>2, <1>3, <1>4, <1>5, <1>6 DEF OfNode

LEMMA StepTypes == TypeOK /\ [Next]_vars => TypeOK'
<1> SUFFICES ASSUME TypeOK, [Next]_vars PROVE TypeOK'
  OBVIOUS
<1>1. CASE Expire
  BY <1>1 DEF Expire, TypeOK, nodeVars
<1>2. CASE UNCHANGED vars
  BY <1>2 DEF vars, object, nodeVars, TypeOK
<1> QED  BY <1>1, <1>2, AttemptTypes, LifecycleTypes, NodeTypes DEF Next

\* The variables keep their types, whatever fails or comes late.
THEOREM TypeCorrect == Spec => []TypeOK
  BY InitTypes, StepTypes, PTL DEF Spec

-----------------------------------------------------------------------------
(* The inductive invariant. *)

LEMMA InitInv == Init => IInv
<1> SUFFICES ASSUME Init PROVE IInv
  OBVIOUS
<1>1. TypeOK  BY InitTypes
<1>2. \A s \in States : ~InMap(s) /\ ~Holds(s)
  BY DEF Init, InMap, Holds, Claims
<1>3. Unused  BY DEF Init, Unused
<1> QED  BY <1>1, <1>2, <1>3 DEF IInv, OnePerNode, ClaimsBacked

\* Putting a lease keeps the claims backed: nobody else has one by then.
LEMMA PutKeeps ==
  ASSUME IInv, NEW s \in States, NEW answered \in BOOLEAN, Put(s, answered),
         NEW at \in {"record", "acquire"}, answered => at = "record",
         att' = [att EXCEPT ![s] = at], UNCHANGED <<phase, isPrimary>>,
         \A x \in States : Holds(x) => x = s
  PROVE  ClaimsBacked'
<1>0. TypeOK  BY DEF IInv
<1> SUFFICES ASSUME NEW x \in States, Holds(x)' PROVE Backed(x)'
  BY DEF ClaimsBacked
<1>1. x = s
  <2> SUFFICES ASSUME x # s PROVE Holds(x)
    OBVIOUS
  <2>1. att'[x] = att[x]  BY <1>0 DEF TypeOK
  <2>2. got'[x] = "none" <=> got[x] = "none"  BY <1>0, PutMarks
  <2>3. late'[x] = late[x]  BY <1>0, PutMarks
  <2> QED  BY <2>1, <2>2, <2>3 DEF Holds, Claims
<1>2. holder' = Node(x) /\ ~expired'  BY <1>1 DEF Put
<1>3. got'[x] # "none" => got'[x] = "current"  BY <1>0, <1>1, PutMarks
<1>4. \A y \in States : y # x => lease'[y] # "current" /\ got'[y] # "current"
  BY <1>0, <1>1, PutMarks
<1> QED  BY <1>2, <1>3, <1>4 DEF Backed

LEMMA AttemptKeeps ==
  ASSUME IInv, NEW s \in States, Attempt(s)
  PROVE  (OnePerNode /\ Unused /\ ClaimsBacked)'
<1>0. TypeOK /\ OnePerNode /\ Unused /\ ClaimsBacked  BY DEF IInv
<1>1. phase' = phase
  BY DEF Attempt, StartAttempt, RenewFails, AcquireFails, Record, Renew, Acquire
<1>2. OnePerNode'
  BY <1>0, <1>1 DEF OnePerNode, InMap
<1>3. att[s] # "off" \/ phase[s] = "active"
  BY DEF Attempt, StartAttempt, RenewFails, AcquireFails, Record, Renew, Acquire
<1>4. phase[s] # "free"  BY <1>0, <1>3 DEF Unused
<1>5. Unused'
  <2>1. \A x \in States : x # s => att'[x] = att[x] /\ isPrimary'[x] = isPrimary[x]
    BY <1>0 DEF Attempt, StartAttempt, RenewFails, AcquireFails, Record, Outcome, Note,
                Renew, Acquire, TypeOK
  <2>2. phase[s] = "orphan" => isPrimary' = isPrimary
    BY <1>0, <1>3 DEF Attempt, StartAttempt, RenewFails, AcquireFails, Record,
                      Renew, Acquire
  <2>3. \A x \in States : att'[x] # "record" => got'[x] = "none"
    <3>1. CASE StartAttempt(s)  BY <1>0, <3>1 DEF StartAttempt, TypeOK, Unused
    <3>2. CASE RenewFails(s)  BY <1>0, <3>2 DEF RenewFails, TypeOK, Unused
    <3>3. CASE AcquireFails(s)  BY <1>0, <3>3 DEF AcquireFails, TypeOK, Unused
    <3>4. CASE Record(s)  BY <1>0, <3>4 DEF Record, TypeOK, Unused
    <3>5. ASSUME NEW answered \in BOOLEAN, Renew(s, answered) \/ Acquire(s, answered)
          PROVE  \A x \in States : att'[x] # "record" => got'[x] = "none"
      <4>1. Put(s, answered)  BY <3>5 DEF Renew, Acquire
      <4>2. answered => att'[s] = "record"  BY <1>0, <3>5 DEF Renew, Acquire, TypeOK
      <4>3. \A x \in States : x # s => att'[x] = att[x]
        BY <1>0, <3>5 DEF Renew, Acquire, TypeOK
      <4> QED  BY <1>0, <4>1, <4>2, <4>3, PutMarks DEF Unused
    <3> QED  BY <3>1, <3>2, <3>3, <3>4, <3>5 DEF Attempt
  <2> QED  BY <1>0, <1>1, <1>4, <2>1, <2>2, <2>3 DEF Unused
<1>6. ClaimsBacked'
  <2>1. CASE StartAttempt(s)
    <3> SUFFICES ASSUME NEW x \in States, Holds(x)' PROVE Backed(x)'
      BY DEF ClaimsBacked
    <3>1. Holds(x) /\ (att'[x] = "record" => att[x] = "record" /\ x # s)
      BY <1>0, <2>1 DEF StartAttempt, Holds, Claims, InMap, TypeOK
    <3>2. Backed(x)  BY <1>0, <3>1 DEF ClaimsBacked
    <3> QED  BY <1>0, <2>1, <3>1, <3>2 DEF StartAttempt, Backed, TypeOK, object
  <2>2. CASE RenewFails(s)
    <3> SUFFICES ASSUME NEW x \in States, Holds(x)' PROVE Backed(x)'
      BY DEF ClaimsBacked
    <3>1. Holds(x) /\ (att'[x] = "record" => att[x] = "record")
      BY <1>0, <2>2 DEF RenewFails, Holds, Claims, InMap, TypeOK
    <3>2. Backed(x)  BY <1>0, <3>1 DEF ClaimsBacked
    <3> QED  BY <2>2, <3>1, <3>2 DEF RenewFails, Backed, object
  <2>3. CASE AcquireFails(s)
    <3> SUFFICES ASSUME NEW x \in States, Holds(x)' PROVE Backed(x)'
      BY DEF ClaimsBacked
    <3>1. att[s] = "acquire" /\ got[s] = "none"
      BY <1>0, <2>3 DEF AcquireFails, Unused
    <3>2. Holds(x) /\ (att'[x] = "record" => att[x] = "record" \/ x = s)
      BY <1>0, <2>3, <3>1 DEF AcquireFails, Holds, Claims, InMap, TypeOK
    <3>3. Backed(x)  BY <1>0, <3>2 DEF ClaimsBacked
    <3> QED  BY <2>3, <3>1, <3>2, <3>3 DEF AcquireFails, Backed, object
  <2>4. CASE Record(s)
    <3> SUFFICES ASSUME NEW x \in States, Holds(x)' PROVE Backed(x)'
      BY DEF ClaimsBacked
    <3>1. Holds(x)
      BY <1>0, <2>4 DEF Record, Outcome, Note, Holds, Claims, InMap, TypeOK
    <3>2. Backed(x)  BY <1>0, <3>1 DEF ClaimsBacked
    <3>3. holder' = holder /\ expired' = expired  BY <2>4 DEF Record, object
    <3>4. att'[x] = "record" => x # s  BY <1>0, <2>4 DEF Record, TypeOK
    <3>5. x # s => att'[x] = att[x] /\ got'[x] = got[x]
      BY <1>0, <2>4 DEF Record, TypeOK
    <3>6. \A y \in States : y # x => lease'[y] # "current" /\ got'[y] # "current"
      BY <1>0, <2>4, <3>2 DEF Record, Outcome, Note, Backed, TypeOK
    <3> QED  BY <3>2, <3>3, <3>4, <3>5, <3>6 DEF Backed
  <2>5. ASSUME NEW answered \in BOOLEAN, Renew(s, answered)
        PROVE  ClaimsBacked'
    <3>1. \A x \in States : Holds(x) => x = s
      BY <1>0, <2>5 DEF Renew, CanRenew, ClaimsBacked, Backed
    <3>2. PICK at \in {"record", "acquire"} :
            (answered => at = "record") /\ att' = [att EXCEPT ![s] = at]
      BY <2>5 DEF Renew
    <3> QED  BY <2>5, <3>1, <3>2, PutKeeps DEF Renew
  <2>6. ASSUME NEW answered \in BOOLEAN, Acquire(s, answered)
        PROVE  ClaimsBacked'
    <3>1. \A x \in States : Holds(x) => x = s
      BY <1>0, <2>6 DEF Acquire, ClaimsBacked, Backed
    <3> QED  BY <2>6, <3>1, PutKeeps DEF Acquire
  <2> QED  BY <2>1, <2>2, <2>3, <2>4, <2>5, <2>6 DEF Attempt
<1> QED  BY <1>2, <1>5, <1>6

LEMMA LifecycleKeeps ==
  ASSUME IInv, NEW s \in States, Lifecycle(s)
  PROVE  (OnePerNode /\ Unused /\ ClaimsBacked)'
<1>0. TypeOK /\ OnePerNode /\ Unused /\ ClaimsBacked  BY DEF IInv
<1>1. CASE EnsureActiveMiss(s)
  <2>1. \A x \in States : Node(x) = Node(s) => ~InMap(x)
    BY <1>1 DEF EnsureActiveMiss, Active, Opening, InMap
  <2>2. \A x \in States : x # s => phase'[x] = phase[x] /\ att'[x] = att[x]
    BY <1>0, <1>1 DEF EnsureActiveMiss, TypeOK
  <2>3. att'[s] = "acquire" /\ phase'[s] = "opening" /\ ~isPrimary[s] /\ got[s] = "none"
    BY <1>0, <1>1 DEF EnsureActiveMiss, TypeOK, Unused
  <2>4. UNCHANGED <<object, lease, got, isPrimary, late>>  BY <1>1 DEF EnsureActiveMiss
  <2>5. OnePerNode'  BY <1>0, <2>1, <2>2 DEF OnePerNode, InMap
  <2>6. Unused'  BY <1>0, <2>2, <2>3, <2>4 DEF Unused
  <2>7. ClaimsBacked'
    <3> SUFFICES ASSUME NEW x \in States, Holds(x)' PROVE Backed(x)'
      BY DEF ClaimsBacked
    <3>1. x # s  BY <2>3, <2>4 DEF Holds, Claims
    <3>2. Backed(x)  BY <1>0, <2>2, <2>4, <3>1 DEF ClaimsBacked, Holds, Claims, InMap
    <3> QED  BY <2>2, <2>4, <3>1, <3>2 DEF Backed, object
  <2> QED  BY <2>5, <2>6, <2>7
<1>2. CASE GoIdle(s)
  <2>1. UNCHANGED <<object, phase, att, lease, got, isPrimary, late>>  BY <1>2 DEF GoIdle
  <2> QED  BY <1>0, <2>1 DEF OnePerNode, Unused, ClaimsBacked, Holds, Claims, InMap, Backed, object
<1>3. CASE Vanish(s)
  <2>1. \A x \in States : x # s => /\ phase'[x] = phase[x] /\ att'[x] = att[x]
                                   /\ lease'[x] = lease[x] /\ got'[x] = got[x]
    BY <1>0, <1>3 DEF Vanish, TypeOK
  <2>2. /\ phase'[s] = "free" /\ att'[s] = "off" /\ lease'[s] = "none"
        /\ got'[s] = "none" /\ ~isPrimary[s]
    BY <1>0, <1>3 DEF Vanish, TypeOK, Unused
  <2>3. UNCHANGED <<object, isPrimary, late>>  BY <1>3 DEF Vanish
  <2>4. OnePerNode'  BY <1>0, <2>1, <2>2 DEF OnePerNode, InMap
  <2>5. Unused'  BY <1>0, <2>1, <2>2, <2>3 DEF Unused
  <2>6. ClaimsBacked'
    <3> SUFFICES ASSUME NEW x \in States, Holds(x)' PROVE Backed(x)'
      BY DEF ClaimsBacked
    <3>1. x # s  BY <2>2 DEF Holds, Claims, InMap
    <3>2. Backed(x)  BY <1>0, <2>1, <2>3, <3>1 DEF ClaimsBacked, Holds, Claims, InMap
    <3> QED  BY <2>1, <2>2, <2>3, <3>1, <3>2 DEF Backed, object
  <2> QED  BY <2>4, <2>5, <2>6
<1>4. ASSUME NEW opens \in BOOLEAN, Insert(s, opens)
      PROVE  (OnePerNode /\ Unused /\ ClaimsBacked)'
  <2>1. \A x \in States : x # s => phase'[x] = phase[x]
    BY <1>0, <1>4 DEF Insert, TypeOK
  <2>2. phase[s] = "opening" /\ phase'[s] = "active"
    BY <1>0, <1>4 DEF Insert, TypeOK
  <2>3. UNCHANGED <<object, att, lease, got, isPrimary, late>>  BY <1>4 DEF Insert
  <2>4. \A x \in States : InMap(x)' <=> InMap(x)
    BY <2>1, <2>2 DEF InMap
  <2>5. OnePerNode'  BY <1>0, <2>4 DEF OnePerNode
  <2>6. Unused'  BY <1>0, <2>1, <2>2, <2>3 DEF Unused
  <2>7. ClaimsBacked'
    BY <1>0, <2>3, <2>4 DEF ClaimsBacked, Holds, Claims, InMap, Backed, object
  <2> QED  BY <2>5, <2>6, <2>7
<1>5. ASSUME NEW answered \in BOOLEAN, Release(s, answered)
      PROVE  (OnePerNode /\ Unused /\ ClaimsBacked)'
  <2>1. \A x \in States : x # s => /\ phase'[x] = phase[x] /\ lease'[x] = lease[x]
                                   /\ isPrimary'[x] = isPrimary[x] /\ late'[x] = late[x]
    BY <1>0, <1>5 DEF Release, TypeOK
  <2>2. /\ phase'[s] = IF att[s] = "off" THEN "free" ELSE "orphan"
        /\ ~isPrimary'[s]
    BY <1>0, <1>5 DEF Release, TypeOK
  <2>3. UNCHANGED <<att, got, late>>  BY <1>5 DEF Release
  <2>4. OnePerNode'  BY <1>0, <2>1, <2>2 DEF OnePerNode, InMap
  <2>5. Unused'  BY <1>0, <2>1, <2>2, <2>3 DEF Unused
  <2>6. ClaimsBacked'
    <3> SUFFICES ASSUME NEW x \in States, Holds(x)' PROVE Backed(x)'
      BY DEF ClaimsBacked
    <3>1. x # s  BY <2>2 DEF Holds, Claims, InMap
    <3>2. Backed(x)  BY <1>0, <2>1, <2>3, <3>1 DEF ClaimsBacked, Holds, Claims, InMap
    <3>3. lease[s] # "current"  BY <3>1, <3>2 DEF Backed
    <3>4. UNCHANGED object /\ lease'[s] # "current"
      BY <1>0, <1>5, <3>3 DEF Release, TypeOK
    <3> QED  BY <2>1, <2>3, <3>2, <3>4 DEF Backed, object
  <2> QED  BY <2>4, <2>5, <2>6
<1> QED  BY <1>1, <1>2, <1>3, <1>4, <1>5 DEF Lifecycle

LEMMA NodeKeeps ==
  ASSUME IInv, NEW n \in Nodes, OfNode(n)
  PROVE  (OnePerNode /\ Unused /\ ClaimsBacked)'
<1>0. TypeOK /\ OnePerNode /\ Unused /\ ClaimsBacked  BY DEF IInv
<1>1. CASE Leave(n)
  <2>1. UNCHANGED <<object, att, lease, got, isPrimary>>  BY <1>1 DEF Leave
  <2>2. \A x \in States : phase'[x] = IF x \in Active(n) THEN "leaving" ELSE phase[x]
    BY <1>1 DEF Leave
  <2>3. \A x \in States : InMap(x)' => InMap(x)  BY <2>2 DEF InMap
  <2>4. OnePerNode'  BY <1>0, <2>3 DEF OnePerNode
  <2>5. Unused'  BY <1>0, <2>1, <2>2 DEF Unused
  <2>6. ClaimsBacked'
    <3>1. \A x \in States : InMap(x)' => late'[x] = late[x]
      BY <1>0, <1>1, <2>2 DEF Leave, InMap, TypeOK
    <3>2. \A x \in States : Holds(x)' => Holds(x)
      BY <2>1, <2>3, <3>1 DEF Holds, Claims, InMap
    <3> QED  BY <1>0, <2>1, <3>2 DEF ClaimsBacked, Backed, object
  <2> QED  BY <2>4, <2>5, <2>6
<1>2. CASE Exit(n)
  <2>1. UNCHANGED object  BY <1>2 DEF Exit
  <2>2. \A x \in States :
          Node(x) = n => /\ phase'[x] = "free" /\ att'[x] = "off" /\ lease'[x] = "none"
                         /\ got'[x] = "none" /\ ~isPrimary'[x]
    BY <1>2 DEF Exit
  <2>3. \A x \in States :
          Node(x) # n => /\ phase'[x] = phase[x] /\ att'[x] = att[x]
                         /\ lease'[x] = lease[x] /\ got'[x] = got[x]
                         /\ isPrimary'[x] = isPrimary[x] /\ late'[x] = late[x]
    BY <1>2 DEF Exit
  <2>4. OnePerNode'  BY <1>0, <2>2, <2>3 DEF OnePerNode, InMap
  <2>5. Unused'  BY <1>0, <2>2, <2>3 DEF Unused
  <2>6. ClaimsBacked'
    <3> SUFFICES ASSUME NEW x \in States, Holds(x)' PROVE Backed(x)'
      BY DEF ClaimsBacked
    <3>1. Node(x) # n  BY <2>2 DEF Holds, Claims, InMap
    <3>2. Backed(x)  BY <1>0, <2>3, <3>1 DEF ClaimsBacked, Holds, Claims, InMap
    <3> QED  BY <2>1, <2>2, <2>3, <3>1, <3>2 DEF Backed, object
  <2> QED  BY <2>4, <2>5, <2>6
<1>3. CASE ~(Leave(n) \/ Exit(n))
  <2>1. UNCHANGED <<object, phase, att, lease, got, isPrimary, late>>
    BY <1>3 DEF OfNode, CloseHandle, Sweep, Close, EnsureActiveHit
  <2> QED
    BY <1>0, <2>1 DEF OnePerNode, Unused, ClaimsBacked, Holds, Claims, InMap, Backed, object
<1> QED  BY <1>1, <1>2, <1>3

\* Whoever claims the lease that runs out is late.
LEMMA ExpireKeeps ==
  ASSUME IInv, Expire
  PROVE  (OnePerNode /\ Unused /\ ClaimsBacked)'
<1>0. TypeOK /\ OnePerNode /\ Unused  BY DEF IInv
<1>1. UNCHANGED <<phase, att, lease, got, isPrimary>>  BY DEF Expire
<1>2. \A s \in States : late'[s] <=> late[s] \/ Claims(s)
  BY <1>0 DEF Expire, TypeOK
<1>3. \A s \in States : ~Holds(s)'  BY <1>1, <1>2 DEF Holds, Claims
<1> QED  BY <1>0, <1>1, <1>3 DEF OnePerNode, InMap, Unused, ClaimsBacked

LEMMA StepInv == IInv /\ [Next]_vars => IInv'
<1> SUFFICES ASSUME IInv, [Next]_vars PROVE IInv'
  OBVIOUS
<1>1. TypeOK'  BY StepTypes DEF IInv
<1>2. (OnePerNode /\ Unused /\ ClaimsBacked)'
  <2>1. CASE UNCHANGED vars
    <3>1. UNCHANGED <<object, phase, att, lease, got, isPrimary, late>>
      BY <2>1 DEF vars, object
    <3> QED
      BY <3>1 DEF IInv, OnePerNode, Unused, ClaimsBacked, Holds, Claims, InMap, Backed, object
  <2> QED  BY <2>1, AttemptKeeps, LifecycleKeeps, NodeKeeps, ExpireKeeps DEF Next
<1> QED  BY <1>1, <1>2 DEF IInv

LEMMA OnTimeHolds ==
  ASSUME NEW s \in States, OnTime(s)
  PROVE  Holds(s)
BY DEF OnTime, Holds, Claims

LEMMA OnePrimary == IInv => AtMostOnePrimary
<1> SUFFICES ASSUME IInv, NEW s \in States, NEW r \in States, OnTime(s), OnTime(r)
             PROVE  Node(s) = Node(r)
  BY DEF AtMostOnePrimary
<1> QED  BY OnTimeHolds DEF IInv, ClaimsBacked, Backed

\* However many nodes there are, crash, hang, lose answers or sweep the tenant,
\* and whenever leases run out, all that RequirePrimary lets write but one are
\* past the end of their lease.
THEOREM LeaseIsExclusive == Spec => []AtMostOnePrimary
BY InitInv, StepInv, OnePrimary, PTL DEF Spec
-----------------------------------------------------------------------------
(* Refinement: the nodes that write on time, as a set, grow or shrink. *)

CanWrite == {n \in Nodes : \E s \in States : Node(s) = n /\ OnTime(s)}

WriterAsSet ==
  /\ CanWrite = {} => Writer = Nobody
  /\ \A n \in CanWrite : Writer = n

LEMMA WriterIsUnique == AtMostOnePrimary => WriterAsSet
<1> SUFFICES ASSUME AtMostOnePrimary PROVE WriterAsSet
  OBVIOUS
<1>1. ASSUME CanWrite = {} PROVE Writer = Nobody
  BY <1>1 DEF CanWrite, Writer
<1>2. ASSUME NEW n \in CanWrite PROVE Writer = n
  <2>1. PICK s \in States : Node(s) = n /\ OnTime(s)  BY DEF CanWrite
  <2> QED  BY <2>1 DEF Writer, AtMostOnePrimary
<1> QED  BY <1>1, <1>2 DEF WriterAsSet

LEMMA GrowsOrShrinks ==
  ASSUME IInv, [Next]_vars
  PROVE  CanWrite \subseteq CanWrite' \/ CanWrite' \subseteq CanWrite
<1>0. TypeOK  BY DEF IInv
<1>G. ASSUME \A s \in States : OnTime(s) => OnTime(s)' PROVE CanWrite \subseteq CanWrite'
  BY <1>G DEF CanWrite
<1>L. ASSUME \A s \in States : OnTime(s)' => OnTime(s) PROVE CanWrite' \subseteq CanWrite
  BY <1>L DEF CanWrite
<1>O. ASSUME NEW s \in States, \A x \in States : x # s => (OnTime(x)' <=> OnTime(x))
      PROVE  CanWrite \subseteq CanWrite' \/ CanWrite' \subseteq CanWrite
  BY <1>O, <1>G, <1>L
<1>1. CASE UNCHANGED <<phase, isPrimary, late>>
  BY <1>1, <1>G DEF OnTime
<1>2. ASSUME NEW s \in States, Attempt(s)
      PROVE  CanWrite \subseteq CanWrite' \/ CanWrite' \subseteq CanWrite
  <2>1. \A x \in States : x # s => (OnTime(x)' <=> OnTime(x))
    BY <1>0, <1>2 DEF Attempt, StartAttempt, RenewFails, AcquireFails, Record, Outcome,
                      Note, Renew, Acquire, Put, TypeOK, OnTime
  <2> QED  BY <1>O, <2>1
<1>3. ASSUME NEW s \in States, Lifecycle(s)
      PROVE  CanWrite \subseteq CanWrite' \/ CanWrite' \subseteq CanWrite
  <2>1. \A x \in States : x # s => (OnTime(x)' <=> OnTime(x))
    BY <1>0, <1>3 DEF Lifecycle, EnsureActiveMiss, GoIdle, Vanish, Insert, Release,
                      TypeOK, OnTime
  <2> QED  BY <1>O, <2>1
<1>4. ASSUME NEW n \in Nodes, OfNode(n)
      PROVE  CanWrite' \subseteq CanWrite
  <2>1. CASE Leave(n)
    <3>1. \A x \in States : OnTime(x)' => OnTime(x)
      BY <2>1 DEF Leave, OnTime
    <3> QED  BY <1>L, <3>1
  <2>2. CASE Exit(n)
    <3>1. \A x \in States : OnTime(x)' => OnTime(x)
      BY <2>2 DEF Exit, OnTime
    <3> QED  BY <1>L, <3>1
  <2>3. CASE ~(Leave(n) \/ Exit(n))
    <3>1. UNCHANGED <<phase, isPrimary, late>>
      BY <1>4, <2>3 DEF OfNode, CloseHandle, Sweep, Close, EnsureActiveHit
    <3> QED  BY <3>1, <1>L DEF OnTime
  <2> QED  BY <2>1, <2>2, <2>3
<1>5. CASE Expire
  <2>1. \A x \in States : OnTime(x)' => OnTime(x)
    BY <1>5 DEF Expire, OnTime
  <2> QED  BY <1>L, <2>1
<1>6. CASE UNCHANGED vars
  BY <1>1, <1>6 DEF vars
<1> QED  BY <1>2, <1>3, <1>4, <1>5, <1>6 DEF Next

LEMMA InitRefines == Init => Single!Init
BY DEF Init, Single!Init, Writer, OnTime

LEMMA StepRefines ==
  ASSUME IInv, IInv', [Next]_vars
  PROVE  [Single!Next]_Writer
<1>S. CanWrite \subseteq Nodes /\ CanWrite' \subseteq Nodes  BY DEF CanWrite
<1>1. WriterAsSet  BY WriterIsUnique, OnePrimary
<1>2. WriterAsSet'  BY WriterIsUnique, OnePrimary, PTL
<1>3. CASE CanWrite = {}
  BY <1>S, <1>1, <1>2, <1>3 DEF WriterAsSet, Single!Next, Single!Promote
<1>4. CASE CanWrite # {} /\ CanWrite' = {}
  <2>1. PICK n \in CanWrite : Writer = n  BY <1>1, <1>4 DEF WriterAsSet
  <2> QED  BY <1>S, <1>2, <1>4, <2>1 DEF WriterAsSet, Single!Next, Single!Demote
<1>5. CASE CanWrite # {} /\ CanWrite' # {}
  <2>1. PICK n \in CanWrite \cap CanWrite' : TRUE  BY <1>5, GrowsOrShrinks
  <2> QED  BY <1>1, <1>2, <2>1 DEF WriterAsSet
<1> QED  BY <1>3, <1>4, <1>5

\* The right to write on time is never handed over: the old writer is refused,
\* or its lease has run out, before the new one is let in.
THEOREM Implements == Spec => WriterSpec
BY InitInv, StepInv, InitRefines, StepRefines, PTL DEF Spec, WriterSpec, Single!Spec
=============================================================================
