-------------------------- MODULE LeaseReplication --------------------------
(***************************************************************************)
(* src/internal/db/replicate.go, for one replicated file (a tenant's       *)
(* memory file, its .files sibling, or the registry): every node that      *)
(* opens the file keeps a tenantState for it, whose goroutine takes and    *)
(* renews the file's write lease; a sweeper deactivates idle tenants.      *)
(* Files share nothing but the sweeper, so one is modelled.                *)
(*                                                                         *)
(* The lease object in the bucket is outside src/: it is modelled from its *)
(* use, as a conditional put.  Every call to it may fail, before or after  *)
(* it took effect.  A Lease a goroutine remembers is "current" while the   *)
(* object is still the one that put wrote, and "stale" from then on.       *)
(***************************************************************************)
EXTENDS Integers

CONSTANTS Nodes,    \* server processes
          States,   \* tenantState objects: pairs of a node and a number
          Nobody    \* no owner

Marks == {"none", "current", "stale"}

Node(s) == s[1]

ASSUME NodesAssumption  == Nobody \notin Nodes
ASSUME StatesAssumption == \A s \in States : Node(s) \in Nodes

VARIABLES
  holder,     \* the Owner written in the lease object, or Nobody
  expired,    \* its ExpiresAt has passed
  phase,      \* phase[s]: where the tenantState is in its life
  att,        \* att[s]: where its attemptLease is
  lease,      \* lease[s]: tenantState.lease
  got,        \* got[s]: the Lease the attempt's last call returned
  isPrimary,  \* isPrimary[s]
  late,       \* late[s]: (history) the lease s relies on has run out, and
              \* its next attempt has not put an end to that yet
  idle,       \* idle[s]: IdleTTL has passed since lastUsed
  opened,     \* opened[n]: the Manager keeps a handle of the file open
  doomed,     \* doomed[n]: the file is on the list sweep or Close works off
  closing     \* closing[n]: Close has stopped the sweeper

object == <<holder, expired>>
nodeVars == <<opened, doomed, closing>>
vars == <<object, phase, att, lease, got, isPrimary, late, idle, nodeVars>>

Phases   == {"free", "opening", "active", "leaving", "orphan"}
Attempts == {"off", "renew", "acquire", "record"}

\* The tenantState in the tenants map, if there is one.
Active(n)  == {s \in States : Node(s) = n /\ phase[s] = "active"}
Opening(n) == {s \in States : Node(s) = n /\ phase[s] = "opening"}

\* What RequirePrimary answers: nil, ErrNotPrimary, or the plain error.
RequirePrimary(n) ==
  IF Active(n) = {} THEN "not active"
  ELSE IF \E s \in Active(n) : isPrimary[s] THEN "nil" ELSE "not primary"

Init ==
  /\ holder = Nobody /\ expired = FALSE
  /\ phase = [s \in States |-> "free"]
  /\ att = [s \in States |-> "off"]
  /\ lease = [s \in States |-> "none"]
  /\ got = [s \in States |-> "none"]
  /\ isPrimary = [s \in States |-> FALSE]
  /\ late = [s \in States |-> FALSE]
  /\ idle = [s \in States |-> FALSE]
  /\ opened = [n \in Nodes |-> FALSE]
  /\ doomed = [n \in Nodes |-> FALSE]
  /\ closing = [n \in Nodes |-> FALSE]
-----------------------------------------------------------------------------
(* The lease object (external). *)

\* The Leases others remember no longer match the object.
Outdated(marks) ==
  [s \in States |-> IF marks[s] = "current" THEN "stale" ELSE marks[s]]

\* A put of a lease owned by s's node succeeds; its answer may be lost.
Put(s, answered) ==
  /\ holder' = Node(s) /\ expired' = FALSE
  /\ late' = [late EXCEPT ![s] = FALSE]
  /\ lease' = Outdated(lease)
  /\ got' = [Outdated(got) EXCEPT ![s] = IF answered THEN "current" ELSE "none"]

\* Is primary, or will be when the outcome of its attempt is recorded.
Claims(s) ==
  /\ phase[s] \in {"opening", "active"}
  /\ isPrimary[s] \/ (att[s] = "record" /\ got[s] # "none")

\* The TTL runs out.  That tells nobody: neither RequirePrimary nor an attempt
\* looks at ExpiresAt.
Expire ==
  /\ holder # Nobody /\ ~expired
  /\ expired' = TRUE
  /\ late' = [s \in States |-> late[s] \/ Claims(s)]
  /\ UNCHANGED <<holder, phase, att, lease, got, isPrimary, idle, nodeVars>>
-----------------------------------------------------------------------------
(* attemptLease *)

\* faulty variant: without a lease the loop gives up
StartAttempt_GiveUp(s) ==
  /\ phase[s] = "active" /\ att[s] = "off" /\ lease[s] # "none"
  /\ att' = [att EXCEPT ![s] = "renew"]
  /\ got' = [got EXCEPT ![s] = "none"]
  /\ UNCHANGED <<object, phase, lease, isPrimary, late, idle, nodeVars>>

\* Read ts.lease under ts.mu: renew it, or acquire one.
StartAttempt(s) ==
  /\ phase[s] = "active" /\ att[s] = "off"
  /\ att' = [att EXCEPT ![s] = IF lease[s] = "none" THEN "acquire" ELSE "renew"]
  /\ got' = [got EXCEPT ![s] = "none"]
  /\ UNCHANGED <<object, phase, lease, isPrimary, late, idle, nodeVars>>

\* faulty variant: the renewal puts unconditionally
CanRenew_Any(s) == TRUE

\* RenewLease is a put on condition that the object is the Lease's.
CanRenew(s) == lease[s] = "current"

\* RenewLease succeeds, or takes effect but its answer is lost: then the
\* code goes on to acquire.
Renew(s, answered) ==
  /\ att[s] = "renew" /\ CanRenew(s)
  /\ Put(s, answered)
  /\ att' = [att EXCEPT ![s] = IF answered THEN "record" ELSE "acquire"]
  /\ UNCHANGED <<phase, isPrimary, idle, nodeVars>>

RenewFails(s) ==
  /\ att[s] = "renew"
  /\ att' = [att EXCEPT ![s] = "acquire"]
  /\ UNCHANGED <<object, phase, lease, got, isPrimary, late, idle, nodeVars>>

\* AcquireLease: the put is on condition that there is no lease, or an
\* expired one.
Acquire(s, answered) ==
  /\ att[s] = "acquire" /\ (holder = Nobody \/ expired)
  /\ Put(s, answered)
  /\ att' = [att EXCEPT ![s] = "record"]
  /\ UNCHANGED <<phase, isPrimary, idle, nodeVars>>

\* LeaseExistsError, the owner being another node or an earlier self, or no
\* answer at all.
AcquireFails(s) ==
  /\ att[s] = "acquire"
  /\ att' = [att EXCEPT ![s] = "record"]
  /\ UNCHANGED <<object, phase, lease, got, isPrimary, late, idle, nodeVars>>

Note(s, primary) ==
  /\ isPrimary' = [isPrimary EXCEPT ![s] = primary]
  /\ lease' = [lease EXCEPT ![s] = got[s]]
  /\ late' = [late EXCEPT ![s] = @ /\ primary]

\* faulty variant: an attempt that fails leaves a primary as it was
Outcome_Keep(s) == Note(s, isPrimary[s] \/ got[s] # "none")

\* The outcome, noted under ts.mu (but for ownerHint, which no one here reads).
Outcome(s) == Note(s, got[s] # "none")

\* The first attempt is EnsureActive's own, later ones the lease loop's.
Record(s) ==
  /\ att[s] = "record" /\ phase[s] # "orphan"
  /\ Outcome(s)
  /\ att' = [att EXCEPT ![s] = "off"]
  /\ got' = [got EXCEPT ![s] = "none"]
  /\ UNCHANGED <<object, phase, idle, nodeVars>>

\* The attempt that outlived deactivate ends, and with it the goroutine: the
\* tenantState is garbage, with any Lease it got.
Vanish(s) ==
  /\ att[s] = "record" /\ phase[s] = "orphan"
  /\ phase' = [phase EXCEPT ![s] = "free"]
  /\ att' = [att EXCEPT ![s] = "off"]
  /\ lease' = [lease EXCEPT ![s] = "none"]
  /\ got' = [got EXCEPT ![s] = "none"]
  /\ UNCHANGED <<object, isPrimary, late, idle, nodeVars>>
-----------------------------------------------------------------------------
(* EnsureActive, called when the Manager opens the file and only then, under *)
(* the Instance's mutex: never twice at a time for one file of a node.       *)

\* Already active: only lastUsed changes.  The open itself may still fail.
EnsureActiveHit(n, opens) ==
  /\ ~opened[n] /\ Active(n) # {}
  /\ idle' = [s \in States |-> IF s \in Active(n) THEN FALSE ELSE idle[s]]
  /\ opened' = [opened EXCEPT ![n] = opens]
  /\ UNCHANGED <<object, phase, att, lease, got, isPrimary, late, doomed, closing>>

\* A new tenantState, whose first attempt runs before anyone can see it.
EnsureActiveMiss(s) ==
  /\ ~opened[Node(s)] /\ Active(Node(s)) = {} /\ Opening(Node(s)) = {}
  /\ phase[s] = "free"
  /\ phase' = [phase EXCEPT ![s] = "opening"]
  /\ att' = [att EXCEPT ![s] = "acquire"]
  /\ UNCHANGED <<object, lease, got, isPrimary, late, idle, nodeVars>>

\* Into the tenants map.
Insert(s, opens) ==
  /\ phase[s] = "opening" /\ att[s] = "off"
  /\ phase' = [phase EXCEPT ![s] = "active"]
  /\ opened' = [opened EXCEPT ![Node(s)] = opens]
  /\ UNCHANGED <<object, att, lease, got, isPrimary, late, idle, doomed, closing>>

\* The Manager closes the handle; requests find it open until then.
CloseHandle(n) ==
  /\ opened[n]
  /\ opened' = [opened EXCEPT ![n] = FALSE]
  /\ UNCHANGED <<object, phase, att, lease, got, isPrimary, late, idle, doomed, closing>>

\* IdleTTL passes without an EnsureActive, whether or not requests come in.
GoIdle(s) ==
  /\ phase[s] = "active" /\ ~idle[s]
  /\ idle' = [idle EXCEPT ![s] = TRUE]
  /\ UNCHANGED <<object, phase, att, lease, got, isPrimary, late, nodeVars>>
-----------------------------------------------------------------------------
(* sweep, deactivate and Close *)

\* sweep lists the idle tenants under r.mu.
Sweep(n) ==
  /\ ~doomed[n] /\ ~closing[n]
  /\ \E s \in Active(n) : idle[s]
  /\ doomed' = [doomed EXCEPT ![n] = TRUE]
  /\ UNCHANGED <<object, phase, att, lease, got, isPrimary, late, idle, opened, closing>>

\* Close waits for the sweeper to stop and lists every tenant.  Requests that
\* are still drained may go on opening files.
Close(n) ==
  /\ ~doomed[n] /\ ~closing[n]
  /\ closing' = [closing EXCEPT ![n] = TRUE]
  /\ doomed' = [doomed EXCEPT ![n] = Active(n) # {}]
  /\ UNCHANGED <<object, phase, att, lease, got, isPrimary, late, idle, opened>>

\* faulty variant: the lease is released before the map entry goes
Leave_Release(n) ==
  /\ doomed[n] /\ Active(n) # {}
  /\ \E s \in Active(n) :
       /\ holder' = IF lease[s] = "current" THEN Nobody ELSE holder
       /\ lease' = [lease EXCEPT ![s] = "none"]
       /\ UNCHANGED <<phase, doomed>>
  /\ UNCHANGED <<expired, att, got, isPrimary, late, idle, opened, closing>>

\* deactivate takes the entry off the map and cancels the lease loop: no
\* new attempt starts, but one may be under way.
Leave(n) ==
  /\ doomed[n]
  /\ phase' = [s \in States |-> IF s \in Active(n) THEN "leaving" ELSE phase[s]]
  /\ late' = [s \in States |-> late[s] /\ s \notin Active(n)]
  /\ doomed' = [doomed EXCEPT ![n] = FALSE]
  /\ UNCHANGED <<object, att, lease, got, isPrimary, idle, opened, closing>>

\* ReleaseLease deletes the object if it is still the Lease's (external).
\* The call may also fail: then the lease stays until it expires.  Without an
\* attempt under way the tenantState is garbage; nobody reads it in any case.
Release(s, answered) ==
  /\ phase[s] = "leaving"
  /\ IF lease[s] = "current" /\ answered
     THEN holder' = Nobody /\ expired' = FALSE
     ELSE UNCHANGED object
  /\ phase' = [phase EXCEPT ![s] = IF att[s] = "off" THEN "free" ELSE "orphan"]
  /\ lease' = [lease EXCEPT ![s] = IF att[s] = "off" THEN "none"
                                   ELSE IF @ = "current" /\ answered THEN "stale"
                                   ELSE @]
  /\ isPrimary' = [isPrimary EXCEPT ![s] = FALSE]
  /\ idle' = [idle EXCEPT ![s] = FALSE]
  /\ UNCHANGED <<att, got, late, nodeVars>>

\* The process ends, after Close or by a crash, and may be started again.
Exit(n) ==
  LET Of(f, v) == [s \in States |-> IF Node(s) = n THEN v ELSE f[s]] IN
  /\ phase' = Of(phase, "free") /\ att' = Of(att, "off")
  /\ lease' = Of(lease, "none") /\ got' = Of(got, "none")
  /\ isPrimary' = Of(isPrimary, FALSE)
  /\ late' = Of(late, FALSE)
  /\ idle' = Of(idle, FALSE)
  /\ opened' = [opened EXCEPT ![n] = FALSE]
  /\ doomed' = [doomed EXCEPT ![n] = FALSE]
  /\ closing' = [closing EXCEPT ![n] = FALSE]
  /\ UNCHANGED object
-----------------------------------------------------------------------------
Attempt(s) ==
  \/ StartAttempt(s) \/ RenewFails(s) \/ AcquireFails(s)
  \/ Record(s)
  \/ \E answered \in BOOLEAN : Renew(s, answered) \/ Acquire(s, answered)

Lifecycle(s) ==
  \/ EnsureActiveMiss(s) \/ GoIdle(s) \/ Vanish(s)
  \/ \E opens \in BOOLEAN : Insert(s, opens)
  \/ \E answered \in BOOLEAN : Release(s, answered)

OfNode(n) ==
  \/ CloseHandle(n) \/ Sweep(n) \/ Leave(n) \/ Close(n) \/ Exit(n)
  \/ \E opens \in BOOLEAN : EnsureActiveHit(n, opens)

Next ==
  \/ Expire
  \/ \E s \in States : Attempt(s) \/ Lifecycle(s)
  \/ \E n \in Nodes : OfNode(n)

Spec == Init /\ [][Next]_vars

\* The clock runs, started attempts end, the ticker goes on ticking, and a
\* call that can succeed is not lost for ever.
Fairness ==
  /\ WF_vars(Expire)
  /\ \A s \in States :
       /\ WF_vars(StartAttempt(s)) /\ WF_vars(RenewFails(s))
       /\ WF_vars(AcquireFails(s)) /\ WF_vars(Record(s))
       /\ WF_vars(\E opens \in BOOLEAN : Insert(s, opens))
       /\ SF_vars(Acquire(s, TRUE))

FairSpec == Spec /\ Fairness
-----------------------------------------------------------------------------
(* Properties *)

\* Types of the variables.
TypeOK ==
  /\ holder \in Nodes \cup {Nobody} /\ expired \in BOOLEAN
  /\ phase \in [States -> Phases] /\ att \in [States -> Attempts]
  /\ lease \in [States -> Marks] /\ got \in [States -> Marks]
  /\ isPrimary \in [States -> BOOLEAN] /\ late \in [States -> BOOLEAN]
  /\ idle \in [States -> BOOLEAN]
  /\ opened \in [Nodes -> BOOLEAN] /\ doomed \in [Nodes -> BOOLEAN]
  /\ closing \in [Nodes -> BOOLEAN]

OnTime(s) == phase[s] = "active" /\ isPrimary[s] /\ ~late[s]

\* Two nodes that may both write are one whose lease runs and others that hung
\* or were paused past the end of theirs, and have not finished an attempt since:
\* whatever answers are lost, leases forgotten by a crash, and tenants deactivated
\* in the middle of a renewal, RequirePrimary lets no more than one write that
\* is on time.
AtMostOnePrimary ==
  \A s, r \in States : OnTime(s) /\ OnTime(r) => Node(s) = Node(r)

\* A node does not write past its lease for ever, though no call may ever be
\* answered again: the next attempt renews the lease or makes the node refuse.
LateStepsDown == \A s \in States : late[s] ~> ~late[s]

\* A node that serves requests and has the file open never gets the plain
\* error: its tenant is active, as RequirePrimary demands of its callers.
OpenFileIsActive ==
  \A n \in Nodes : opened[n] /\ ~closing[n] => RequirePrimary(n) # "not active"

\* leaseRenewalLoop never gives up: in a period without crashes and sweeps
\* (those are half an hour apart) a file that a node keeps active has a primary
\* again and again, whoever left with the lease and whatever answers were lost.
LeaseReclaimed ==
  <>[][\A n \in Nodes : ~Exit(n) /\ ~Leave(n)]_vars =>
    \A s \in States : <>[](phase[s] = "active")
                        => []<>(\E n \in Nodes : RequirePrimary(n) = "nil")

\* The nodes whose lease runs implement the abstract single writer.
Writer ==
  IF \E s \in States : OnTime(s) THEN Node(CHOOSE s \in States : OnTime(s)) ELSE Nobody

Single == INSTANCE SingleWriter WITH writer <- Writer
WriterSpec == Single!Spec
=============================================================================
