------------------------------ MODULE Forwarding ------------------------------
(***************************************************************************)
(* A write sent to a node that may not be the tenant's primary             *)
(* (src/internal/api/forward.go over the write-lease gates of              *)
(* src/internal/engine/engine.go): the node forwards it once to whom its   *)
(* hint names, and passes the answer on.  The lease moves meanwhile, nodes *)
(* crash, and requests and answers are lost.                               *)
(*                                                                         *)
(* The request is one HTTP request of a client; what it writes is one      *)
(* transaction.  The lease is what LeaseReplication shows of it: one       *)
(* primary at a time, a name in the lease file that may outlive it.        *)
(***************************************************************************)
EXTENDS Naturals, Sequences

CONSTANTS Nodes,
          Addressed,  \* those whose lease owner string is a URL
          NoNode,     \* no primary, no lease, no hint
          Requests

VARIABLES
  primary,  \* the node whose isPrimary is set
  owner,    \* the owner the lease file names
  hint,     \* hint[n]: ownerHint, what not_primary errors of n carry
  legs,     \* legs[r]: the handlers of r, one per node it has reached
  applied,  \* applied[r]: (history) how often r was written
  lost      \* lost[r]: (history) the answer to a forward was not waited for

forward == <<primary, owner, hint, legs, applied, lost>>

Finished == {"ok", "not_primary", "failed", "gone"}
Leg == [node : Nodes, to : Nodes \cup {NoNode},
        pc : {"gate", "write", "relay", "waiting"} \cup Finished]

\* The legs of the request that are under way at pc.
LegAt(r, l, pc) == l \in DOMAIN legs[r] /\ legs[r][l].pc = pc
Goto1(r, l, pc) == legs' = [legs EXCEPT ![r][l].pc = pc]
Arrive(n)       == [node |-> n, to |-> NoNode, pc |-> "gate"]

ForwardInit ==
  /\ primary = NoNode /\ owner = NoNode
  /\ hint = [n \in Nodes |-> NoNode]
  /\ legs = [r \in Requests |-> <<>>]
  /\ applied = [r \in Requests |-> 0]
  /\ lost = [r \in Requests |-> FALSE]
-----------------------------------------------------------------------------
(* The lease. *)

Lease == <<primary, owner, hint>>

\* attemptLease, with its three outcomes.
AcquireLease(n) ==
  /\ primary = NoNode /\ owner = NoNode
  /\ primary' = n /\ owner' = n
  /\ hint' = [hint EXCEPT ![n] = NoNode]

\* The lease exists: the node may be told its own name, of an earlier life.
LeaseExists(n) ==
  /\ primary # n /\ owner # NoNode
  /\ hint' = [hint EXCEPT ![n] = owner]
  /\ UNCHANGED <<primary, owner>>

\* It is released, its renewal fails, or it runs out.
LoseLease ==
  \/ primary' = NoNode /\ owner' = NoNode /\ UNCHANGED hint
  \/ primary' = NoNode /\ UNCHANGED <<owner, hint>>

LeaseMoves ==
  /\ LoseLease \/ \E n \in Nodes : AcquireLease(n) \/ LeaseExists(n)
  /\ UNCHANGED <<legs, applied, lost>>
-----------------------------------------------------------------------------
(* The request. *)

Send(r) ==
  /\ legs[r] = <<>>
  /\ \E n \in Nodes : legs' = [legs EXCEPT ![r] = <<Arrive(n)>>]
  /\ UNCHANGED <<Lease, applied, lost>>

\* ownerFromContext: a hint that is no URL is nothing to forward to.
OwnerFromContext(n) == IF hint[n] \in Addressed THEN hint[n] ELSE NoNode

\* RequirePrimary, behind resolveTenant, requireTenantPrimary, filesStore and
\* requireRegistryPrimary; then respondErr.  Only a first leg, one without the
\* header X-Rekam-Forwarded, is forwarded.
RequirePrimary(r, l) ==
  LET n == legs[r][l].node
      to == OwnerFromContext(n)
  IN  /\ LegAt(r, l, "gate")
      /\ IF primary = n THEN Goto1(r, l, "write")
         ELSE IF l = 1 /\ to # NoNode
         THEN legs' = [legs EXCEPT ![r][l].pc = "relay", ![r][l].to = to]
         ELSE Goto1(r, l, "not_primary")
      /\ UNCHANGED <<Lease, applied, lost>>

\* Refused for another reason: the file is not active, no permission, no room.
Refuse(r, l) ==
  /\ LegAt(r, l, "gate")
  /\ Goto1(r, l, "failed")
  /\ UNCHANGED <<Lease, applied, lost>>

\* The write, whoever is primary by now.
Apply(r, l) ==
  /\ LegAt(r, l, "write")
  /\ \/ Goto1(r, l, "ok") /\ applied' = [applied EXCEPT ![r] = @ + 1]
     \/ Goto1(r, l, "failed") /\ UNCHANGED applied
  /\ UNCHANGED <<Lease, lost>>

\* client.Do: the owner is reached, or is not.
ForwardToOwner(r, l) ==
  /\ LegAt(r, l, "relay")
  /\ \/ legs' = [legs EXCEPT ![r] =
                   Append([@ EXCEPT ![l].pc = "waiting"], Arrive(legs[r][l].to))]
     \/ Goto1(r, l, "not_primary")
  /\ UNCHANGED <<Lease, applied, lost>>

\* The owner's answer is passed on as it is.
Respond(r, l) ==
  LET last == legs[r][Len(legs[r])].pc IN
  /\ LegAt(r, l, "waiting")
  /\ last \in Finished \ {"gone"}
  /\ Goto1(r, l, last)
  /\ UNCHANGED <<Lease, applied, lost>>

\* faulty variants: the forward is sent again; it is waited for without limit
ForwardFails_Again(r, l) ==
  /\ LegAt(r, l, "waiting") /\ Len(legs[r]) < 3
  /\ Goto1(r, l, "relay")
  /\ lost' = [lost EXCEPT ![r] = TRUE]
  /\ UNCHANGED <<Lease, applied>>
ForwardFails_Never(r, l) ==
  /\ LegAt(r, l, "waiting") /\ l > Len(legs[r])
  /\ Goto1(r, l, "not_primary")
  /\ lost' = [lost EXCEPT ![r] = TRUE]
  /\ UNCHANGED <<Lease, applied>>

\* client.Do fails after the request has left: the answer is lost, or ten
\* seconds are over.  The handler at the owner does not notice.
ForwardFails(r, l) ==
  /\ LegAt(r, l, "waiting")
  /\ Goto1(r, l, "not_primary")
  /\ lost' = [lost EXCEPT ![r] = TRUE]
  /\ UNCHANGED <<Lease, applied>>

\* A node goes down with the handlers on it; what was written stays.
Crash(n) ==
  /\ legs' = [r \in Requests |-> [l \in DOMAIN legs[r] |->
                IF legs[r][l].node = n /\ legs[r][l].pc \notin Finished
                THEN [legs[r][l] EXCEPT !.pc = "gone"] ELSE legs[r][l]]]
  /\ primary' = IF primary = n THEN NoNode ELSE primary
  /\ hint' = [hint EXCEPT ![n] = NoNode]
  /\ UNCHANGED <<owner, applied, lost>>

Handle(r, l) ==
  \/ RequirePrimary(r, l) \/ Refuse(r, l) \/ Apply(r, l) \/ ForwardToOwner(r, l)
  \/ Respond(r, l) \/ ForwardFails(r, l)

Legs == 1..3

ForwardNext ==
  \/ LeaseMoves
  \/ \E r \in Requests : Send(r) \/ \E l \in Legs : Handle(r, l)
  \/ \E n \in Nodes : Crash(n)

\* A handler goes on while its node is up; a forward ends, by its time limit at
\* the latest.  Nothing is assumed of the owner, the network or the lease.
ForwardFairness ==
  \A r \in Requests : WF_forward(Handle(r, 1))

ForwardSpec == ForwardInit /\ [][ForwardNext]_forward /\ ForwardFairness
-----------------------------------------------------------------------------
(* Properties. *)

ForwardTypeOK ==
  /\ primary \in Nodes \cup {NoNode} /\ owner \in Nodes \cup {NoNode}
  /\ hint \in [Nodes -> Nodes \cup {NoNode}]
  /\ \A r \in Requests : Len(legs[r]) <= 2 /\ \A l \in DOMAIN legs[r] : legs[r][l] \in Leg
  /\ applied \in [Requests -> Nat]
  /\ lost \in [Requests -> BOOLEAN]

Answer(r) == IF legs[r] = <<>> THEN "none" ELSE legs[r][1].pc

\* What the client is told is so, however the lease moves, nodes crash and hints
\* mislead: a success was written exactly once, a refusal not at all, unless
\* the answer to a forward got lost (forward.go:49-53, "a client talking to any
\* node gets a normal response rather than having to retry elsewhere itself").
AnswersTellTheTruth ==
  \A r \in Requests :
    /\ applied[r] <= 1
    /\ Answer(r) = "ok" => applied[r] = 1
    /\ Answer(r) \in {"not_primary", "failed"} /\ applied[r] = 1 => lost[r]

\* A request is answered, or its node is gone, in spite of hints that lead in a
\* circle and of owners that never answer (forward.go:16-21 and 169-171).
EveryRequestIsAnswered ==
  \A r \in Requests : legs[r] # <<>> ~> Answer(r) \in Finished
=============================================================================
