---------------------------- MODULE MCMembership ----------------------------
(* Instances for the runs of Membership: calls that alter the roles of three   *)
(* people; invites between two, and the end of the team; or four people for    *)
(* the seats, one of them the Owner.                                           *)
EXTENDS Membership, TLC

CONSTANTS a, b, c, d   \* people

VARIABLE focus

\* Calls are interchangeable, and three of the people.
Symmetry == Permutations({a, b, c}) \cup Permutations(Clients)

\* People have signed up, but for those that are invited.
MCInit ==
  /\ focus \in {"roles", "invites", "seats"}
  /\ accounts = IF focus = "roles" THEN {a, b, c} ELSE IF focus = "seats" THEN Ids ELSE {}
  /\ InitTeams

Asks(x, op)  == Busy(x) /\ call[x].op = op
TeamsStay    == \A t \in Teams : (status[t] # "deleted")'
NobodyInvites == ~(\E x \in Clients : Asks(x, "invite") \/ Asks(x, "delete"))

\* Each part leaves out what the others look into, and goes on after one event.
MCNext ==
  /\ Next /\ UNCHANGED focus
  /\ \A t \in Teams : Cardinality(marks[t])' <= 1
  /\ focus # "seats" => d \notin accounts' /\ \A x \in Clients : Busy(x)' => (call[x].target # d)'
  /\ CASE focus = "roles" -> TeamsStay /\ NobodyInvites' /\ UNCHANGED accounts
       [] focus = "seats" -> /\ TeamsStay /\ NobodyInvites'
                             /\ \A x \in Clients : Asks(x, "set")' => call'[x].role = "admin"
       [] focus = "invites" ->
            /\ Cardinality(accounts') <= 2
            /\ Cardinality({x \in Clients : Busy(x) /\ ~Asks(x, "accept")})' <= 1

MCSpec == MCInit /\ [][MCNext]_<<vars, focus>>

\* Everything together.
OwnerSpec == Init /\ focus = "roles" /\ [][Next /\ UNCHANGED focus]_<<vars, focus>>
=============================================================================
