------------------------------ MODULE Membership ------------------------------
(***************************************************************************)
(* Teams: the member management of src/internal/engine/engine.go over two  *)
(* databases with no transaction between them, the members table of each   *)
(* team's tenant file (src/internal/db/members.go, the authority) and the  *)
(* teams, team_members and team_invites tables of the registry             *)
(* (src/internal/db/registry.go).  A call is a sequence of reads, checks   *)
(* and writes, each atomic in its database; calls interleave between them, *)
(* reads may fail, and calls may be cut short after any step.              *)
(*                                                                         *)
(* Write leases are LeaseReplication's; scope grants, the team's name, and *)
(* deleted accounts are left out, and an identity stands for its e-mail.   *)
(***************************************************************************)
EXTENDS Naturals, FiniteSets

CONSTANTS Ids,         \* people, each with at most one account
          Teams,       \* team ids
          Clients,     \* calls that may be under way at once
          Tokens,      \* invite tokens (bound: invites ever sent)
          NoToken,     \* of a call that accepts no invite
          GrantRoles,  \* roles the calls ask for
          SeatLimits,  \* seat limits SetTeamPlan sets
          MaxOwned     \* maxOwnedTeams

Roles   == {"owner", "admin", "editor", "viewer"}
Pending == [team : Teams, email : Ids, role : Roles, byOwner : BOOLEAN]
Unsent  == [never |-> TRUE]
Gone    == [never |-> FALSE]  \* accepted or expired

ASSUME RolesAssumption == GrantRoles \subseteq Roles
ASSUME SeatsAssumption == SeatLimits \subseteq Nat
ASSUME OwnedAssumption == MaxOwned \in Nat \ {0}
ASSUME IdsAssumption   == IsFiniteSet(Ids) /\ IsFiniteSet(Teams)
ASSUME ClientsAssumption == IsFiniteSet(Clients)

VARIABLES
  status,    \* status[t]: the team's registry row.  The id of a new one is
             \* random and has not been given to anybody yet
  creator,   \* creator[t]: created_by, a set of at most one identity
  seats,     \* seats[t]: seat_limit
  index,     \* index[t]: the identities team_members lists for t
  invite,    \* invite[k]: the pending invite, Unsent, or Gone
  accounts,  \* the identities the registry resolves
  roster,    \* roster[t][i]: i's role in the tenant file, or "none"
  call,      \* call[c]: the call under way, or Free
  marks      \* marks[t]: (history) what ever happened between t's calls

registry == <<status, creator, seats, index, invite, accounts>>
vars == <<registry, roster, call, marks>>

Members(t) == {i \in Ids : roster[t][i] # "none"}
Owners(t)  == {i \in Ids : roster[t][i] = "owner"}

Marks == {"unguarded",  \* an Owner lost his role to a call that had not counted
                        \* the Owners: it read another role, or could not read
                        \* his, or accepts an invite
          "together",   \* two calls had counted the Owners and not yet written
          "parted",     \* a call ended between its two databases, or a row was
                        \* written while another call was between them with it
          "unseated"}   \* a full team took a member, as its row was not found

Ops == {"set", "remove", "invite", "delete", "accept", "create"}
Pcs == {"target", "owners", "seats", "put", "remove", "index", "unindex",
        "store", "delete", "forget"}

\* byOwner: the caller, or who sent the invite, was an Owner when let in.
\* sawOwner: the target's role, as far as the call could read it, is Owner.
CallRecord == [op : Ops, team : Teams, target : Ids, role : Roles,
               byOwner : BOOLEAN, sawOwner : BOOLEAN,
               token : Tokens \cup {NoToken}, pc : Pcs]
Free == [op |-> "free"]

Busy(c)   == call[c] # Free
At(c, pc) == Busy(c) /\ call[c].pc = pc
Present(t) == status[t] \in {"new", "live"}   \* deleted_at IS NULL

\* The row of a person in a team is written, and the list not yet.
Between(c, t, i) ==
  Busy(c) /\ call[c].team = t /\ call[c].target = i /\ call[c].pc \in {"index", "unindex"}

\* What EffectiveMember makes of i: a file without members has a solo owner.
EffectiveRole(t, i) ==
  IF i \in Members(t) THEN roster[t][i]
  ELSE IF Members(t) = {} THEN "owner" ELSE "none"

CanManageMembers(role) == role \in {"owner", "admin"}

InitTeams ==
  /\ status = [t \in Teams |-> "unused"]
  /\ creator = [t \in Teams |-> {}]
  /\ seats = [t \in Teams |-> 1]
  /\ index = [t \in Teams |-> {}]
  /\ invite = [k \in Tokens |-> Unsent]
  /\ roster = [t \in Teams |-> [i \in Ids |-> "none"]]
  /\ call = [c \in Clients |-> Free]
  /\ marks = [t \in Teams |-> {}]

Init == InitTeams /\ accounts = {}
-----------------------------------------------------------------------------
(* The start of a call: who is calling, in which team, with what role. *)

Start(c, k) ==
  /\ call[c] = Free
  /\ call' = [call EXCEPT ![c] = k]

\* resolveTenant and memberOf let i act in t with this role.
Resolves(i, t, role) ==
  i \in accounts /\ status[t] = "live" /\ role = EffectiveRole(t, i)

\* A call on target by a manager of the team.
Manage(c, op, i, t, target, role, pc) ==
  \E r \in Roles :
    /\ Start(c, [op |-> op, team |-> t, target |-> target, role |-> role,
                 byOwner |-> r = "owner", sawOwner |-> FALSE, token |-> NoToken, pc |-> pc])
    /\ Resolves(i, t, r) /\ CanManageMembers(r)
    /\ UNCHANGED <<registry, roster, marks>>

SetMember(c) ==
  \E i, x \in Ids, t \in Teams, role \in GrantRoles :
    Manage(c, "set", i, t, x, role, "target")

RemoveMember(c) ==
  \E i, x \in Ids, t \in Teams : Manage(c, "remove", i, t, x, "viewer", "target")

\* Only an Owner invites an Owner; the address must have no account yet.
InviteMember(c) ==
  \E i, x \in Ids, t \in Teams, role \in GrantRoles :
    /\ x \notin accounts
    /\ Manage(c, "invite", i, t, x, role, "seats")
    /\ role = "owner" => EffectiveRole(t, i) = "owner"

DeleteTeam(c) ==
  \E i \in Ids, t \in Teams :
    /\ Manage(c, "delete", i, t, i, "owner", "delete")
    /\ EffectiveRole(t, i) = "owner"

AcceptInvite(c) ==
  \E i \in accounts, k \in Tokens :
    /\ invite[k] \notin {Unsent, Gone} /\ invite[k].email = i
    /\ status[invite[k].team] = "live"
    /\ Start(c, [op |-> "accept", team |-> invite[k].team, target |-> i,
                 role |-> invite[k].role, byOwner |-> invite[k].byOwner,
                 sawOwner |-> FALSE, token |-> k, pc |-> "target"])
    /\ UNCHANGED <<registry, roster, marks>>

OwnedTeams(i) == {t \in Teams : Present(t) /\ creator[t] = {i}}

\* One INSERT ... WHERE COUNT(*) < maxOwned; then the Owner is seeded.
CreateTeam(c) ==
  \E i \in accounts, t \in Teams :
    /\ status[t] = "unused" /\ Cardinality(OwnedTeams(i)) < MaxOwned
    /\ status' = [status EXCEPT ![t] = "new"]
    /\ creator' = [creator EXCEPT ![t] = {i}]
    /\ Start(c, [op |-> "create", team |-> t, target |-> i, role |-> "owner",
                 byOwner |-> TRUE, sawOwner |-> FALSE, token |-> NoToken, pc |-> "put"])
    /\ UNCHANGED <<seats, index, invite, accounts, roster, marks>>
-----------------------------------------------------------------------------
(* The steps of a call. *)

Goto(c, pc) == call' = [call EXCEPT ![c].pc = pc]
Return(c)   == call' = [call EXCEPT ![c] = Free]
Mark(t, events) == marks' = [marks EXCEPT ![t] = @ \cup events]

\* faulty variant: an Admin may grant what an Owner may, if he alters no Owner
MayAlter_Grant(k, had) == k.byOwner \/ had # "owner"

\* Only an Owner may create, alter or remove Owners.
MayAlter(k, had) ==
  k.byOwner \/ (had # "owner" /\ (k.op = "set" => k.role # "owner"))

\* Where a call goes that has read the target's row.
AfterTarget(k, had) ==
  CASE k.op = "remove" -> IF had = "owner" THEN "owners" ELSE "remove"
    [] k.op = "set" /\ had = "owner" /\ k.role # "owner" -> "owners"
    [] OTHER -> IF had = "none" THEN "seats" ELSE "put"

\* Read the target's row; refuse a missing target and what only Owners may do.
\* SetMember and AcceptInvite ignore a read that fails: nobody is there.
ReadTarget(c) ==
  LET k == call[c]
      row == roster[k.team][k.target] IN
  /\ At(c, "target")
  /\ \E had \in {row} \cup (IF k.op = "remove" THEN {} ELSE {"none"}) :
       LET refused == \/ k.op = "set" /\ k.target \notin accounts
                      \/ k.op = "remove" /\ had = "none"
                      \/ k.op # "accept" /\ ~MayAlter(k, had)
       IN  IF refused THEN Return(c)
           ELSE call' = [call EXCEPT ![c].sawOwner = had = "owner", ![c].pc = AfterTarget(k, had)]
  /\ UNCHANGED <<registry, roster, marks>>

\* c is past guardLastOwner and is about to take an Owner's role.
Demoting(c) ==
  /\ Busy(c) /\ call[c].op \in {"set", "remove"} /\ call[c].sawOwner
  /\ call[c].pc = "remove" \/ (call[c].pc = "put" /\ call[c].role # "owner")

Guard(c, least) ==
  LET k == call[c] IN
  /\ At(c, "owners")
  /\ \/ Cardinality(Owners(k.team)) < least /\ Return(c) /\ UNCHANGED marks
     \/ /\ Cardinality(Owners(k.team)) >= least
        /\ Goto(c, IF k.op = "remove" THEN "remove" ELSE "put")
        /\ Mark(k.team, IF \E d \in Clients : Demoting(d) /\ call[d].team = k.team
                        THEN {"together"} ELSE {})
  /\ UNCHANGED <<registry, roster>>

\* faulty variant: the team may be left without an Owner
GuardLastOwner_Zero(c) == Guard(c, 1)
GuardLastOwner(c)      == Guard(c, 2)

\* A team the registry does not resolve passes, be it gone or the read failed.
Seat(c, limit) ==
  LET k == call[c]
      full == Present(k.team) /\ Cardinality(Members(k.team)) >= limit IN
  /\ At(c, "seats")
  /\ \/ full /\ Return(c) /\ UNCHANGED marks
     \/ /\ Goto(c, IF k.op = "invite" THEN "store" ELSE "put")
        /\ Mark(k.team, IF full /\ k.op # "invite" THEN {"unseated"} ELSE {})
  /\ UNCHANGED <<registry, roster>>

\* faulty variant: the roster may reach one more than the limit
CheckSeatLimit_Full(c) == Busy(c) /\ Seat(c, seats[call[c].team] + 1)
CheckSeatLimit(c)      == Busy(c) /\ Seat(c, seats[call[c].team])

\* What c's write of the target's row as role gives cause to remember.
Events(c, role) ==
  LET k == call[c] IN
  (IF roster[k.team][k.target] = "owner" /\ role # "owner" /\ ~Demoting(c)
   THEN {"unguarded"} ELSE {})
    \cup (IF \E d \in Clients : Between(d, k.team, k.target) THEN {"parted"} ELSE {})

\* The row is inserted, or its role replaced.
PutMember(c) ==
  LET k == call[c] IN
  /\ At(c, "put")
  /\ roster' = [roster EXCEPT ![k.team][k.target] = k.role]
  /\ Mark(k.team, Events(c, k.role))
  /\ Goto(c, "index")
  /\ UNCHANGED registry

\* The row is deleted; a row that is already gone is an error.
RemoveRow(c) ==
  LET k == call[c] IN
  /\ At(c, "remove")
  /\ IF k.target \in Members(k.team)
     THEN Goto(c, "unindex") /\ Mark(k.team, Events(c, "none"))
     ELSE Return(c) /\ UNCHANGED marks
  /\ roster' = [roster EXCEPT ![k.team][k.target] = "none"]
  /\ UNCHANGED registry

\* CreateTeam's own returns the new team's id.
IndexTeamMember(c) ==
  LET k == call[c] IN
  /\ At(c, "index")
  /\ index' = [index EXCEPT ![k.team] = @ \cup {k.target}]
  /\ status' = [status EXCEPT ![k.team] = IF @ = "new" THEN "live" ELSE @]
  /\ IF k.op = "accept" THEN Goto(c, "forget") ELSE Return(c)
  /\ UNCHANGED <<creator, seats, invite, accounts, roster, marks>>

\* faulty variant: the list is left as it is
UnindexTeamMember_Not(c) ==
  /\ At(c, "unindex")
  /\ Return(c)
  /\ UNCHANGED <<registry, roster, marks>>

UnindexTeamMember(c) ==
  LET k == call[c] IN
  /\ At(c, "unindex")
  /\ index' = [index EXCEPT ![k.team] = @ \ {k.target}]
  /\ Return(c)
  /\ UNCHANGED <<status, creator, seats, invite, accounts, roster, marks>>

\* InviteMember looks the team up once more and stores the invite.
StoreInvite(c) ==
  LET k == call[c] IN
  /\ At(c, "store")
  /\ IF status[k.team] = "live"
     THEN \E tok \in Tokens :
            /\ invite[tok] = Unsent
            /\ invite' = [invite EXCEPT ![tok] =
                            [team |-> k.team, email |-> k.target, role |-> k.role,
                             byOwner |-> k.byOwner]]
     ELSE UNCHANGED invite
  /\ Return(c)
  /\ UNCHANGED <<status, creator, seats, index, accounts, roster, marks>>

DeleteInvite(c) ==
  LET k == call[c] IN
  /\ At(c, "forget")
  /\ invite' = [invite EXCEPT ![k.token] = Gone]
  /\ Return(c)
  /\ UNCHANGED <<status, creator, seats, index, accounts, roster, marks>>

\* SoftDeleteTeam's transaction; a deleted team is an error.
SoftDelete(t) ==
  /\ status' = [status EXCEPT ![t] = IF Present(t) THEN "deleted" ELSE @]
  /\ index' = IF Present(t) THEN [index EXCEPT ![t] = {}] ELSE index
  /\ UNCHANGED <<creator, seats, invite, accounts, roster>>

SoftDeleteTeam(c) ==
  At(c, "delete") /\ SoftDelete(call[c].team) /\ Return(c) /\ UNCHANGED marks

\* The call ends early: a database fails, the handler panics, the process dies.
Abandon(c) ==
  LET k == call[c] IN
  /\ Busy(c) /\ Return(c)
  /\ Mark(k.team, IF k.pc \in {"index", "unindex"} THEN {"parted"} ELSE {})
  /\ UNCHANGED <<registry, roster>>
-----------------------------------------------------------------------------
(* What else happens in the registry. *)

SignUp(i) ==
  /\ i \notin accounts
  /\ accounts' = accounts \cup {i}
  /\ UNCHANGED <<status, creator, seats, index, invite, roster, call, marks>>

InviteExpires(k) ==
  /\ invite[k] \notin {Unsent, Gone}
  /\ invite' = [invite EXCEPT ![k] = Gone]
  /\ UNCHANGED <<status, creator, seats, index, accounts, roster, call, marks>>

AdminDeleteTeam(t) ==
  Present(t) /\ SoftDelete(t) /\ UNCHANGED <<call, marks>>

SetTeamPlan(t, n) ==
  /\ Present(t)
  /\ seats' = [seats EXCEPT ![t] = n]
  /\ UNCHANGED <<status, creator, index, invite, accounts, roster, call, marks>>

CallStep(c) ==
  \/ SetMember(c) \/ RemoveMember(c) \/ InviteMember(c) \/ DeleteTeam(c)
  \/ AcceptInvite(c) \/ CreateTeam(c)
  \/ ReadTarget(c) \/ GuardLastOwner(c) \/ CheckSeatLimit(c)
  \/ PutMember(c) \/ RemoveRow(c) \/ IndexTeamMember(c) \/ UnindexTeamMember(c)
  \/ StoreInvite(c) \/ DeleteInvite(c) \/ SoftDeleteTeam(c) \/ Abandon(c)

Next ==
  \/ \E c \in Clients : CallStep(c)
  \/ \E i \in Ids : SignUp(i)
  \/ \E k \in Tokens : InviteExpires(k)
  \/ \E t \in Teams : AdminDeleteTeam(t)
  \/ \E t \in Teams, n \in SeatLimits : SetTeamPlan(t, n)

Spec == Init /\ [][Next]_vars
-----------------------------------------------------------------------------
(* Properties. *)

\* The tables hold what the code stores in them, and a call has its fields.
TypeOK ==
  /\ status \in [Teams -> {"unused", "new", "live", "deleted"}]
  /\ creator \in [Teams -> SUBSET Ids]
  /\ seats \in [Teams -> Nat]
  /\ index \in [Teams -> SUBSET Ids]
  /\ invite \in [Tokens -> {Unsent, Gone} \cup Pending]
  /\ accounts \in SUBSET Ids
  /\ roster \in [Teams -> [Ids -> Roles \cup {"none"}]]
  /\ call \in [Clients -> {Free} \cup CallRecord]
  /\ marks \in [Teams -> SUBSET Marks]

\* However calls overlap, fail or are cut short, a team on somebody's list has an
\* Owner (members.go, "A tenant always has at least one Owner"), but for two ways
\* to lose the last one: two calls past guardLastOwner together, or a call that
\* was never at it -- an invite its bearer accepts who is an Owner by then, or a
\* row read before its owner was promoted, or not read at all.
OwnerKept ==
  \A t \in Teams :
    index[t] # {} /\ marks[t] \cap {"together", "unguarded"} = {} => Owners(t) # {}

\* What guardLastOwner is to block, of teams that lost no Owner past it and to
\* which nothing else has happened.
AlwaysOwner ==
  \A t \in Teams : index[t] # {} /\ marks[t] \subseteq {"together"} => Owners(t) # {}

\* The registry lists somebody for a live team when he is on the roster in its
\* file and only then, save while a call is between the two with him; and save
\* after one was cut short there, or two crossed on one person (SetMember: not
\* "out of sync").  Calls on different people never part the two.
ListedAreMembers ==
  \A t \in Teams, i \in Ids :
    status[t] = "live" /\ "parted" \notin marks[t] /\ ~(\E c \in Clients : Between(c, t, i))
      => (i \in index[t] <=> i \in Members(t))

\* Whatever calls overlap, a team passes the largest seat limit it may have had by
\* fewer members than calls run at once: each of them adds one at most between
\* checkSeatLimit, or the read of a row since removed, and the insert.  Only when
\* the team's row is not found is there no bound.
SeatsOvershootBounded ==
  \A t \in Teams : Present(t) /\ "unseated" \notin marks[t] =>
    \E n \in SeatLimits \cup {1} : Cardinality(Members(t)) < n + Cardinality(Clients)

\* An Admin never makes an Owner, by whatever calls and invites, overlapping or
\* failing as they may: each is made by a call or an invite of an Owner, or is
\* the creator.  And an Owner loses the role by a call of an Owner, by an invite
\* of his own that he accepts, or to one who did not see him an Owner
\* (SetMember: "only an Owner may grant or modify the Owner role").
OwnersByOwners ==
  [][\A t \in Teams, c \in Clients :
       Busy(c) /\ call[c].team = t /\ call'[c] # call[c] =>
         /\ Owners(t)' \subseteq Owners(t) \/ call[c].byOwner
         /\ \/ Owners(t) \subseteq Owners(t)' \/ call[c].byOwner
            \/ call[c].op = "accept" \/ ~call[c].sawOwner]_vars
=============================================================================
