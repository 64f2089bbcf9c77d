-------------------------- MODULE MembershipProofs --------------------------
(***************************************************************************)
(* Membership for any people, teams, calls and invites, however the calls  *)
(* overlap, fail or are cut short: its types; that a team on anybody's     *)
(* list keeps an Owner, but for the two events OwnerKept names; that only  *)
(* Owners make and take Owners; that the list of a team is who is in it,   *)
(* person by person, but for calls that meet on one; and how far calls get *)
(* past the seat limit together.                                           *)
(*                                                                         *)
(* The arguments.  A call past guardLastOwner has seen two Owners, so it   *)
(* leaves one, until another like it writes; and two at a time are marked. *)
(* What a call may do to Owners is settled once its target is read, and    *)
(* its record keeps that.  A row whose listing is due is not written again *)
(* unmarked.  A call takes a place in a team when it has counted a free    *)
(* seat or seen its target among the members, and no write makes places.   *)
(***************************************************************************)
EXTENDS Membership, FiniteSetTheorems, TLAPS

USE RolesAssumption, SeatsAssumption, IdsAssumption

OnTeam(c, t)  == Busy(c) /\ call[c].team = t
Another(t, i) == \E o \in Owners(t) : o # i
Unmarked(t)   == marks[t] \cap {"together", "unguarded"} = {}

\* Where a call can be, by what it does; and none that sees an Owner needs a seat.
ShapedCall(c) ==
  LET k == call[c] IN
  /\ At(c, "target") => k.op \in {"set", "remove", "accept"} /\ ~k.sawOwner
  /\ At(c, "owners") => k.op \in {"set", "remove"}
  /\ At(c, "seats") => k.op \in {"set", "accept", "invite"} /\ ~k.sawOwner
  /\ At(c, "remove") => k.op = "remove"
  /\ At(c, "put") => k.op \in {"set", "accept", "create"}
  /\ At(c, "store") => k.op = "invite"
  /\ At(c, "delete") => k.op \notin {"set", "remove"}
  /\ Busy(c) /\ k.op = "create" => k.pc \in {"put", "index"} /\ k.role = "owner" /\ k.byOwner

Shaped == \A c \in Clients : ShapedCall(c)

\* Registered at most: CreateTeam has not stored the Owner yet, or never will.
Unfounded(t) ==
  /\ status[t] # "live" /\ index[t] = {} /\ Members(t) = {}
  /\ \A c \in Clients : OnTeam(c, t) => call[c].op = "create" /\ At(c, "put")

\* One call past guardLastOwner, and an Owner besides the one it is about.
Guarded(t) ==
  \A c \in Clients : Demoting(c) /\ call[c].team = t =>
    /\ \A d \in Clients : Demoting(d) /\ call[d].team = t => c = d
    /\ roster[t][call[c].target] = "owner" => Another(t, call[c].target)

Kept(t) == Unmarked(t) => Guarded(t) /\ (Owners(t) # {} \/ Unfounded(t))

IInv == TypeOK /\ Shaped /\ \A t \in Teams : Kept(t)

\* Who may make and take Owners: the calls, and the invites sent.
AuthorizedCall(c) ==
  LET k == call[c] IN
  /\ Busy(c) /\ k.op \in {"accept", "invite", "create"} /\ k.role = "owner" => k.byOwner
  /\ Busy(c) /\ k.op \in {"set", "remove"} /\ k.sawOwner => k.byOwner
  /\ Busy(c) /\ k.op = "set" /\ k.role = "owner" /\ k.pc # "target" => k.byOwner

Authorized ==
  /\ \A c \in Clients : AuthorizedCall(c)
  /\ \A tok \in Tokens :
       invite[tok] \notin {Unsent, Gone} /\ invite[tok].role = "owner" => invite[tok].byOwner

\* The list is the roster, but for the rows whose listing is due.
InStep(t) ==
  status[t] # "deleted" /\ "parted" \notin marks[t] =>
    \A i \in Ids :
      /\ ~(\E c \in Clients : Between(c, t, i)) => (i \in index[t] <=> i \in Members(t))
      /\ \A c \in Clients : Between(c, t, i) => (i \in Members(t) <=> call[c].pc = "index")

\* The calls that have a place in t, or may count on one, and the places taken.
Adding(t) == {c \in Clients : OnTeam(c, t) /\ call[c].pc \in {"owners", "put"}}
Places(t) == Members(t) \cup {call[c].target : c \in Adding(t)}

Few(t) == \E n \in SeatLimits \cup {1} : Cardinality(Places(t)) < n + Cardinality(Clients)

Seated(t) ==
  /\ seats[t] \in SeatLimits \cup {1}
  /\ status[t] = "unused" => Members(t) = {} /\ \A c \in Clients : ~OnTeam(c, t)
  /\ Present(t) /\ "unseated" \notin marks[t] => Few(t)

AllSeated == \A t \in Teams : Seated(t)
-----------------------------------------------------------------------------
(* The call records. *)

Alike(k, l) ==
  /\ k.op = l.op /\ k.team = l.team /\ k.target = l.target
  /\ k.role = l.role /\ k.byOwner = l.byOwner

LEMMA BusyIsRecord ==
  ASSUME TypeOK, NEW c \in Clients, Busy(c)
  PROVE  call[c] \in CallRecord
BY DEF TypeOK, Busy

LEMMA RecordsAreBusy == ASSUME NEW k \in CallRecord PROVE k # Free
BY DEF CallRecord, Free, Ops

\* A step of a call keeps everything of it but its pc and what it read.
LEMMA GotoKeeps ==
  ASSUME TypeOK, NEW c \in Clients, Busy(c), NEW pc \in Pcs, Goto(c, pc)
  PROVE  /\ call' \in [Clients -> {Free} \cup CallRecord]
         /\ call'[c] \in CallRecord /\ Alike(call'[c], call[c]) /\ call'[c].pc = pc
         /\ call'[c].sawOwner = call[c].sawOwner
         /\ \A d \in Clients : d # c => call'[d] = call[d]
<1>1. call[c] \in CallRecord
  BY BusyIsRecord
<1>2. call'[c] = [call[c] EXCEPT !.pc = pc]
  BY DEF TypeOK, Goto
<1>3. call'[c] \in CallRecord
  BY <1>1, <1>2 DEF CallRecord
<1> QED  BY <1>1, <1>2, <1>3 DEF Goto, TypeOK, CallRecord, Alike

LEMMA ReturnKeeps ==
  ASSUME TypeOK, NEW c \in Clients, Return(c)
  PROVE  /\ call' \in [Clients -> {Free} \cup CallRecord]
         /\ call'[c] = Free
         /\ \A d \in Clients : d # c => call'[d] = call[d]
BY DEF Return, TypeOK

LEMMA StartKeeps ==
  ASSUME TypeOK, NEW c \in Clients, NEW k \in CallRecord, Start(c, k)
  PROVE  /\ call' \in [Clients -> {Free} \cup CallRecord]
         /\ call[c] = Free /\ call'[c] = k
         /\ \A d \in Clients : d # c => call'[d] = call[d]
BY DEF Start, TypeOK

\* ReadTarget returns, or goes on with the role it read, if it could.
LEMMA ReadKeeps ==
  ASSUME TypeOK, NEW c \in Clients, ReadTarget(c), ~Return(c)
  PROVE  \E had \in {roster[call[c].team][call[c].target], "none"} :
           /\ call' \in [Clients -> {Free} \cup CallRecord]
           /\ call'[c] \in CallRecord /\ Alike(call'[c], call[c])
           /\ call'[c].sawOwner = (had = "owner") /\ call'[c].pc = AfterTarget(call[c], had)
           /\ call[c].op # "accept" => MayAlter(call[c], had)
           /\ \A d \in Clients : d # c => call'[d] = call[d]
<1>1. call[c] \in CallRecord
  BY BusyIsRecord DEF ReadTarget, At
<1>2. PICK had \in {roster[call[c].team][call[c].target], "none"} :
        /\ call' = [call EXCEPT ![c].sawOwner = had = "owner",
                                ![c].pc = AfterTarget(call[c], had)]
        /\ call[c].op # "accept" => MayAlter(call[c], had)
  BY DEF ReadTarget
<1>3. AfterTarget(call[c], had) \in Pcs
  BY DEF AfterTarget, Pcs
<1>4. call'[c] = [call[c] EXCEPT !.sawOwner = (had = "owner"), !.pc = AfterTarget(call[c], had)]
  BY <1>2 DEF TypeOK
<1>5. call'[c] \in CallRecord
  BY <1>1, <1>3, <1>4 DEF CallRecord
<1>6. /\ Alike(call'[c], call[c])
      /\ call'[c].sawOwner = (had = "owner") /\ call'[c].pc = AfterTarget(call[c], had)
  BY <1>1, <1>4 DEF CallRecord, Alike
<1> QED  BY <1>2, <1>5, <1>6 DEF TypeOK
-----------------------------------------------------------------------------
(* The kinds of steps, by what they touch. *)

Manages(c) == SetMember(c) \/ RemoveMember(c) \/ InviteMember(c) \/ DeleteTeam(c)
Starts(c)  == Manages(c) \/ AcceptInvite(c) \/ CreateTeam(c)

\* The steps of a call that leave the rosters alone, and those that write one.
Moves(c) ==
  \/ ReadTarget(c) \/ GuardLastOwner(c) \/ CheckSeatLimit(c)
  \/ IndexTeamMember(c) \/ UnindexTeamMember(c)
  \/ StoreInvite(c) \/ DeleteInvite(c) \/ SoftDeleteTeam(c) \/ Abandon(c)
Writes(c) == PutMember(c) \/ RemoveRow(c)

Elsewhere ==
  \/ \E i \in Ids : SignUp(i)
  \/ \E k \in Tokens : InviteExpires(k)
  \/ \E t \in Teams : AdminDeleteTeam(t)
  \/ \E t \in Teams, n \in SeatLimits : SetTeamPlan(t, n)

LEMMA StepKinds ==
  ASSUME Next
  PROVE  \/ \E c \in Clients : Starts(c) \/ Moves(c) \/ Writes(c)
         \/ Elsewhere
BY DEF Next, CallStep, Starts, Manages, Moves, Writes, Elsewhere

\* The calls of managers begin alike.
LEMMA ManageStarts ==
  ASSUME TypeOK, NEW c \in Clients, NEW op \in {"set", "remove", "invite", "delete"},
         NEW i \in Ids, NEW x \in Ids, NEW t \in Teams, NEW role \in Roles,
         NEW pc \in {"target", "seats", "delete"}, Manage(c, op, i, t, x, role, pc)
  PROVE  /\ \E k \in CallRecord :
              /\ Start(c, k) /\ k.op = op /\ k.team = t /\ k.pc = pc /\ status[t] = "live"
              /\ k.role = role /\ ~k.sawOwner
              /\ k.byOwner <=> EffectiveRole(t, i) = "owner"
         /\ UNCHANGED <<registry, roster, marks>>
<1>1. PICK r \in Roles :
        /\ Resolves(i, t, r)
        /\ Start(c, [op |-> op, team |-> t, target |-> x, role |-> role,
                     byOwner |-> r = "owner", sawOwner |-> FALSE,
                     token |-> NoToken, pc |-> pc])
  BY DEF Manage
<1>2. [op |-> op, team |-> t, target |-> x, role |-> role, byOwner |-> r = "owner",
       sawOwner |-> FALSE, token |-> NoToken, pc |-> pc] \in CallRecord
  BY DEF CallRecord, Ops, Pcs
<1>3. UNCHANGED <<registry, roster, marks>>
  BY DEF Manage
<1> QED  BY <1>1, <1>2, <1>3 DEF Resolves

\* What a new call is, and what else changes as it starts.
LEMMA Begins ==
  ASSUME TypeOK, NEW c \in Clients, Starts(c)
  PROVE  \E k \in CallRecord :
           /\ Start(c, k) /\ ~k.sawOwner
           /\ roster' = roster /\ index' = index /\ marks' = marks
           /\ seats' = seats /\ invite' = invite
           /\ \/ /\ status[k.team] = "live" /\ status' = status
                 /\ \/ k.op \in {"set", "remove"} /\ k.pc = "target"
                    \/ k.op = "invite" /\ k.pc = "seats" /\ (k.role = "owner" => k.byOwner)
                    \/ k.op = "delete" /\ k.pc = "delete"
                    \/ /\ k.op = "accept" /\ k.pc = "target"
                       /\ \E tok \in Tokens : /\ invite[tok] \notin {Unsent, Gone}
                                              /\ k.role = invite[tok].role
                                              /\ k.byOwner = invite[tok].byOwner
              \/ /\ k.op = "create" /\ k.pc = "put" /\ k.role = "owner" /\ k.byOwner
                 /\ status[k.team] = "unused"
                 /\ status' = [status EXCEPT ![k.team] = "new"]
           /\ TypeOK'
<1>1. CASE Manages(c)
  <2>1. \E k \in CallRecord :
          /\ Start(c, k) /\ ~k.sawOwner /\ status[k.team] = "live"
          /\ \/ k.op \in {"set", "remove"} /\ k.pc = "target"
             \/ k.op = "invite" /\ k.pc = "seats" /\ (k.role = "owner" => k.byOwner)
             \/ k.op = "delete" /\ k.pc = "delete"
    <3>1. CASE SetMember(c)
      <4>1. PICK i \in Ids, x \in Ids, t \in Teams, role \in GrantRoles :
              Manage(c, "set", i, t, x, role, "target")
        BY <3>1 DEF SetMember
      <4>2. \E k \in CallRecord :
              /\ Start(c, k) /\ k.op = "set" /\ k.team = t /\ k.pc = "target"
              /\ status[t] = "live" /\ ~k.sawOwner
        BY <4>1, ManageStarts
      <4> QED  BY <4>2
    <3>2. CASE RemoveMember(c)
      <4>1. PICK i \in Ids, x \in Ids, t \in Teams :
              Manage(c, "remove", i, t, x, "viewer", "target")
        BY <3>2 DEF RemoveMember
      <4>2. "viewer" \in Roles
        BY DEF Roles
      <4>3. \E k \in CallRecord :
              /\ Start(c, k) /\ k.op = "remove" /\ k.team = t /\ k.pc = "target"
              /\ status[t] = "live" /\ ~k.sawOwner
        BY <4>1, <4>2, ManageStarts
      <4> QED  BY <4>3
    <3>3. CASE InviteMember(c)
      <4>1. PICK i \in Ids, x \in Ids, t \in Teams, role \in GrantRoles :
              /\ Manage(c, "invite", i, t, x, role, "seats")
              /\ role = "owner" => EffectiveRole(t, i) = "owner"
        BY <3>3 DEF InviteMember
      <4>2. \E k \in CallRecord :
              /\ Start(c, k) /\ k.op = "invite" /\ k.team = t /\ k.pc = "seats"
              /\ status[t] = "live" /\ ~k.sawOwner
              /\ k.role = role /\ (k.byOwner <=> EffectiveRole(t, i) = "owner")
        BY <4>1, ManageStarts
      <4> QED  BY <4>1, <4>2
    <3>4. CASE DeleteTeam(c)
      <4>1. PICK i \in Ids, t \in Teams : Manage(c, "delete", i, t, i, "owner", "delete")
        BY <3>4 DEF DeleteTeam
      <4>2. "owner" \in Roles
        BY DEF Roles
      <4>3. \E k \in CallRecord :
              /\ Start(c, k) /\ k.op = "delete" /\ k.team = t /\ k.pc = "delete"
              /\ status[t] = "live" /\ ~k.sawOwner
        BY <4>1, <4>2, ManageStarts
      <4> QED  BY <4>3
    <3> QED  BY <1>1, <3>1, <3>2, <3>3, <3>4 DEF Manages
  <2>2. UNCHANGED <<registry, roster, marks>>
    BY <1>1 DEF Manages, SetMember, RemoveMember, InviteMember, DeleteTeam, Manage
  <2>3. TypeOK'
    <3>1. call' \in [Clients -> {Free} \cup CallRecord]
      BY <2>1, StartKeeps
    <3> QED  BY <2>2, <3>1 DEF TypeOK, registry
  <2> QED  BY <2>1, <2>2, <2>3 DEF registry
<1>2. CASE AcceptInvite(c)
  <2>1. PICK i \in accounts, tok \in Tokens :
          /\ invite[tok] \notin {Unsent, Gone} /\ status[invite[tok].team] = "live"
          /\ Start(c, [op |-> "accept", team |-> invite[tok].team, target |-> i,
                       role |-> invite[tok].role, byOwner |-> invite[tok].byOwner,
                       sawOwner |-> FALSE, token |-> tok, pc |-> "target"])
          /\ UNCHANGED <<registry, roster, marks>>
    BY <1>2 DEF AcceptInvite
  <2> DEFINE k == [op |-> "accept", team |-> invite[tok].team, target |-> i,
                   role |-> invite[tok].role, byOwner |-> invite[tok].byOwner,
                   sawOwner |-> FALSE, token |-> tok, pc |-> "target"]
  <2>2. k \in CallRecord
    <3>1. invite[tok] \in Pending /\ i \in Ids
      BY <2>1 DEF TypeOK
    <3> QED  BY <3>1 DEF CallRecord, Pending, Ops, Pcs
  <2>3. TypeOK'
    <3>1. call' \in [Clients -> {Free} \cup CallRecord]
      BY <2>1, <2>2, StartKeeps
    <3> QED  BY <2>1, <3>1 DEF TypeOK, registry
  <2>4. /\ k.op = "accept" /\ k.pc = "target" /\ ~k.sawOwner /\ k.team = invite[tok].team
        /\ k.role = invite[tok].role /\ k.byOwner = invite[tok].byOwner
    OBVIOUS
  <2> HIDE DEF k
  <2>5. Start(c, k)
    BY <2>1 DEF k
  <2> QED  BY <2>1, <2>2, <2>3, <2>4, <2>5 DEF registry
<1>3. CASE CreateTeam(c)
  <2>1. PICK i \in accounts, t \in Teams :
          /\ status[t] = "unused"
          /\ status' = [status EXCEPT ![t] = "new"]
          /\ creator' = [creator EXCEPT ![t] = {i}]
          /\ Start(c, [op |-> "create", team |-> t, target |-> i, role |-> "owner",
                       byOwner |-> TRUE, sawOwner |-> FALSE, token |-> NoToken, pc |-> "put"])
          /\ UNCHANGED <<seats, index, invite, accounts, roster, marks>>
    BY <1>3 DEF CreateTeam
  <2> DEFINE k == [op |-> "create", team |-> t, target |-> i, role |-> "owner",
                   byOwner |-> TRUE, sawOwner |-> FALSE, token |-> NoToken, pc |-> "put"]
  <2>2. k \in CallRecord
    BY DEF CallRecord, TypeOK, Ops, Pcs, Roles
  <2>3. TypeOK'
    <3>1. call' \in [Clients -> {Free} \cup CallRecord]
      BY <2>1, <2>2, StartKeeps
    <3>2. creator' \in [Teams -> SUBSET Ids]
      BY <2>1 DEF TypeOK
    <3>3. status' \in [Teams -> {"unused", "new", "live", "deleted"}]
      BY <2>1 DEF TypeOK
    <3> QED  BY <2>1, <3>1, <3>2, <3>3 DEF TypeOK
  <2>4. /\ k.op = "create" /\ k.pc = "put" /\ k.role = "owner" /\ k.byOwner /\ ~k.sawOwner
        /\ k.team = t
    OBVIOUS
  <2> HIDE DEF k
  <2>5. Start(c, k)
    BY <2>1 DEF k
  <2> QED  BY <2>1, <2>2, <2>3, <2>4, <2>5
<1> QED  BY <1>1, <1>2, <1>3 DEF Starts

\* What c's team may have after a step of c, and every other team keeps.
Frame(c) ==
  /\ seats' = seats
  /\ \A d \in Clients : d # c => call'[d] = call[d]
  /\ call'[c] = Free \/ (call'[c] \in CallRecord /\ Alike(call'[c], call[c]))
  /\ \A u \in Teams : u # call[c].team =>
       /\ status'[u] = status[u] /\ index'[u] = index[u]
       /\ roster'[u] = roster[u] /\ marks'[u] = marks[u]
  /\ \A u \in Teams : marks[u] \subseteq marks'[u]

LEMMA MarkTypes ==
  ASSUME TypeOK, NEW t \in Teams, NEW events \in SUBSET Marks, Mark(t, events)
  PROVE  /\ marks' \in [Teams -> SUBSET Marks] /\ marks'[t] = marks[t] \cup events
         /\ \A u \in Teams : u # t => marks'[u] = marks[u]
BY DEF TypeOK, Mark

LEMMA SoftDeleteTypes ==
  ASSUME TypeOK, NEW t \in Teams, SoftDelete(t)
  PROVE  /\ status' \in [Teams -> {"unused", "new", "live", "deleted"}]
         /\ index' \in [Teams -> SUBSET Ids]
         /\ \A u \in Teams : u # t => status'[u] = status[u] /\ index'[u] = index[u]
BY DEF TypeOK, SoftDelete, Present

\* Each step of a call under way, in turn.
LEMMA ReadFrame ==
  ASSUME TypeOK, NEW c \in Clients, ReadTarget(c)
  PROVE  Busy(c) /\ roster' = roster /\ Frame(c) /\ TypeOK'
<1>1. UNCHANGED <<registry, roster, marks>> /\ Busy(c)
  BY DEF ReadTarget, At
<1>2. /\ call' \in [Clients -> {Free} \cup CallRecord]
      /\ \A d \in Clients : d # c => call'[d] = call[d]
      /\ call'[c] = Free \/ (call'[c] \in CallRecord /\ Alike(call'[c], call[c]))
  <2>1. CASE Return(c)
    BY <2>1, ReturnKeeps
  <2>2. CASE ~Return(c)
    BY <2>2, ReadKeeps
  <2> QED  BY <2>1, <2>2
<1> QED  BY <1>1, <1>2 DEF Frame, TypeOK, registry

LEMMA GuardFrame ==
  ASSUME TypeOK, NEW c \in Clients, GuardLastOwner(c)
  PROVE  Busy(c) /\ roster' = roster /\ Frame(c) /\ TypeOK'
<1>1. Busy(c) /\ UNCHANGED <<registry, roster>> /\ call[c].team \in Teams
  BY BusyIsRecord DEF GuardLastOwner, Guard, At, CallRecord
<1>2. Return(c) \/ \E pc \in {"remove", "put"} : Goto(c, pc)
  BY DEF GuardLastOwner, Guard
<1>3. /\ call' \in [Clients -> {Free} \cup CallRecord]
      /\ \A d \in Clients : d # c => call'[d] = call[d]
      /\ call'[c] = Free \/ (call'[c] \in CallRecord /\ Alike(call'[c], call[c]))
  BY <1>1, <1>2, ReturnKeeps, GotoKeeps DEF Pcs
<1>4. UNCHANGED marks \/ \E events \in SUBSET Marks : Mark(call[c].team, events)
  BY DEF GuardLastOwner, Guard, Marks
<1>5. /\ marks' \in [Teams -> SUBSET Marks]
      /\ \A u \in Teams : marks[u] \subseteq marks'[u] /\ (u # call[c].team => marks'[u] = marks[u])
  <2>1. CASE UNCHANGED marks
    BY <2>1 DEF TypeOK
  <2>2. ASSUME NEW events \in SUBSET Marks, Mark(call[c].team, events)
        PROVE  /\ marks' \in [Teams -> SUBSET Marks]
               /\ marks[call[c].team] \subseteq marks'[call[c].team]
               /\ \A u \in Teams : u # call[c].team => marks'[u] = marks[u]
    BY <1>1, <2>2, MarkTypes
  <2> QED  BY <1>4, <2>1, <2>2
<1> QED  BY <1>1, <1>3, <1>5 DEF Frame, TypeOK, registry

LEMMA SeatFrame ==
  ASSUME TypeOK, NEW c \in Clients, CheckSeatLimit(c)
  PROVE  Busy(c) /\ roster' = roster /\ Frame(c) /\ TypeOK'
<1>1. Busy(c) /\ UNCHANGED <<registry, roster>> /\ call[c].team \in Teams
  BY BusyIsRecord DEF CheckSeatLimit, Seat, At, CallRecord
<1>2. Return(c) \/ \E pc \in {"store", "put"} : Goto(c, pc)
  BY DEF CheckSeatLimit, Seat
<1>3. /\ call' \in [Clients -> {Free} \cup CallRecord]
      /\ \A d \in Clients : d # c => call'[d] = call[d]
      /\ call'[c] = Free \/ (call'[c] \in CallRecord /\ Alike(call'[c], call[c]))
  BY <1>1, <1>2, ReturnKeeps, GotoKeeps DEF Pcs
<1>4. UNCHANGED marks \/ \E events \in SUBSET Marks : Mark(call[c].team, events)
  BY DEF CheckSeatLimit, Seat, Marks
<1>5. /\ marks' \in [Teams -> SUBSET Marks]
      /\ \A u \in Teams : marks[u] \subseteq marks'[u] /\ (u # call[c].team => marks'[u] = marks[u])
  <2>1. CASE UNCHANGED marks
    BY <2>1 DEF TypeOK
  <2>2. ASSUME NEW events \in SUBSET Marks, Mark(call[c].team, events)
        PROVE  /\ marks' \in [Teams -> SUBSET Marks]
               /\ marks[call[c].team] \subseteq marks'[call[c].team]
               /\ \A u \in Teams : u # call[c].team => marks'[u] = marks[u]
    BY <1>1, <2>2, MarkTypes
  <2> QED  BY <1>4, <2>1, <2>2
<1> QED  BY <1>1, <1>3, <1>5 DEF Frame, TypeOK, registry

\* The steps that write one table of the registry, or none, and no mark but one.
LEMMA TableFrame ==
  ASSUME TypeOK, NEW c \in Clients,
         \/ IndexTeamMember(c) \/ UnindexTeamMember(c) \/ StoreInvite(c)
         \/ DeleteInvite(c) \/ SoftDeleteTeam(c) \/ Abandon(c)
  PROVE  Busy(c) /\ roster' = roster /\ Frame(c) /\ TypeOK'
<1>1. Busy(c) /\ roster' = roster
  BY DEF IndexTeamMember, UnindexTeamMember, StoreInvite, DeleteInvite, SoftDeleteTeam,
         SoftDelete, Abandon, At
<1>2. call[c] \in CallRecord /\ call[c].team \in Teams
  BY <1>1, BusyIsRecord DEF CallRecord
<1>3. Return(c) \/ Goto(c, "forget")
  BY DEF IndexTeamMember, UnindexTeamMember, StoreInvite, DeleteInvite, SoftDeleteTeam, Abandon
<1>4. /\ call' \in [Clients -> {Free} \cup CallRecord]
      /\ \A d \in Clients : d # c => call'[d] = call[d]
      /\ call'[c] = Free \/ (call'[c] \in CallRecord /\ Alike(call'[c], call[c]))
  BY <1>1, <1>3, ReturnKeeps, GotoKeeps DEF Pcs
<1>5. CASE IndexTeamMember(c)
  <2>1. /\ index' \in [Teams -> SUBSET Ids]
        /\ status' \in [Teams -> {"unused", "new", "live", "deleted"}]
        /\ \A u \in Teams : u # call[c].team => index'[u] = index[u] /\ status'[u] = status[u]
    BY <1>2, <1>5 DEF TypeOK, IndexTeamMember, CallRecord
  <2> QED  BY <1>1, <1>4, <1>5, <2>1 DEF Frame, TypeOK, IndexTeamMember
<1>6. CASE UnindexTeamMember(c)
  <2>1. /\ index' \in [Teams -> SUBSET Ids]
        /\ \A u \in Teams : u # call[c].team => index'[u] = index[u]
    BY <1>2, <1>6 DEF TypeOK, UnindexTeamMember
  <2> QED  BY <1>1, <1>4, <1>6, <2>1 DEF Frame, TypeOK, UnindexTeamMember
<1>7. CASE StoreInvite(c)
  <2>1. invite' \in [Tokens -> {Unsent, Gone} \cup Pending]
    <3>1. [team |-> call[c].team, email |-> call[c].target, role |-> call[c].role,
           byOwner |-> call[c].byOwner] \in Pending
      BY <1>2 DEF CallRecord, Pending
    <3> QED  BY <1>7, <3>1 DEF StoreInvite, TypeOK
  <2> QED  BY <1>1, <1>4, <1>7, <2>1 DEF Frame, TypeOK, StoreInvite
<1>8. CASE DeleteInvite(c)
  <2>1. invite' \in [Tokens -> {Unsent, Gone} \cup Pending]
    BY <1>8 DEF DeleteInvite, TypeOK
  <2> QED  BY <1>1, <1>4, <1>8, <2>1 DEF Frame, TypeOK, DeleteInvite
<1>9. CASE SoftDeleteTeam(c)
  BY <1>1, <1>2, <1>4, <1>9, SoftDeleteTypes DEF Frame, TypeOK, SoftDeleteTeam, SoftDelete
<1>10. CASE Abandon(c)
  <2>1. \E events \in SUBSET Marks : Mark(call[c].team, events)
    BY <1>10 DEF Abandon, Marks
  <2>2. /\ marks' \in [Teams -> SUBSET Marks]
        /\ \A u \in Teams : marks[u] \subseteq marks'[u]
                            /\ (u # call[c].team => marks'[u] = marks[u])
    BY <1>2, <2>1, MarkTypes
  <2> QED  BY <1>1, <1>4, <1>10, <2>2 DEF Frame, TypeOK, Abandon, registry
<1> QED  BY <1>5, <1>6, <1>7, <1>8, <1>9, <1>10

LEMMA MoveFrame ==
  ASSUME TypeOK, NEW c \in Clients, Moves(c)
  PROVE  Busy(c) /\ roster' = roster /\ Frame(c) /\ TypeOK'
BY ReadFrame, GuardFrame, SeatFrame, TableFrame DEF Moves

\* A row is written: what as, where the call goes, and what is remembered of it.
Wrote(c) == IF PutMember(c) THEN call[c].role ELSE "none"

LEMMA RowWritten ==
  ASSUME TypeOK, NEW c \in Clients, Writes(c)
  PROVE  /\ Busy(c) /\ Frame(c) /\ TypeOK' /\ registry' = registry
         /\ Wrote(c) \in Roles \cup {"none"}
         /\ roster'[call[c].team][call[c].target] = Wrote(c)
         /\ \A i \in Ids : i # call[c].target => roster'[call[c].team][i] = roster[call[c].team][i]
         /\ \/ roster' = roster /\ marks' = marks /\ call'[c] = Free
            \/ /\ marks'[call[c].team] = marks[call[c].team] \cup Events(c, Wrote(c))
               /\ call'[c] \in CallRecord /\ call'[c].sawOwner = call[c].sawOwner
               /\ call'[c].pc = IF PutMember(c) THEN "index" ELSE "unindex"
<1> DEFINE k == call[c]
<1>1. Busy(c)
  BY DEF Writes, PutMember, RemoveRow, At
<1>2. k \in CallRecord /\ k.team \in Teams /\ k.target \in Ids /\ k.role \in Roles
  BY <1>1, BusyIsRecord DEF CallRecord
<1>3. /\ Wrote(c) \in Roles \cup {"none"} /\ registry' = registry
      /\ roster' = [roster EXCEPT ![k.team][k.target] = Wrote(c)]
  BY <1>2 DEF Writes, PutMember, RemoveRow, Wrote
<1>4. /\ roster' \in [Teams -> [Ids -> Roles \cup {"none"}]]
      /\ roster'[k.team][k.target] = Wrote(c)
      /\ \A i \in Ids : i # k.target => roster'[k.team][i] = roster[k.team][i]
      /\ \A u \in Teams : u # k.team => roster'[u] = roster[u]
  BY <1>2, <1>3 DEF TypeOK
<1>5. \/ roster' = roster /\ marks' = marks /\ Return(c)
      \/ /\ Mark(k.team, Events(c, Wrote(c)))
         /\ Goto(c, IF PutMember(c) THEN "index" ELSE "unindex")
  <2>1. CASE PutMember(c)
    BY <2>1 DEF PutMember, Wrote
  <2>2. CASE RemoveRow(c) /\ ~PutMember(c) /\ k.target \in Members(k.team)
    BY <2>2 DEF RemoveRow, Wrote
  <2>3. CASE RemoveRow(c) /\ ~PutMember(c) /\ k.target \notin Members(k.team)
    <3>1. roster[k.team][k.target] = "none" /\ Wrote(c) = "none"
      BY <1>2, <2>3 DEF Members, Wrote
    <3>2. roster' = roster
      BY <1>2, <1>3, <3>1 DEF TypeOK
    <3> QED  BY <2>3, <3>2 DEF RemoveRow
  <2> QED  BY <2>1, <2>2, <2>3 DEF Writes
<1>6. CASE roster' = roster /\ marks' = marks /\ Return(c)
  <2>1. /\ call' \in [Clients -> {Free} \cup CallRecord] /\ call'[c] = Free
        /\ \A d \in Clients : d # c => call'[d] = call[d]
    BY <1>6, ReturnKeeps
  <2>2. TypeOK' /\ Frame(c)
    BY <1>3, <1>6, <2>1 DEF TypeOK, Frame, registry
  <2> QED  BY <1>1, <1>3, <1>4, <1>6, <2>1, <2>2
<1>7. CASE /\ Mark(k.team, Events(c, Wrote(c)))
           /\ Goto(c, IF PutMember(c) THEN "index" ELSE "unindex")
  <2>1. Events(c, Wrote(c)) \in SUBSET Marks
    BY DEF Events, Marks
  <2>2. /\ call' \in [Clients -> {Free} \cup CallRecord]
        /\ call'[c] \in CallRecord /\ Alike(call'[c], call[c])
        /\ call'[c].sawOwner = call[c].sawOwner
        /\ call'[c].pc = IF PutMember(c) THEN "index" ELSE "unindex"
        /\ \A d \in Clients : d # c => call'[d] = call[d]
    BY <1>1, <1>7, GotoKeeps DEF Pcs
  <2>3. /\ marks' \in [Teams -> SUBSET Marks]
        /\ marks'[k.team] = marks[k.team] \cup Events(c, Wrote(c))
        /\ \A u \in Teams : u # k.team => marks'[u] = marks[u]
    BY <1>2, <1>7, <2>1, MarkTypes
  <2>4. TypeOK' /\ Frame(c)
    BY <1>2, <1>3, <1>4, <2>2, <2>3 DEF TypeOK, Frame, registry
  <2> QED  BY <1>1, <1>3, <1>4, <2>2, <2>3, <2>4
<1> QED  BY <1>5, <1>6, <1>7

LEMMA ElsewhereFrame ==
  ASSUME TypeOK, Elsewhere
  PROVE  /\ TypeOK' /\ call' = call /\ roster' = roster /\ marks' = marks
         /\ \A t \in Teams : \/ index'[t] = index[t] /\ status'[t] = status[t]
                             \/ index'[t] = {} /\ Present(t) /\ status'[t] = "deleted"
         /\ \A tok \in Tokens : invite'[tok] \in {invite[tok], Gone}
<1>1. ASSUME NEW i \in Ids, SignUp(i) PROVE TypeOK'
  BY <1>1 DEF TypeOK, SignUp
<1>2. ASSUME NEW k \in Tokens, InviteExpires(k) PROVE TypeOK'
  BY <1>2 DEF TypeOK, InviteExpires
<1>3. ASSUME NEW t \in Teams, AdminDeleteTeam(t) PROVE TypeOK'
  BY <1>3, SoftDeleteTypes DEF TypeOK, AdminDeleteTeam, SoftDelete
<1>4. ASSUME NEW t \in Teams, NEW n \in SeatLimits, SetTeamPlan(t, n) PROVE TypeOK'
  BY <1>4 DEF TypeOK, SetTeamPlan
<1>5. TypeOK'
  BY <1>1, <1>2, <1>3, <1>4 DEF Elsewhere
<1>6. call' = call /\ roster' = roster /\ marks' = marks
  BY DEF Elsewhere, SignUp, InviteExpires, AdminDeleteTeam, SoftDelete, SetTeamPlan
<1>7. \A t \in Teams : \/ index'[t] = index[t] /\ status'[t] = status[t]
                       \/ index'[t] = {} /\ Present(t) /\ status'[t] = "deleted"
  BY DEF Elsewhere, SignUp, InviteExpires, AdminDeleteTeam, SoftDelete, SetTeamPlan, TypeOK
<1>8. \A tok \in Tokens : invite'[tok] \in {invite[tok], Gone}
  BY DEF Elsewhere, SignUp, InviteExpires, AdminDeleteTeam, SoftDelete, SetTeamPlan, TypeOK
<1> QED  BY <1>5, <1>6, <1>7, <1>8
-----------------------------------------------------------------------------
(* Type correctness. *)

LEMMA InitTypes == Init => TypeOK
<1> SUFFICES ASSUME Init PROVE TypeOK
  OBVIOUS
<1>1. seats \in [Teams -> Nat] /\ status \in [Teams -> {"unused", "new", "live", "deleted"}]
  BY DEF Init, InitTeams
<1>2. /\ invite \in [Tokens -> {Unsent, Gone} \cup Pending]
      /\ call \in [Clients -> {Free} \cup CallRecord]
  BY DEF Init, InitTeams
<1>3. creator \in [Teams -> SUBSET Ids] /\ index \in [Teams -> SUBSET Ids] /\ accounts \in SUBSET Ids
  BY DEF Init, InitTeams
<1>4. roster \in [Teams -> [Ids -> Roles \cup {"none"}]] /\ marks \in [Teams -> SUBSET Marks]
  BY DEF Init, InitTeams
<1> QED  BY <1>1, <1>2, <1>3, <1>4 DEF TypeOK

LEMMA StepTypes == TypeOK /\ [Next]_vars => TypeOK'
<1> SUFFICES ASSUME TypeOK, [Next]_vars PROVE TypeOK'
  OBVIOUS
<1>1. CASE Next
  BY <1>1, StepKinds, Begins, MoveFrame, RowWritten, ElsewhereFrame
<1>2. CASE UNCHANGED vars
  BY <1>2 DEF TypeOK, vars, registry
<1> QED  BY <1>1, <1>2

\* The tables and the calls keep their types, whatever the calls do.
THEOREM TypeCorrect == Spec => []TypeOK
BY InitTypes, StepTypes, PTL DEF Spec
-----------------------------------------------------------------------------
(* The shape of a call. *)

LEMMA ShapeStands ==
  ASSUME NEW d \in Clients, ShapedCall(d), call'[d] = call[d]
  PROVE  ShapedCall(d)'
BY DEF ShapedCall, At, Busy

LEMMA FreeIsShaped == ASSUME NEW c \in Clients, call'[c] = Free PROVE ShapedCall(c)'
BY DEF ShapedCall, At, Busy

LEMMA ReadShape ==
  ASSUME TypeOK, Shaped, NEW c \in Clients, ReadTarget(c)
  PROVE  ShapedCall(c)'
<1>1. CASE Return(c)
  BY <1>1, ReturnKeeps, FreeIsShaped
<1>2. CASE ~Return(c)
  <2> DEFINE k == call[c]
  <2>1. PICK had \in {roster[k.team][k.target], "none"} :
          /\ Alike(call'[c], k)
          /\ call'[c].sawOwner = (had = "owner") /\ call'[c].pc = AfterTarget(k, had)
    BY <1>2, ReadKeeps
  <2>2. k.op \in {"set", "remove", "accept"}
    BY DEF Shaped, ShapedCall, ReadTarget
  <2>3. /\ AfterTarget(k, had) = "owners" => k.op \in {"set", "remove"}
        /\ AfterTarget(k, had) = "seats" => k.op # "remove" /\ had = "none"
        /\ AfterTarget(k, had) = "put" => k.op # "remove"
        /\ AfterTarget(k, had) = "remove" => k.op = "remove"
        /\ AfterTarget(k, had) \in {"owners", "seats", "put", "remove"}
    BY DEF AfterTarget
  <2> QED  BY <2>1, <2>2, <2>3 DEF ShapedCall, At, Busy, Alike
<1> QED  BY <1>1, <1>2

LEMMA MoveShape ==
  ASSUME TypeOK, Shaped, NEW c \in Clients, Moves(c)
  PROVE  ShapedCall(c)'
<1> DEFINE k == call[c]
<1>1. Busy(c) /\ ShapedCall(c) /\ k \in CallRecord
  BY MoveFrame, BusyIsRecord DEF Shaped
<1>2. CASE Return(c)
  BY <1>2, ReturnKeeps, FreeIsShaped
<1>3. CASE ReadTarget(c)
  BY <1>3, ReadShape
<1>4. CASE GuardLastOwner(c) /\ ~Return(c)
  <2>1. Goto(c, IF k.op = "remove" THEN "remove" ELSE "put") /\ k.op \in {"set", "remove"}
    BY <1>1, <1>4 DEF GuardLastOwner, Guard, ShapedCall
  <2>2. /\ Alike(call'[c], k)
        /\ call'[c].pc = IF k.op = "remove" THEN "remove" ELSE "put"
    BY <1>1, <2>1, GotoKeeps DEF Pcs
  <2> QED  BY <2>1, <2>2 DEF ShapedCall, At, Busy, Alike
<1>5. CASE CheckSeatLimit(c) /\ ~Return(c)
  <2>1. /\ Goto(c, IF k.op = "invite" THEN "store" ELSE "put")
        /\ k.op \in {"set", "accept", "invite"}
    BY <1>1, <1>5 DEF CheckSeatLimit, Seat, ShapedCall
  <2>2. /\ Alike(call'[c], k)
        /\ call'[c].pc = IF k.op = "invite" THEN "store" ELSE "put"
    BY <1>1, <2>1, GotoKeeps DEF Pcs
  <2> QED  BY <2>1, <2>2 DEF ShapedCall, At, Busy, Alike
<1>6. CASE IndexTeamMember(c) /\ ~Return(c)
  <2>1. Goto(c, "forget") /\ k.op = "accept"
    BY <1>6 DEF IndexTeamMember
  <2>2. Alike(call'[c], k) /\ call'[c].pc = "forget"
    BY <1>1, <2>1, GotoKeeps DEF Pcs
  <2> QED  BY <2>1, <2>2 DEF ShapedCall, At, Busy, Alike
<1> QED
  BY <1>2, <1>3, <1>4, <1>5, <1>6 DEF Moves, UnindexTeamMember, StoreInvite, DeleteInvite,
     SoftDeleteTeam, Abandon

LEMMA StepShape ==
  ASSUME TypeOK, Shaped, Next
  PROVE  Shaped'
<1>1. ASSUME NEW c \in Clients, Starts(c) PROVE Shaped'
  <2>1. PICK k \in CallRecord :
          /\ Start(c, k) /\ ~k.sawOwner
          /\ \/ /\ \/ k.op \in {"set", "remove"} /\ k.pc = "target"
                   \/ k.op = "invite" /\ k.pc = "seats"
                   \/ k.op = "delete" /\ k.pc = "delete"
                   \/ k.op = "accept" /\ k.pc = "target"
             \/ k.op = "create" /\ k.pc = "put" /\ k.role = "owner" /\ k.byOwner
    BY <1>1, Begins
  <2>2. call'[c] = k /\ \A d \in Clients : d # c => call'[d] = call[d]
    BY <2>1, StartKeeps
  <2>3. ShapedCall(c)'
    BY <2>1, <2>2 DEF ShapedCall, At, Busy
  <2> QED  BY <2>2, <2>3, ShapeStands DEF Shaped
<1>2. ASSUME NEW c \in Clients, Moves(c) PROVE Shaped'
  <2>1. \A d \in Clients : d # c => call'[d] = call[d]
    BY <1>2, MoveFrame DEF Frame
  <2> QED  BY <1>2, <2>1, MoveShape, ShapeStands DEF Shaped
<1>3. ASSUME NEW c \in Clients, Writes(c) PROVE Shaped'
  <2>1. /\ \A d \in Clients : d # c => call'[d] = call[d]
        /\ Busy(c) /\ ShapedCall(c)
        /\ \/ call'[c] = Free
           \/ /\ Alike(call'[c], call[c])
              /\ call'[c].pc = IF PutMember(c) THEN "index" ELSE "unindex"
    BY <1>3, RowWritten DEF Frame, Shaped, Free, CallRecord, Ops
  <2>2. ~PutMember(c) => call[c].op # "create"
    BY <1>3, <2>1 DEF Writes, RemoveRow, ShapedCall, At
  <2>3. ShapedCall(c)'
    BY <2>1, <2>2, FreeIsShaped DEF ShapedCall, At, Busy, Alike
  <2> QED  BY <2>1, <2>3, ShapeStands DEF Shaped
<1>4. ASSUME Elsewhere PROVE Shaped'
  BY <1>4, ElsewhereFrame, ShapeStands DEF Shaped
<1> QED  BY <1>1, <1>2, <1>3, <1>4, StepKinds
-----------------------------------------------------------------------------
(* A team keeps an Owner. *)

\* guardLastOwner leaves somebody besides the target.
LEMMA TwoOwners ==
  ASSUME NEW t \in Teams, NEW i \in Ids, Cardinality(Owners(t)) >= 2
  PROVE  Another(t, i)
<1> SUFFICES ASSUME Owners(t) \subseteq {i} PROVE FALSE
  BY DEF Another
<1>1. IsFiniteSet({i}) /\ Cardinality({i}) = 1
  BY FS_Singleton
<1>2. IsFiniteSet(Owners(t)) /\ Cardinality(Owners(t)) <= 1
  BY <1>1, FS_Subset
<1>3. Cardinality(Owners(t)) \in Nat
  BY <1>2, FS_CardinalityType
<1> QED  BY <1>2, <1>3

\* A step that leaves t's roster alone and takes nobody past guardLastOwner.
LEMMA KeptStays ==
  ASSUME NEW t \in Teams, Kept(t), roster'[t] = roster[t], marks[t] \subseteq marks'[t],
         \A d \in Clients : Demoting(d)' /\ (call[d].team = t)' =>
           Demoting(d) /\ call[d].team = t /\ call'[d].target = call[d].target,
         Unfounded(t) => Unfounded(t)'
  PROVE  Kept(t)'
<1> SUFFICES ASSUME Unmarked(t)' PROVE (Guarded(t) /\ (Owners(t) # {} \/ Unfounded(t)))'
  BY DEF Kept
<1>1. Owners(t)' = Owners(t)
  BY DEF Owners
<1>2. Unmarked(t) /\ Guarded(t) /\ (Owners(t) # {} \/ Unfounded(t))
  BY DEF Kept, Unmarked
<1>3. Guarded(t)'
  BY <1>1, <1>2 DEF Guarded, Another
<1> QED  BY <1>1, <1>2, <1>3

LEMMA ElsewhereKept ==
  ASSUME IInv, Elsewhere, NEW t \in Teams
  PROVE  Kept(t)'
<1>1. /\ call' = call /\ roster' = roster /\ marks' = marks
      /\ \/ index'[t] = index[t] /\ status'[t] = status[t]
         \/ index'[t] = {} /\ status'[t] = "deleted"
  BY ElsewhereFrame DEF IInv
<1>2. Unfounded(t) => Unfounded(t)'
  BY <1>1 DEF Unfounded, Members, OnTeam, At, Busy
<1> QED  BY <1>1, <1>2, KeptStays DEF IInv, Demoting, Busy

LEMMA StartKept ==
  ASSUME IInv, NEW c \in Clients, Starts(c), NEW t \in Teams
  PROVE  Kept(t)'
<1>1. PICK k \in CallRecord :
        /\ Start(c, k) /\ ~k.sawOwner
        /\ roster' = roster /\ index' = index /\ marks' = marks
        /\ \/ status[k.team] = "live" /\ status' = status
           \/ /\ k.op = "create" /\ k.pc = "put" /\ status[k.team] = "unused"
              /\ status' = [status EXCEPT ![k.team] = "new"]
  BY Begins DEF IInv
<1>2. call'[c] = k /\ \A d \in Clients : d # c => call'[d] = call[d]
  BY <1>1, StartKeeps DEF IInv
<1>3. \A d \in Clients : Demoting(d)' /\ (call[d].team = t)' =>
         Demoting(d) /\ call[d].team = t /\ call'[d].target = call[d].target
  BY <1>1, <1>2 DEF Demoting, Busy
<1>4. Unfounded(t) => Unfounded(t)'
  <2> SUFFICES ASSUME Unfounded(t) PROVE Unfounded(t)'
    OBVIOUS
  <2>1. k.team = t => k.op = "create" /\ k.pc = "put"
    BY <1>1 DEF Unfounded
  <2>2. \A d \in Clients : OnTeam(d, t)' => (call[d].op = "create")' /\ At(d, "put")'
    BY <1>2, <2>1 DEF Unfounded, OnTeam, At, Busy
  <2>3. status'[t] # "live" /\ Members(t)' = {}
    BY <1>1 DEF Unfounded, Members, IInv, TypeOK
  <2> QED  BY <1>1, <2>2, <2>3 DEF Unfounded
<1> QED  BY <1>1, <1>3, <1>4, KeptStays DEF IInv

\* A step that writes no row, other than guardLastOwner's, takes no call past it.
LEMMA NoneDemotes ==
  ASSUME IInv, NEW c \in Clients, Moves(c), ~GuardLastOwner(c), Demoting(c)'
  PROVE  Demoting(c) /\ Alike(call'[c], call[c])
<1> DEFINE k == call[c]
<1>1. TypeOK /\ Busy(c) /\ ShapedCall(c) /\ ~Return(c)
  BY MoveFrame, ReturnKeeps DEF IInv, Shaped, Demoting, Busy
<1>2. CASE ReadTarget(c)
  <2>1. PICK had \in {roster[k.team][k.target], "none"} :
          /\ Alike(call'[c], k)
          /\ call'[c].sawOwner = (had = "owner") /\ call'[c].pc = AfterTarget(k, had)
    BY <1>1, <1>2, ReadKeeps
  <2>2. had = "owner" /\ k.op \in {"set", "remove"}
    BY <2>1 DEF Demoting, Alike
  <2> QED  BY <2>1, <2>2 DEF Demoting, AfterTarget, Alike
<1>3. CASE CheckSeatLimit(c)
  <2>1. Goto(c, IF k.op = "invite" THEN "store" ELSE "put") /\ ~k.sawOwner
    BY <1>1, <1>3 DEF CheckSeatLimit, Seat, ShapedCall
  <2>2. call'[c].sawOwner = k.sawOwner
    BY <1>1, <2>1, GotoKeeps DEF Pcs
  <2> QED  BY <2>1, <2>2 DEF Demoting
<1>4. CASE IndexTeamMember(c)
  <2>1. Goto(c, "forget")
    BY <1>1, <1>4 DEF IndexTeamMember
  <2>2. call'[c].pc = "forget"
    BY <1>1, <2>1, GotoKeeps DEF Pcs
  <2> QED  BY <2>2 DEF Demoting
<1> QED
  BY <1>1, <1>2, <1>3, <1>4 DEF Moves, UnindexTeamMember, StoreInvite, DeleteInvite,
     SoftDeleteTeam, Abandon

LEMMA MoveKept ==
  ASSUME IInv, NEW c \in Clients, Moves(c), NEW t \in Teams
  PROVE  Kept(t)'
<1> DEFINE k == call[c]
<1>1. TypeOK /\ Kept(t) /\ Busy(c) /\ roster' = roster /\ Frame(c) /\ k \in CallRecord
  BY MoveFrame, BusyIsRecord DEF IInv
<1>2. /\ \A d \in Clients : d # c => call'[d] = call[d]
      /\ call'[c] = Free \/ Alike(call'[c], call[c])
      /\ marks[t] \subseteq marks'[t]
  BY <1>1 DEF Frame
<1>3. Unfounded(t) => Unfounded(t)'
  <2> SUFFICES ASSUME Unfounded(t) PROVE Unfounded(t)'
    OBVIOUS
  <2>1. CASE k.team # t
    <3>1. OnTeam(c, t)' => OnTeam(c, t)
      BY <1>2, <2>1 DEF OnTeam, Busy, Alike
    <3>2. status'[t] = status[t] /\ index'[t] = index[t] /\ Members(t)' = Members(t)
      BY <1>1, <2>1 DEF Frame, Members
    <3>3. \A d \in Clients : OnTeam(d, t)' => (call[d].op = "create")' /\ At(d, "put")'
      BY <1>2, <2>1, <3>1 DEF Unfounded, OnTeam, At, Busy
    <3> QED  BY <3>2, <3>3 DEF Unfounded
  <2>2. CASE k.team = t
    <3>1. k.op = "create" /\ k.pc = "put"
      BY <1>1, <2>2 DEF Unfounded, OnTeam, At
    <3>2. Abandon(c)
      BY <3>1 DEF Moves, ReadTarget, GuardLastOwner, Guard, CheckSeatLimit, Seat, IndexTeamMember,
         UnindexTeamMember, StoreInvite, DeleteInvite, SoftDeleteTeam, At
    <3>3. call'[c] = Free /\ status' = status /\ index' = index
      BY <1>1, <3>2, ReturnKeeps DEF Abandon, registry
    <3>4. \A d \in Clients : OnTeam(d, t)' => (call[d].op = "create")' /\ At(d, "put")'
      BY <1>2, <3>3 DEF Unfounded, OnTeam, At, Busy
    <3> QED  BY <1>1, <3>3, <3>4 DEF Unfounded, Members
  <2> QED  BY <2>1, <2>2
<1>4. CASE ~GuardLastOwner(c) \/ ~Demoting(c)' \/ k.team # t
  <2>1. \A d \in Clients : Demoting(d)' /\ (call[d].team = t)' =>
           Demoting(d) /\ call[d].team = t /\ call'[d].target = call[d].target
    <3> SUFFICES ASSUME NEW d \in Clients, Demoting(d)', (call[d].team = t)'
                 PROVE  Demoting(d) /\ call[d].team = t /\ call'[d].target = call[d].target
      OBVIOUS
    <3>1. CASE d # c
      BY <1>2, <3>1 DEF Demoting, Busy
    <3>2. CASE d = c
      <4>1. Alike(call'[c], k)
        BY <1>2, <3>2 DEF Demoting, Busy
      <4>2. ~GuardLastOwner(c)
        BY <1>4, <3>2, <4>1 DEF Alike
      <4> QED  BY <3>2, <4>1, <4>2, NoneDemotes DEF Alike
    <3> QED  BY <3>1, <3>2
  <2> QED  BY <1>1, <1>2, <1>3, <2>1, KeptStays
<1>5. CASE GuardLastOwner(c) /\ Demoting(c)' /\ k.team = t
  <2>1. /\ Cardinality(Owners(t)) >= 2
        /\ Mark(t, IF \E d \in Clients : Demoting(d) /\ call[d].team = t
                   THEN {"together"} ELSE {})
    <3>1. ~Return(c)
      BY <1>1, <1>5, ReturnKeeps DEF Demoting, Busy
    <3> QED  BY <1>5, <3>1 DEF GuardLastOwner, Guard
  <2> SUFFICES ASSUME Unmarked(t)' PROVE (Guarded(t) /\ (Owners(t) # {} \/ Unfounded(t)))'
    BY DEF Kept
  <2>2. \A d \in Clients : ~(Demoting(d) /\ call[d].team = t)
    <3> SUFFICES ASSUME \E d \in Clients : Demoting(d) /\ call[d].team = t PROVE FALSE
      OBVIOUS
    <3>1. "together" \in marks'[t]
      BY <1>1, <2>1 DEF Mark, TypeOK
    <3> QED  BY <3>1 DEF Unmarked
  <2>3. \A d \in Clients : Demoting(d)' /\ (call[d].team = t)' => d = c
    BY <1>2, <2>2 DEF Demoting, Busy
  <2>4. \A i \in Ids : Another(t, i)
    BY <2>1, TwoOwners
  <2>5. call'[c].target \in Ids /\ Owners(t)' = Owners(t)
    BY <1>1, <1>2, <1>5 DEF Demoting, Busy, Alike, CallRecord, Owners
  <2>6. Guarded(t)'
    BY <2>3, <2>4, <2>5 DEF Guarded, Another
  <2> QED  BY <2>4, <2>5, <2>6 DEF Another
<1> QED  BY <1>4, <1>5

LEMMA WriteKept ==
  ASSUME IInv, NEW c \in Clients, Writes(c), NEW t \in Teams
  PROVE  Kept(t)'
<1> DEFINE k == call[c]
           i == k.target
<1>1. TypeOK /\ Kept(t) /\ Busy(c) /\ Frame(c) /\ k \in CallRecord /\ registry' = registry
      /\ ShapedCall(c)
  BY RowWritten, BusyIsRecord DEF IInv, Shaped
<1>2. \A d \in Clients : d # c => call'[d] = call[d]
  BY <1>1 DEF Frame
<1>3. call'[c] = Free \/ (Alike(call'[c], k) /\ call'[c].pc \in {"index", "unindex"})
  BY <1>1, RowWritten DEF Frame
<1>4. \A d \in Clients : Demoting(d)' => d # c /\ Demoting(d)
  BY <1>2, <1>3 DEF Demoting, Busy
<1>5. CASE k.team # t
  <2>1. Unfounded(t) => Unfounded(t)'
    BY <1>1, <1>2, <1>3, <1>5 DEF Frame, Unfounded, OnTeam, At, Busy, Members, Alike
  <2> QED  BY <1>1, <1>2, <1>4, <1>5, <2>1, KeptStays DEF Frame
<1>6. CASE k.team = t /\ roster' = roster /\ marks' = marks /\ call'[c] = Free
  <2>1. Unfounded(t) => Unfounded(t)'
    BY <1>1, <1>2, <1>6 DEF Unfounded, OnTeam, At, Busy, Members, registry
  <2> QED  BY <1>1, <1>2, <1>4, <1>6, <2>1, KeptStays
<1>7. CASE /\ k.team = t /\ roster'[t][i] = Wrote(c)
           /\ marks'[t] = marks[t] \cup Events(c, Wrote(c))
           /\ \A j \in Ids : j # i => roster'[t][j] = roster[t][j]
  <2> SUFFICES ASSUME Unmarked(t)' PROVE (Guarded(t) /\ (Owners(t) # {} \/ Unfounded(t)))'
    BY DEF Kept
  <2>1. Guarded(t) /\ (Owners(t) # {} \/ Unfounded(t))
    BY <1>1, <1>7 DEF Kept, Unmarked
  <2>2. i \in Ids /\ \A j \in Ids : j # i => (j \in Owners(t)' <=> j \in Owners(t))
    BY <1>1, <1>7 DEF Owners, CallRecord
  <2>3. i \in Owners(t)' <=> Wrote(c) = "owner"
    BY <1>7, <2>2 DEF Owners
  <2>4. i \in Owners(t) /\ Wrote(c) # "owner" => Demoting(c)
    BY <1>7 DEF Unmarked, Events, Owners
  <2>5. CASE Unfounded(t)
    <3>1. k.op = "create" /\ k.pc = "put" /\ k.role = "owner"
      BY <1>1, <1>7, <2>5 DEF Unfounded, OnTeam, At, ShapedCall
    <3>2. Wrote(c) = "owner"
      BY <3>1 DEF Wrote, Writes, RemoveRow, At
    <3>3. \A d \in Clients : ~(Demoting(d) /\ call[d].team = t)
      BY <2>5 DEF Unfounded, OnTeam, Demoting
    <3> QED  BY <1>2, <1>4, <2>3, <3>2, <3>3 DEF Guarded
  <2>6. CASE Owners(t) # {}
    <3>1. Demoting(c) /\ i \in Owners(t) => Another(t, i)
      BY <1>7, <2>1 DEF Guarded, Owners
    <3>2. Owners(t)' # {}
      BY <2>2, <2>3, <2>4, <2>6, <3>1 DEF Another, Owners
    <3>3. Guarded(t)'
      <4> SUFFICES ASSUME NEW d \in Clients, Demoting(d)', (call[d].team = t)'
                   PROVE  /\ \A e \in Clients : Demoting(e)' /\ (call[e].team = t)' => d = e
                          /\ roster'[t][call'[d].target] = "owner" => Another(t, call[d].target)'
        BY DEF Guarded
      <4>1. d # c /\ Demoting(d) /\ call'[d] = call[d] /\ call[d].team = t
        BY <1>2, <1>4
      <4>2. \A e \in Clients : Demoting(e)' /\ (call[e].team = t)' => d = e
        BY <1>2, <1>4, <2>1, <4>1 DEF Guarded
      <4>3. ~Demoting(c)
        BY <1>7, <2>1, <4>1 DEF Guarded
      <4>4. Owners(t) \subseteq Owners(t)'
        BY <2>2, <2>3, <2>4, <4>3 DEF Owners
      <4>5. Another(t, call[d].target)
        BY <2>1, <2>6, <4>1 DEF Guarded, Another, Owners
      <4> QED  BY <4>1, <4>2, <4>4, <4>5 DEF Another
    <3> QED  BY <3>2, <3>3
  <2> QED  BY <2>1, <2>5, <2>6
<1> QED  BY <1>5, <1>6, <1>7, RowWritten, <1>1

LEMMA InitInv == Init => IInv
<1> SUFFICES ASSUME Init PROVE IInv
  OBVIOUS
<1>1. \A c \in Clients : ~Busy(c)
  BY DEF Init, InitTeams, Busy
<1>2. Shaped
  BY <1>1 DEF Shaped, ShapedCall, At
<1>3. \A t \in Teams : Guarded(t) /\ Unfounded(t)
  BY <1>1 DEF Init, InitTeams, Guarded, Demoting, Unfounded, OnTeam, Members
<1> QED  BY <1>2, <1>3, InitTypes DEF IInv, Kept

LEMMA StepInv == IInv /\ [Next]_vars => IInv'
<1> SUFFICES ASSUME IInv, [Next]_vars PROVE IInv'
  OBVIOUS
<1>1. TypeOK'
  BY StepTypes DEF IInv
<1>2. CASE Next
  BY <1>1, <1>2, StepKinds, StepShape, StartKept, MoveKept, WriteKept, ElsewhereKept DEF IInv
<1>3. CASE UNCHANGED vars
  <2>1. Shaped'
    BY <1>3, ShapeStands DEF IInv, Shaped, vars
  <2>2. \A t \in Teams : Unfounded(t) => Unfounded(t)'
    BY <1>3 DEF vars, registry, Unfounded, OnTeam, At, Busy, Members
  <2>3. \A t \in Teams : Kept(t)'
    BY <1>3, <2>2, KeptStays DEF IInv, vars, Demoting, Busy
  <2> QED  BY <1>1, <2>1, <2>3 DEF IInv
<1> QED  BY <1>2, <1>3

\* A team on somebody's list keeps an Owner, whatever its calls do, however they
\* overlap and wherever they fail, but after two calls were past guardLastOwner
\* together, or one that was not at it took an Owner's role (SetMember,
\* RemoveMember, AcceptInvite).
THEOREM TeamKeepsOwner == Spec => []OwnerKept
<1>1. IInv => OwnerKept
  BY DEF IInv, Kept, Unmarked, Unfounded, OwnerKept
<1> QED  BY <1>1, InitInv, StepInv, PTL DEF Spec
-----------------------------------------------------------------------------
(* Who makes and takes Owners. *)

LEMMA AuthorityStands ==
  ASSUME NEW d \in Clients, AuthorizedCall(d), call'[d] = call[d]
  PROVE  AuthorizedCall(d)'
BY DEF AuthorizedCall, Busy

LEMMA FreeIsAuthorized == ASSUME NEW c \in Clients, call'[c] = Free PROVE AuthorizedCall(c)'
BY DEF AuthorizedCall, Busy

LEMMA MoveAuthority ==
  ASSUME TypeOK, Shaped, Authorized, NEW c \in Clients, Moves(c)
  PROVE  AuthorizedCall(c)'
<1> DEFINE k == call[c]
<1>1. Busy(c) /\ AuthorizedCall(c) /\ ShapedCall(c)
  BY MoveFrame DEF Authorized, Shaped
<1>2. CASE Return(c)
  BY <1>2, ReturnKeeps, FreeIsAuthorized
<1>3. CASE ReadTarget(c) /\ ~Return(c)
  <2>1. PICK had \in {roster[k.team][k.target], "none"} :
          /\ Alike(call'[c], k) /\ call'[c].sawOwner = (had = "owner")
          /\ k.op # "accept" => MayAlter(k, had)
    BY <1>3, ReadKeeps
  <2> QED  BY <1>1, <2>1 DEF AuthorizedCall, Busy, Alike, MayAlter
<1>4. CASE ~ReadTarget(c) /\ ~Return(c)
  <2>1. /\ Goto(c, "remove") \/ Goto(c, "put") \/ Goto(c, "store") \/ Goto(c, "forget")
        /\ k.pc # "target"
    BY <1>4 DEF Moves, GuardLastOwner, Guard, CheckSeatLimit, Seat, IndexTeamMember,
       UnindexTeamMember, StoreInvite, DeleteInvite, SoftDeleteTeam, Abandon, At
  <2>2. Alike(call'[c], k) /\ call'[c].sawOwner = k.sawOwner
    BY <1>1, <2>1, GotoKeeps DEF Pcs
  <2> QED  BY <1>1, <2>1, <2>2 DEF AuthorizedCall, Busy, Alike
<1> QED  BY <1>2, <1>3, <1>4

\* An invite is as its call was.
LEMMA InviteAuthority ==
  ASSUME TypeOK, Shaped, Authorized, NEW c \in Clients, Moves(c), NEW tok \in Tokens,
         invite'[tok] \notin {Unsent, Gone}, invite'[tok].role = "owner"
  PROVE  invite'[tok].byOwner
<1>1. CASE invite'[tok] = invite[tok]
  BY <1>1 DEF Authorized
<1>2. CASE invite'[tok] # invite[tok] /\ StoreInvite(c)
  <2>1. /\ call[c].op = "invite" /\ Busy(c)
        /\ invite'[tok].role = call[c].role /\ invite'[tok].byOwner = call[c].byOwner
    BY <1>2 DEF StoreInvite, TypeOK, Shaped, ShapedCall, At
  <2> QED  BY <2>1 DEF Authorized, AuthorizedCall
<1>3. CASE invite'[tok] # invite[tok] /\ DeleteInvite(c)
  BY <1>3 DEF DeleteInvite, TypeOK
<1> QED
  BY <1>1, <1>2, <1>3 DEF Moves, ReadTarget, GuardLastOwner, Guard, CheckSeatLimit, Seat,
     IndexTeamMember, UnindexTeamMember, SoftDeleteTeam, SoftDelete, Abandon, registry

LEMMA StepAuthority ==
  ASSUME TypeOK, Shaped, Authorized, [Next]_vars
  PROVE  Authorized'
<1>1. ASSUME NEW c \in Clients, Starts(c) PROVE Authorized'
  <2>1. PICK k \in CallRecord :
          /\ Start(c, k) /\ ~k.sawOwner /\ invite' = invite
          /\ \/ k.op \in {"set", "remove"} /\ k.pc = "target"
             \/ k.op = "invite" /\ (k.role = "owner" => k.byOwner)
             \/ k.op = "delete"
             \/ /\ k.op = "accept"
                /\ \E tok \in Tokens : /\ invite[tok] \notin {Unsent, Gone}
                                       /\ k.role = invite[tok].role
                                       /\ k.byOwner = invite[tok].byOwner
             \/ k.op = "create" /\ k.byOwner
    BY <1>1, Begins
  <2>2. call'[c] = k /\ \A d \in Clients : d # c => call'[d] = call[d]
    BY <2>1, StartKeeps
  <2>3. k.op = "accept" /\ k.role = "owner" => k.byOwner
    BY <2>1 DEF Authorized
  <2>4. AuthorizedCall(c)'
    BY <2>1, <2>2, <2>3 DEF AuthorizedCall
  <2> QED  BY <2>1, <2>2, <2>4, AuthorityStands DEF Authorized
<1>2. ASSUME NEW c \in Clients, Moves(c) PROVE Authorized'
  <2>1. \A d \in Clients : d # c => call'[d] = call[d]
    BY <1>2, MoveFrame DEF Frame
  <2> QED  BY <1>2, <2>1, MoveAuthority, InviteAuthority, AuthorityStands DEF Authorized
<1>3. ASSUME NEW c \in Clients, Writes(c) PROVE Authorized'
  <2>1. /\ Busy(c) /\ Frame(c) /\ invite' = invite
        /\ call'[c] = Free \/ call'[c].sawOwner = call[c].sawOwner
    BY <1>3, RowWritten DEF registry
  <2>2. call[c].pc # "target"
    BY <1>3 DEF Writes, PutMember, RemoveRow, At
  <2>3. AuthorizedCall(c)'
    BY <2>1, <2>2, FreeIsAuthorized DEF Authorized, AuthorizedCall, Frame, Alike, Busy
  <2> QED  BY <2>1, <2>3, AuthorityStands DEF Authorized, Frame
<1>4. ASSUME Elsewhere PROVE Authorized'
  <2>1. call' = call /\ \A tok \in Tokens : invite'[tok] \in {invite[tok], Gone}
    BY <1>4, ElsewhereFrame
  <2> QED  BY <2>1, AuthorityStands DEF Authorized
<1>5. CASE UNCHANGED vars
  BY <1>5, AuthorityStands DEF Authorized, vars, registry
<1> QED  BY <1>1, <1>2, <1>3, <1>4, <1>5, StepKinds

\* The part of OwnersByOwners under the box.
OwnersStep ==
  \A t \in Teams, c \in Clients :
    Busy(c) /\ call[c].team = t /\ call'[c] # call[c] =>
      /\ Owners(t)' \subseteq Owners(t) \/ call[c].byOwner
      /\ \/ Owners(t) \subseteq Owners(t)' \/ call[c].byOwner
         \/ call[c].op = "accept" \/ ~call[c].sawOwner

LEMMA StepOwners ==
  ASSUME TypeOK, Shaped, Authorized, Next
  PROVE  OwnersStep
<1> SUFFICES ASSUME NEW t \in Teams, NEW c \in Clients,
                    Busy(c), call[c].team = t, call'[c] # call[c], ~call[c].byOwner
             PROVE  /\ Owners(t)' \subseteq Owners(t)
                    /\ \/ Owners(t) \subseteq Owners(t)'
                       \/ call[c].op = "accept" \/ ~call[c].sawOwner
  BY DEF OwnersStep
<1> DEFINE k == call[c]
<1>1. CASE roster' = roster
  BY <1>1 DEF Owners
<1>2. CASE Writes(c)
  <2>1. /\ roster'[t][k.target] = Wrote(c)
        /\ \A i \in Ids : i # k.target => roster'[t][i] = roster[t][i]
    BY <1>2, RowWritten
  <2>2. ShapedCall(c) /\ AuthorizedCall(c)
    BY DEF Shaped, Authorized
  <2>3. CASE PutMember(c)
    <3>1. k.pc = "put" /\ k.op \in {"set", "accept", "create"} /\ Wrote(c) = k.role
      BY <2>2, <2>3 DEF PutMember, ShapedCall, At, Wrote
    <3>2. k.role # "owner" /\ (k.op = "accept" \/ ~k.sawOwner)
      BY <2>2, <3>1 DEF AuthorizedCall, ShapedCall
    <3> QED  BY <2>1, <3>1, <3>2 DEF Owners
  <2>4. CASE ~PutMember(c)
    <3>1. k.op = "remove" /\ Wrote(c) = "none"
      BY <1>2, <2>2, <2>4 DEF Writes, RemoveRow, ShapedCall, At, Wrote
    <3>2. ~k.sawOwner
      BY <2>2, <3>1 DEF AuthorizedCall
    <3> QED  BY <2>1, <3>1, <3>2 DEF Owners
  <2> QED  BY <2>3, <2>4
<1>3. ASSUME NEW d \in Clients, d # c, Writes(d) PROVE FALSE
  BY <1>3, RowWritten DEF Frame
<1>4. ASSUME NEW d \in Clients, Starts(d) \/ Moves(d) PROVE roster' = roster
  BY <1>4, Begins, MoveFrame
<1> QED  BY <1>1, <1>2, <1>3, <1>4, ElsewhereFrame, StepKinds

\* No call but an Owner's, and no invite but an Owner's, makes an Owner; and one
\* loses the role to an Owner's call, to his own acceptance of an invite, or to a
\* call that did not see him an Owner, whatever overlaps (the rules of SetMember,
\* RemoveMember and InviteMember, checked before the write).
THEOREM OwnersAlterOwners == Spec => OwnersByOwners
<1>1. Init => Authorized
  BY DEF Init, InitTeams, Authorized, AuthorizedCall, Busy
<1>2. IInv /\ Authorized /\ [Next]_vars => Authorized'
  BY StepAuthority DEF IInv
<1>3. IInv /\ Authorized /\ [Next]_vars => [OwnersStep]_vars
  BY StepOwners DEF IInv
<1>4. [OwnersStep]_vars =>
        [\A t \in Teams, c \in Clients :
           Busy(c) /\ call[c].team = t /\ call'[c] # call[c] =>
             /\ Owners(t)' \subseteq Owners(t) \/ call[c].byOwner
             /\ \/ Owners(t) \subseteq Owners(t)' \/ call[c].byOwner
                \/ call[c].op = "accept" \/ ~call[c].sawOwner]_vars
  BY DEF OwnersStep
<1> QED  BY <1>1, <1>2, <1>3, <1>4, InitInv, StepInv, PTL DEF Spec, OwnersByOwners
-----------------------------------------------------------------------------
(* The list of a team is who is in it. *)

\* A step that writes no row of t, lists nobody anew, and cuts no call short there.
LEMMA InStepStays ==
  ASSUME NEW t \in Teams, InStep(t), roster'[t] = roster[t], index'[t] = index[t],
         status'[t] # "deleted" => status[t] # "deleted", marks[t] \subseteq marks'[t],
         \A c \in Clients, i \in Ids : Between(c, t, i) <=> Between(c, t, i)',
         \A c \in Clients, i \in Ids : Between(c, t, i) => call'[c].pc = call[c].pc
  PROVE  InStep(t)'
<1>1. Members(t)' = Members(t)
  BY DEF Members
<1> SUFFICES ASSUME status'[t] # "deleted", "parted" \notin marks'[t], NEW i \in Ids
             PROVE  /\ ~(\E c \in Clients : Between(c, t, i)')
                         => (i \in index'[t] <=> i \in Members(t)')
                    /\ \A c \in Clients : Between(c, t, i)'
                         => (i \in Members(t)' <=> call'[c].pc = "index")
  BY DEF InStep
<1>2. status[t] # "deleted" /\ "parted" \notin marks[t]
  OBVIOUS
<1> QED  BY <1>1, <1>2 DEF InStep

LEMMA StartInStep ==
  ASSUME TypeOK, NEW c \in Clients, Starts(c), NEW t \in Teams, InStep(t)
  PROVE  InStep(t)'
<1>1. PICK k \in CallRecord :
        /\ Start(c, k) /\ roster' = roster /\ index' = index /\ marks' = marks
        /\ k.pc \notin {"index", "unindex"}
        /\ \/ status' = status
           \/ status[k.team] = "unused" /\ status' = [status EXCEPT ![k.team] = "new"]
  BY Begins
<1>2. /\ call[c] = Free /\ call'[c] = k
      /\ \A d \in Clients : d # c => call'[d] = call[d]
  BY <1>1, StartKeeps
<1>3. status'[t] # "deleted" => status[t] # "deleted"
  BY <1>1 DEF TypeOK
<1>4. /\ \A d \in Clients, i \in Ids : Between(d, t, i) <=> Between(d, t, i)'
      /\ \A d \in Clients, i \in Ids : Between(d, t, i) => call'[d].pc = call[d].pc
  BY <1>1, <1>2 DEF Between, Busy
<1> QED  BY <1>1, <1>3, <1>4, InStepStays

\* A step of a call on another team.
LEMMA InStepElsewhere ==
  ASSUME TypeOK, NEW c \in Clients, Busy(c), Frame(c),
         NEW t \in Teams, t # call[c].team, InStep(t)
  PROVE  InStep(t)'
<1>1. /\ \A d \in Clients, i \in Ids : Between(d, t, i) <=> Between(d, t, i)'
      /\ \A d \in Clients, i \in Ids : Between(d, t, i) => call'[d].pc = call[d].pc
  BY DEF Frame, Between, Busy, Alike
<1> QED  BY <1>1, InStepStays DEF Frame

\* The list follows the row.
LEMMA Listed ==
  ASSUME TypeOK, NEW c \in Clients, IndexTeamMember(c) \/ UnindexTeamMember(c),
         NEW t \in Teams, InStep(t), call[c].team = t
  PROVE  InStep(t)'
<1> DEFINE k == call[c]
           x == k.target
<1>1. /\ Busy(c) /\ roster' = roster /\ marks' = marks
      /\ status'[t] # "deleted" => status[t] # "deleted"
      /\ \A d \in Clients : d # c => call'[d] = call[d]
      /\ k \in CallRecord
  BY TableFrame, BusyIsRecord DEF Frame, IndexTeamMember, UnindexTeamMember, TypeOK
<1>2. call'[c] = Free \/ call'[c].pc = "forget"
  BY <1>1, ReturnKeeps, GotoKeeps DEF IndexTeamMember, UnindexTeamMember, Pcs
<1>3. Between(c, t, x) /\ x \in Ids
  BY <1>1 DEF Between, IndexTeamMember, UnindexTeamMember, At, CallRecord
<1>4. \A i \in Ids : /\ i # x => (i \in index'[t] <=> i \in index[t])
                     /\ x \in index'[t] <=> k.pc = "index"
  BY <1>1 DEF IndexTeamMember, UnindexTeamMember, At, TypeOK
<1>5. Members(t)' = Members(t)
  BY <1>1 DEF Members
<1>6. \A d \in Clients, i \in Ids : Between(d, t, i)' <=> d # c /\ Between(d, t, i)
  BY <1>1, <1>2 DEF Between, Busy
<1> SUFFICES ASSUME status'[t] # "deleted", "parted" \notin marks'[t], NEW i \in Ids
             PROVE  /\ ~(\E d \in Clients : Between(d, t, i)')
                         => (i \in index'[t] <=> i \in Members(t)')
                    /\ \A d \in Clients : Between(d, t, i)'
                         => (i \in Members(t)' <=> call'[d].pc = "index")
  BY DEF InStep
<1>7. /\ ~(\E d \in Clients : Between(d, t, i)) => (i \in index[t] <=> i \in Members(t))
      /\ \A d \in Clients : Between(d, t, i) => (i \in Members(t) <=> call[d].pc = "index")
  BY <1>1 DEF InStep
<1>8. CASE i = x
  BY <1>1, <1>3, <1>4, <1>5, <1>6, <1>7, <1>8
<1>9. CASE i # x
  <2>1. ~Between(c, t, i)
    BY <1>9 DEF Between
  <2> QED  BY <1>1, <1>4, <1>5, <1>6, <1>7, <1>9, <2>1
<1> QED  BY <1>8, <1>9

LEMMA MoveInStep ==
  ASSUME TypeOK, NEW c \in Clients, Moves(c), NEW t \in Teams, InStep(t)
  PROVE  InStep(t)'
<1> DEFINE k == call[c]
<1>1. Busy(c) /\ roster' = roster /\ Frame(c) /\ k \in CallRecord
  BY MoveFrame, BusyIsRecord
<1>2. CASE k.team # t
  BY <1>1, <1>2, InStepElsewhere
<1>3. CASE k.team = t /\ (IndexTeamMember(c) \/ UnindexTeamMember(c))
  BY <1>3, Listed
<1>4. CASE k.team = t /\ Abandon(c) /\ k.pc \in {"index", "unindex"}
  <2>1. "parted" \in marks'[t]
    BY <1>1, <1>4 DEF Abandon, Mark, TypeOK
  <2> QED  BY <2>1 DEF InStep
<1>5. CASE k.team = t /\ SoftDeleteTeam(c)
  <2>1. CASE status'[t] = "deleted"
    BY <2>1 DEF InStep
  <2>2. CASE status'[t] # "deleted"
    <3>1. status'[t] = status[t] /\ index'[t] = index[t] /\ k.pc = "delete" /\ call'[c] = Free
      BY <1>5, <2>2, ReturnKeeps DEF SoftDeleteTeam, SoftDelete, At, TypeOK
    <3>2. /\ \A d \in Clients, i \in Ids : Between(d, t, i) <=> Between(d, t, i)'
          /\ \A d \in Clients, i \in Ids : Between(d, t, i) => call'[d].pc = call[d].pc
      BY <1>1, <3>1 DEF Frame, Between, Busy
    <3> QED  BY <1>1, <3>1, <3>2, InStepStays DEF Frame
  <2> QED  BY <2>1, <2>2
<1>6. CASE /\ k.team = t
           /\ \/ ReadTarget(c) \/ GuardLastOwner(c) \/ CheckSeatLimit(c)
              \/ StoreInvite(c) \/ DeleteInvite(c)
              \/ Abandon(c) /\ k.pc \notin {"index", "unindex"}
  <2>1. status' = status /\ index' = index /\ k.pc \notin {"index", "unindex"}
    BY <1>6 DEF ReadTarget, GuardLastOwner, Guard, CheckSeatLimit, Seat, StoreInvite,
       DeleteInvite, Abandon, registry, At
  <2>2. call'[c] = Free \/ call'[c].pc \notin {"index", "unindex"}
    <3>1. CASE Return(c)
      BY <3>1, ReturnKeeps
    <3>2. CASE ReadTarget(c) /\ ~Return(c)
      <4>1. PICK had \in {roster[k.team][k.target], "none"} : call'[c].pc = AfterTarget(k, had)
        BY <3>2, ReadKeeps
      <4> QED  BY <4>1 DEF AfterTarget
    <3>3. CASE Goto(c, "remove") \/ Goto(c, "put") \/ Goto(c, "store")
      BY <1>1, <3>3, GotoKeeps DEF Pcs
    <3> QED
      BY <1>6, <3>1, <3>2, <3>3 DEF GuardLastOwner, Guard, CheckSeatLimit, Seat, StoreInvite,
         DeleteInvite, Abandon
  <2>3. /\ \A d \in Clients, i \in Ids : Between(d, t, i) <=> Between(d, t, i)'
        /\ \A d \in Clients, i \in Ids : Between(d, t, i) => call'[d].pc = call[d].pc
    BY <1>1, <2>1, <2>2 DEF Frame, Between, Busy
  <2> QED  BY <1>1, <2>1, <2>3, InStepStays DEF Frame
<1> QED  BY <1>2, <1>3, <1>4, <1>5, <1>6 DEF Moves

\* A row written unmarked is one no other call is about to list.
LEMMA WriteInStep ==
  ASSUME TypeOK, NEW c \in Clients, Writes(c), NEW t \in Teams, InStep(t)
  PROVE  InStep(t)'
<1> DEFINE k == call[c]
           x == k.target
<1>1. Busy(c) /\ Frame(c) /\ registry' = registry /\ k \in CallRecord
  BY RowWritten, BusyIsRecord
<1>2. \A d \in Clients : d # c => call'[d] = call[d]
  BY <1>1 DEF Frame
<1>3. k.pc \in {"put", "remove"} /\ x \in Ids
  BY <1>1 DEF Writes, PutMember, RemoveRow, At, CallRecord
<1>4. CASE k.team # t
  BY <1>1, <1>4, InStepElsewhere
<1>5. CASE k.team = t /\ roster' = roster /\ marks' = marks /\ call'[c] = Free
  <2>1. /\ \A d \in Clients, i \in Ids : Between(d, t, i) <=> Between(d, t, i)'
        /\ \A d \in Clients, i \in Ids : Between(d, t, i) => call'[d].pc = call[d].pc
    BY <1>2, <1>3, <1>5 DEF Between, Busy
  <2> QED  BY <1>1, <1>5, <2>1, InStepStays DEF registry
<1>6. CASE /\ k.team = t /\ roster'[t][x] = Wrote(c)
           /\ \A i \in Ids : i # x => roster'[t][i] = roster[t][i]
           /\ marks'[t] = marks[t] \cup Events(c, Wrote(c))
           /\ call'[c] \in CallRecord
           /\ call'[c].pc = IF PutMember(c) THEN "index" ELSE "unindex"
  <2> SUFFICES ASSUME status'[t] # "deleted", "parted" \notin marks'[t], NEW i \in Ids
               PROVE  /\ ~(\E d \in Clients : Between(d, t, i)')
                           => (i \in index'[t] <=> i \in Members(t)')
                      /\ \A d \in Clients : Between(d, t, i)'
                           => (i \in Members(t)' <=> call'[d].pc = "index")
    BY DEF InStep
  <2>1. status[t] # "deleted" /\ "parted" \notin marks[t] /\ index' = index
    BY <1>1, <1>6 DEF registry
  <2>2. \A d \in Clients : ~Between(d, t, x)
    BY <1>6 DEF Events
  <2>3. Busy(c)' /\ call'[c].team = t /\ call'[c].target = x
    BY <1>1, <1>6, RecordsAreBusy DEF Frame, Alike, Busy
  <2>4. CASE i = x
    <3>1. Between(c, t, x)'
      BY <1>6, <2>3 DEF Between
    <3>2. \A d \in Clients : Between(d, t, x)' => d = c
      BY <1>2, <2>2, <2>3 DEF Between, Busy
    <3>3. x \in Members(t)' <=> PutMember(c)
      BY <1>1, <1>3, <1>6, <2>3 DEF Members, Wrote, CallRecord, Roles
    <3> QED  BY <1>6, <2>3, <2>4, <3>1, <3>2, <3>3
  <2>5. CASE i # x
    <3>1. i \in Members(t)' <=> i \in Members(t)
      BY <1>6, <2>5 DEF Members
    <3>2. \A d \in Clients : Between(d, t, i)' <=> Between(d, t, i)
      BY <1>2, <1>3, <2>3, <2>5 DEF Between, Busy
    <3>3. \A d \in Clients : Between(d, t, i) => d # c
      BY <2>5 DEF Between
    <3> QED  BY <1>2, <2>1, <3>1, <3>2, <3>3 DEF InStep
  <2> QED  BY <2>4, <2>5
<1> QED  BY <1>4, <1>5, <1>6, RowWritten

LEMMA StepInStep ==
  ASSUME TypeOK, \A t \in Teams : InStep(t), [Next]_vars
  PROVE  \A t \in Teams : InStep(t)'
<1>1. ASSUME Elsewhere, NEW t \in Teams PROVE InStep(t)'
  <2>1. /\ call' = call /\ roster' = roster /\ marks' = marks
        /\ \/ index'[t] = index[t] /\ status'[t] = status[t]
           \/ status'[t] = "deleted"
    BY <1>1, ElsewhereFrame
  <2>2. CASE status'[t] = "deleted"
    BY <2>2 DEF InStep
  <2>3. CASE status'[t] # "deleted"
    BY <2>1, <2>3, InStepStays DEF Between, Busy
  <2> QED  BY <2>2, <2>3
<1>2. ASSUME UNCHANGED vars, NEW t \in Teams PROVE InStep(t)'
  BY <1>2, InStepStays DEF vars, registry, Between, Busy
<1> QED  BY <1>1, <1>2, StepKinds, StartInStep, MoveInStep, WriteInStep

\* The registry lists a live team for a person when he is in its roster and only
\* then, whatever calls do about others and wherever they fail; but not while a
\* call is between the two with him, nor once one was cut short there or two
\* crossed on a row (SetMember, RemoveMember, AcceptInvite, CreateTeam).
THEOREM ListIsRoster == Spec => []ListedAreMembers
<1> DEFINE ListInv == TypeOK /\ \A t \in Teams : InStep(t)
<1>1. Init => ListInv
  BY InitTypes DEF Init, InitTeams, InStep, Members, Between, Busy
<1>2. ListInv /\ [Next]_vars => ListInv'
  BY StepTypes, StepInStep
<1>3. ListInv => ListedAreMembers
  BY DEF InStep, ListedAreMembers
<1> QED  BY <1>1, <1>2, <1>3, PTL DEF Spec
-----------------------------------------------------------------------------
(* The seats.  A call has a place in its team from when it has counted a free  *)
(* seat, when there are at most as many others as calls, or after it has seen  *)
(* its target among the members; what it saw may be over when it writes, but   *)
(* no write makes new places.                                                  *)

LEMMA PlacesAreFinite ==
  ASSUME TypeOK, NEW t \in Teams
  PROVE  /\ Places(t) \subseteq Ids /\ IsFiniteSet(Places(t)) /\ IsFiniteSet(Members(t))
         /\ Cardinality(Places(t)) \in Nat /\ Cardinality(Members(t)) \in Nat
         /\ Cardinality(Clients) \in Nat
<1>1. Places(t) \subseteq Ids /\ Members(t) \subseteq Ids
  BY BusyIsRecord DEF Places, Members, Adding, OnTeam, CallRecord
<1> QED  BY <1>1, ClientsAssumption, FS_Subset, FS_CardinalityType

LEMMA FewStay ==
  ASSUME TypeOK, TypeOK', NEW t \in Teams, Few(t), Places(t)' \subseteq Places(t)
  PROVE  Few(t)'
<1>1. PICK n \in SeatLimits \cup {1} : Cardinality(Places(t)) < n + Cardinality(Clients)
  BY DEF Few
<1>2. Cardinality(Places(t)') <= Cardinality(Places(t))
  BY PlacesAreFinite, FS_Subset
<1>3. Cardinality(Places(t)') \in Nat
  <2>1. IsFiniteSet(Places(t)')
    BY PlacesAreFinite, FS_Subset
  <2> QED  BY <2>1, FS_CardinalityType
<1>4. Cardinality(Places(t)') < n + Cardinality(Clients)
  BY <1>1, <1>2, <1>3, PlacesAreFinite
<1> QED  BY <1>4 DEF Few

\* A call has counted a free seat.
LEMMA FewCounted ==
  ASSUME TypeOK, TypeOK', NEW t \in Teams, Members(t)' = Members(t),
         NEW n \in SeatLimits \cup {1}, Cardinality(Members(t)) < n
  PROVE  Few(t)'
<1> DEFINE A == Adding(t)'
           T == {call[c].target : c \in Adding(t)}'
           h == [c \in A |-> call'[c].target]
           M == Members(t)
<1>1. Places(t)' = M \cup T
  BY DEF Places
<1>2. IsFiniteSet(A) /\ Cardinality(A) <= Cardinality(Clients)
  BY ClientsAssumption, FS_Subset DEF Adding
<1>3. h \in Surjection(A, T)
  BY DEF Surjection
<1> HIDE DEF A, T, h
<1>4. IsFiniteSet(T) /\ Cardinality(T) <= Cardinality(A)
  BY <1>2, <1>3, FS_Surjection
<1>5. IsFiniteSet(M) /\ Cardinality(M) \in Nat /\ Cardinality(Clients) \in Nat
  BY PlacesAreFinite
<1> HIDE DEF M
<1>6. Cardinality(M \cup T) = Cardinality(M) + Cardinality(T) - Cardinality(M \cap T)
  BY <1>4, <1>5, FS_Union
<1>7. Cardinality(A) \in Nat /\ Cardinality(T) \in Nat /\ Cardinality(M \cap T) \in Nat
  <2>1. IsFiniteSet(M \cap T)
    BY <1>4, FS_Subset
  <2> QED  BY <1>2, <1>4, <2>1, FS_CardinalityType
<1>8. Cardinality(M) < n
  BY DEF M
<1>9. Cardinality(M \cup T) < n + Cardinality(Clients)
  BY <1>2, <1>4, <1>5, <1>6, <1>7, <1>8
<1>10. Cardinality(Places(t)') < n + Cardinality(Clients)
  BY <1>1, <1>9
<1> QED  BY <1>10 DEF Few

\* What a step may do to the seats of a team, so that they stay few enough.
LEMMA SeatedStays ==
  ASSUME TypeOK, TypeOK', NEW t \in Teams, Seated(t),
         seats'[t] \in SeatLimits \cup {1}, marks[t] \subseteq marks'[t],
         Present(t)' => Present(t),
         status'[t] = "unused" => Members(t)' = {} /\ \A c \in Clients : ~OnTeam(c, t)',
         \/ "unseated" \in marks'[t] \/ Places(t)' \subseteq Places(t)
         \/ /\ Members(t)' = Members(t)
            /\ Present(t) => Cardinality(Members(t)) < seats[t]
  PROVE  Seated(t)'
<1>1. ASSUME Present(t)', "unseated" \notin marks'[t] PROVE Few(t)'
  <2>1. Present(t) /\ Few(t) /\ seats[t] \in SeatLimits \cup {1}
    BY <1>1 DEF Seated
  <2> QED  BY <1>1, <2>1, FewStay, FewCounted
<1> QED  BY <1>1 DEF Seated

\* A step of c makes no places but its own.
LEMMA NoNewPlaces ==
  ASSUME NEW c \in Clients, NEW t \in Teams, Members(t)' \subseteq Places(t),
         \A d \in Clients : d # c => call'[d] = call[d],
         OnTeam(c, t)' /\ call'[c].pc \in {"owners", "put"} => call'[c].target \in Places(t)
  PROVE  Places(t)' \subseteq Places(t)
<1> SUFFICES ASSUME NEW d \in Adding(t)' PROVE call'[d].target \in Places(t)
  BY DEF Places
<1>1. CASE d = c
  BY <1>1 DEF Adding
<1>2. CASE d # c
  BY <1>2 DEF Adding, Places, OnTeam, Busy
<1> QED  BY <1>1, <1>2

LEMMA StartSeated ==
  ASSUME TypeOK, TypeOK', NEW c \in Clients, Starts(c), NEW t \in Teams, Seated(t)
  PROVE  Seated(t)'
<1>1. PICK k \in CallRecord :
        /\ Start(c, k) /\ roster' = roster /\ seats' = seats /\ marks' = marks
        /\ \/ status[k.team] = "live" /\ status' = status /\ k.pc \notin {"owners", "put"}
           \/ status[k.team] = "unused" /\ status' = [status EXCEPT ![k.team] = "new"]
  BY Begins
<1>2. /\ call'[c] = k /\ k.team \in Teams
      /\ \A d \in Clients : d # c => call'[d] = call[d]
  BY <1>1, StartKeeps DEF CallRecord
<1>3. Members(t)' = Members(t) /\ seats'[t] \in SeatLimits \cup {1}
  BY <1>1 DEF Members, Seated
<1>4. CASE t = k.team /\ status[t] = "unused"
  <2>1. Members(t) = {} /\ Cardinality(Members(t)) < 1
    BY <1>4, FS_EmptySet DEF Seated
  <2>2. Few(t)'
    BY <1>3, <2>1, FewCounted
  <2>3. status'[t] = "new"
    BY <1>1, <1>4 DEF TypeOK
  <2> QED  BY <1>3, <2>2, <2>3 DEF Seated
<1>5. CASE ~(t = k.team /\ status[t] = "unused")
  <2>1. status'[t] = status[t] /\ (status[t] = "unused" => t # k.team)
    BY <1>1, <1>2, <1>5 DEF TypeOK
  <2>2. ~(OnTeam(c, t)' /\ call'[c].pc \in {"owners", "put"})
    BY <1>1, <1>2, <1>5 DEF OnTeam
  <2>3. Places(t)' \subseteq Places(t)
    BY <1>2, <1>3, <2>2, NoNewPlaces DEF Places
  <2>4. status'[t] = "unused" => Members(t)' = {} /\ \A d \in Clients : ~OnTeam(d, t)'
    BY <1>2, <1>3, <2>1 DEF Seated, OnTeam, Busy
  <2> QED  BY <1>1, <1>3, <2>1, <2>3, <2>4, SeatedStays DEF Present
<1> QED  BY <1>4, <1>5

\* A step of a call on another team.
LEMMA SeatedElsewhere ==
  ASSUME TypeOK, TypeOK', NEW c \in Clients, Busy(c), Frame(c),
         NEW t \in Teams, t # call[c].team, Seated(t)
  PROVE  Seated(t)'
<1>1. Members(t)' = Members(t) /\ \A d \in Clients : OnTeam(d, t)' <=> OnTeam(d, t)
  BY DEF Frame, Members, OnTeam, Busy, Alike
<1>2. ~OnTeam(c, t)' /\ \A d \in Clients : d # c => call'[d] = call[d]
  BY <1>1 DEF OnTeam, Frame
<1>3. Places(t)' \subseteq Places(t)
  BY <1>1, <1>2, NoNewPlaces DEF Places
<1> QED  BY <1>1, <1>3, SeatedStays DEF Frame, Seated, Present

\* A call that goes on has seen its target in its place, or a free seat.
LEMMA MovesOn ==
  ASSUME TypeOK, NEW c \in Clients, Moves(c), Busy(c)', call'[c].pc \in {"owners", "put"},
         NEW t \in Teams, call[c].team = t
  PROVE  \/ call[c].target \in Places(t) \/ "unseated" \in marks'[t]
         \/ Present(t) => Cardinality(Members(t)) < seats[t]
<1> DEFINE k == call[c]
<1>1. Busy(c) /\ k \in CallRecord /\ ~Return(c)
  BY MoveFrame, BusyIsRecord, ReturnKeeps DEF Busy
<1>2. CASE ReadTarget(c)
  <2>1. PICK had \in {roster[k.team][k.target], "none"} : call'[c].pc = AfterTarget(k, had)
    BY <1>1, <1>2, ReadKeeps
  <2>2. had # "none"
    BY <2>1 DEF AfterTarget
  <2> QED  BY <1>1, <2>1, <2>2 DEF Places, Members, CallRecord
<1>3. CASE GuardLastOwner(c)
  BY <1>1, <1>3 DEF GuardLastOwner, Guard, At, Places, Adding, OnTeam
<1>4. CASE CheckSeatLimit(c)
  <2> DEFINE full == Present(t) /\ Cardinality(Members(t)) >= seats[t]
  <2>1. /\ Goto(c, IF k.op = "invite" THEN "store" ELSE "put")
        /\ Mark(t, IF full /\ k.op # "invite" THEN {"unseated"} ELSE {})
    BY <1>1, <1>4 DEF CheckSeatLimit, Seat
  <2>2. k.op # "invite"
    BY <1>1, <2>1, GotoKeeps DEF Pcs
  <2>3. full => "unseated" \in marks'[t]
    BY <2>1, <2>2 DEF Mark, TypeOK
  <2>4. Present(t) /\ ~full => Cardinality(Members(t)) < seats[t]
    BY PlacesAreFinite DEF TypeOK
  <2> QED  BY <2>3, <2>4
<1>5. CASE IndexTeamMember(c)
  <2>1. Goto(c, "forget")
    BY <1>1, <1>5 DEF IndexTeamMember
  <2> QED  BY <1>1, <2>1, GotoKeeps DEF Pcs
<1> QED
  BY <1>1, <1>2, <1>3, <1>4, <1>5 DEF Moves, UnindexTeamMember, StoreInvite, DeleteInvite,
     SoftDeleteTeam, Abandon

\* What a step of a call does to its team's registry row.
LEMMA RowAges ==
  ASSUME TypeOK, NEW c \in Clients, Moves(c), NEW t \in Teams, call[c].team = t,
         status[t] # "unused"
  PROVE  (Present(t)' => Present(t)) /\ status'[t] # "unused"
<1>1. CASE SoftDeleteTeam(c)
  BY <1>1 DEF SoftDeleteTeam, SoftDelete, TypeOK, Present
<1>2. CASE IndexTeamMember(c)
  BY <1>2 DEF IndexTeamMember, TypeOK, Present
<1>3. CASE ~SoftDeleteTeam(c) /\ ~IndexTeamMember(c)
  <2>1. status' = status
    BY <1>3 DEF Moves, ReadTarget, GuardLastOwner, Guard, CheckSeatLimit, Seat,
       UnindexTeamMember, StoreInvite, DeleteInvite, Abandon, registry
  <2> QED  BY <2>1 DEF Present
<1> QED  BY <1>1, <1>2, <1>3

LEMMA MoveSeated ==
  ASSUME TypeOK, TypeOK', NEW c \in Clients, Moves(c), NEW t \in Teams, Seated(t)
  PROVE  Seated(t)'
<1>1. Busy(c) /\ roster' = roster /\ Frame(c)
  BY MoveFrame
<1>2. CASE call[c].team # t
  BY <1>1, <1>2, SeatedElsewhere
<1>3. CASE call[c].team = t
  <2>1. status[t] # "unused"
    BY <1>1, <1>3 DEF Seated, OnTeam
  <2>2. (Present(t)' => Present(t)) /\ status'[t] # "unused"
    BY <1>3, <2>1, RowAges
  <2>3. Members(t)' = Members(t) /\ Members(t)' \subseteq Places(t)
    BY <1>1 DEF Members, Places
  <2>4. /\ call'[c] = Free \/ call'[c].target = call[c].target
        /\ \A d \in Clients : d # c => call'[d] = call[d]
    BY <1>1 DEF Frame, Alike
  <2>5. \/ "unseated" \in marks'[t] \/ Places(t)' \subseteq Places(t)
        \/ Present(t) => Cardinality(Members(t)) < seats[t]
    BY <1>3, <2>3, <2>4, MovesOn, NoNewPlaces DEF OnTeam, Busy
  <2> QED  BY <1>1, <2>2, <2>3, <2>5, SeatedStays DEF Frame, Seated
<1> QED  BY <1>2, <1>3

LEMMA WriteSeated ==
  ASSUME TypeOK, TypeOK', NEW c \in Clients, Writes(c), NEW t \in Teams, Seated(t)
  PROVE  Seated(t)'
<1> DEFINE k == call[c]
<1>1. Busy(c) /\ Frame(c) /\ registry' = registry /\ k \in CallRecord
  BY RowWritten, BusyIsRecord
<1>2. CASE k.team # t
  BY <1>1, <1>2, SeatedElsewhere
<1>3. CASE k.team = t
  <2>1. /\ roster'[t][k.target] = Wrote(c)
        /\ \A i \in Ids : i # k.target => roster'[t][i] = roster[t][i]
    BY <1>3, RowWritten
  <2>2. ~PutMember(c) => Wrote(c) = "none"
    BY DEF Wrote
  <2>3. PutMember(c) => k.target \in Places(t)
    BY <1>3 DEF PutMember, At, Places, Adding, OnTeam
  <2>4. Members(t)' \subseteq Places(t)
    BY <2>1, <2>2, <2>3 DEF Members, Places
  <2>5. ~(OnTeam(c, t)' /\ call'[c].pc \in {"owners", "put"})
    BY RowWritten DEF OnTeam, Busy
  <2>6. Places(t)' \subseteq Places(t)
    BY <1>1, <2>4, <2>5, NoNewPlaces DEF Frame
  <2>7. status[t] # "unused"
    BY <1>1, <1>3 DEF Seated, OnTeam
  <2> QED  BY <1>1, <2>6, <2>7, SeatedStays DEF Frame, Seated, registry, Present
<1> QED  BY <1>2, <1>3

LEMMA ElsewhereSeated ==
  ASSUME TypeOK, TypeOK', Elsewhere, NEW t \in Teams, Seated(t)
  PROVE  Seated(t)'
<1>1. /\ call' = call /\ roster' = roster /\ marks' = marks
      /\ \/ status'[t] = status[t]
         \/ Present(t) /\ status'[t] = "deleted"
  BY ElsewhereFrame
<1>2. seats'[t] \in SeatLimits \cup {1}
  <2>1. ASSUME NEW u \in Teams, NEW n \in SeatLimits, SetTeamPlan(u, n)
        PROVE  seats'[t] \in SeatLimits \cup {1}
    BY <2>1 DEF SetTeamPlan, Seated, TypeOK
  <2>2. CASE seats' = seats
    BY <2>2 DEF Seated
  <2> QED
    BY <2>1, <2>2 DEF Elsewhere, SignUp, InviteExpires, AdminDeleteTeam, SoftDelete
<1>3. /\ Members(t)' = Members(t) /\ Places(t)' = Places(t)
      /\ \A c \in Clients : OnTeam(c, t)' <=> OnTeam(c, t)
  BY <1>1 DEF Members, Places, Adding, OnTeam, Busy
<1> QED  BY <1>1, <1>2, <1>3, SeatedStays DEF Seated, Present

LEMMA StepSeated ==
  ASSUME TypeOK, AllSeated, [Next]_vars
  PROVE  AllSeated'
<1>1. TypeOK'
  BY StepTypes
<1>2. CASE Next
  BY <1>1, <1>2, StepKinds, StartSeated, MoveSeated, WriteSeated, ElsewhereSeated DEF AllSeated
<1>3. CASE UNCHANGED vars
  BY <1>3 DEF vars, registry, AllSeated, Seated, Members, OnTeam, Busy, Present, Few, Places, Adding
<1> QED  BY <1>2, <1>3

\* Calls that overlap pass checkSeatLimit together (SetMember, AcceptInvite), but a
\* team never has as many members beyond the largest limit as there are calls at
\* once, whatever plans are set, calls are cut short and rows are removed meanwhile;
\* unless a call did not find a full team's row and went on.
THEOREM SeatOvershootIsBounded == Spec => []SeatsOvershootBounded
<1>1. TypeOK /\ AllSeated => SeatsOvershootBounded
  <2> SUFFICES ASSUME TypeOK, AllSeated, NEW t \in Teams, Present(t), "unseated" \notin marks[t]
               PROVE  \E n \in SeatLimits \cup {1} :
                        Cardinality(Members(t)) < n + Cardinality(Clients)
    BY DEF SeatsOvershootBounded
  <2>1. PICK n \in SeatLimits \cup {1} : Cardinality(Places(t)) < n + Cardinality(Clients)
    BY DEF AllSeated, Seated, Few
  <2>2. Cardinality(Members(t)) <= Cardinality(Places(t))
    BY PlacesAreFinite, FS_Subset DEF Places
  <2> QED  BY <2>1, <2>2, PlacesAreFinite
<1>2. Init => AllSeated
  BY DEF Init, InitTeams, AllSeated, Seated, Members, OnTeam, Busy, Present
<1>3. TypeOK /\ AllSeated /\ [Next]_vars => TypeOK' /\ AllSeated'
  BY StepTypes, StepSeated
<1> QED  BY <1>1, <1>2, <1>3, InitTypes, PTL DEF Spec
=============================================================================
