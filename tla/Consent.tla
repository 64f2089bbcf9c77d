------------------------------- MODULE Consent -------------------------------
(***************************************************************************)
(* The OAuth consent flow of src/internal/api/oauth_handlers.go over the   *)
(* accounts of Accounts and the registry's clients, tickets, codes and     *)
(* grants.  A request is a sequence of statements; requests, and what      *)
(* happens to the accounts, interleave between them.                       *)
(*                                                                         *)
(* A redirect URI stands for the URIs redirectURIAllowed takes it for.  A  *)
(* code's challenge stands for whether the verifier fits.  Membership is   *)
(* that of Membership between its calls: the registry lists whom the team  *)
(* file does, and the file lists somebody.  Request state, names and pages *)
(* are left out.                                                           *)
(***************************************************************************)
EXTENDS Accounts

CONSTANTS Clients,   \* OAuth client ids
          Uris,      \* redirect URIs
          UriLists,  \* the lists of them a client registers
          Teams, Personal,
          Bogus,     \* any other workspace id a form may carry
          Tickets, Codes, Grants,  \* (bounds: consents under way, codes, grants ever)
          Flows      \* requests that may be under way at once

Workspaces == Teams \cup {Personal}

\* A workspace ticket, and a code with (history) the ticket it was bought with.
Ticket == [id : Ids, client : Clients, uri : Uris, offered : SUBSET Workspaces]
Code   == [id : Ids, client : Clients, team : Workspaces, ticket : Tickets \cup {None},
           live : BOOLEAN]

\* A grant and (history) its code; a legacy one owns a hidden identity.
Grant  == [id : Ids, client : Clients, team : Workspaces, legacy : BOOLEAN,
           revoked : BOOLEAN, code : Codes \cup {None}]

VARIABLES
  uris,     \* uris[x]: the redirect_uris of client x, {} before it registers
  member,   \* the pairs <<identity, team>> of members
  ticket,   \* ticket[k]: a Ticket, Unused, or Ended (taken, or past its time)
  code,     \* code[k]: a Code, live until it is taken or past its time, or Unused
  grant,    \* grant[g]: a Grant or Unused
  flow,     \* flow[f]: the request under way, or Free
  shown     \* (history) what logins were offered: <<identity, client, workspace>>

consent == <<uris, member, ticket, code, grant, flow, shown>>
all     == <<vars, consent>>

\* moved: (history) the client registered again after its URI was last checked.
FlowRecord ==
  [pc : {"password", "confirmed", "workspaces", "recheck", "storeCode",
         "resolve", "member", "mint"},
   id : Ids \cup {None}, client : Clients, uri : Uris \cup {None},
   team : Workspaces, ticket : Tickets \cup {None}, code : Codes \cup {None},
   moved : BOOLEAN]

FlowAt(f, pc) == flow[f] # Free /\ flow[f].pc = pc

ConsentInit ==
  /\ uris = [x \in Clients |-> {}]
  /\ member = {}
  /\ ticket = [k \in Tickets |-> Unused]
  /\ code = [k \in Codes |-> Unused]
  /\ grant = [g \in Grants |-> Unused]
  /\ flow = [f \in Flows |-> Free]
  /\ shown = {}

GotoFlow(f, pc) == flow' = [flow EXCEPT ![f].pc = pc]
EndFlow(f)      == flow' = [flow EXCEPT ![f] = Free]
-----------------------------------------------------------------------------
(* Clients and members. *)

\* handleOAuthRegister: registering again replaces the URIs.
Register(x, us) ==
  /\ us # {} /\ us \subseteq Uris
  /\ uris' = [uris EXCEPT ![x] = us]
  /\ flow' = [f \in Flows |->
               IF FlowAt(f, "storeCode") /\ flow[f].client = x
               THEN [flow[f] EXCEPT !.moved = TRUE] ELSE flow[f]]
  /\ UNCHANGED <<member, ticket, code, grant, shown>>

\* Somebody joins a team, or leaves it.
Join(i, t) ==
  /\ Present(i)
  /\ member' = member \cup {<<i, t>>}
  /\ UNCHANGED <<uris, ticket, code, grant, flow, shown>>

Leave(i, t) ==
  /\ member' = member \ {<<i, t>>}
  /\ UNCHANGED <<uris, ticket, code, grant, flow, shown>>
-----------------------------------------------------------------------------
(* POST /authorize. *)

\* checkRedirectURI: an unregistered client has no URIs.
Registered(x, u) == u \in uris[x]

AuthorizeSubmit(f) ==
  \E x \in Clients, u \in Uris :
    /\ flow[f] = Free /\ Registered(x, u)
    /\ flow' = [flow EXCEPT ![f] =
                  [pc |-> "password", id |-> None, client |-> x, uri |-> u,
                   team |-> Personal, ticket |-> None, code |-> None, moved |-> FALSE]]
    /\ UNCHANGED <<uris, member, ticket, code, grant, shown>>

\* AuthenticatePassword: the right password of somebody, or an error.
AuthorizePassword(f) ==
  /\ FlowAt(f, "password")
  /\ \/ EndFlow(f)
     \/ \E i \in Ids, p \in Passwords :
          /\ Present(i) /\ row[i].email # None /\ row[i].password = p
          /\ flow' = [flow EXCEPT ![f].id = i, ![f].pc = "confirmed"]
  /\ UNCHANGED <<uris, member, ticket, code, grant, shown>>

AuthorizeConfirmed(f) ==
  LET i == flow[f].id IN
  /\ FlowAt(f, "confirmed")
  /\ IF Present(i) /\ row[i].confirmed THEN GotoFlow(f, "workspaces") ELSE EndFlow(f)
  /\ UNCHANGED <<uris, member, ticket, code, grant, shown>>

\* workspacesFor: the personal memory first; nothing if the account has gone.
Offered(i) ==
  IF Present(i) THEN {Personal} \cup {t \in Teams : <<i, t>> \in member} ELSE {}

\* Nothing to choose: on to the code.  Otherwise a ticket for the next request.
AuthorizeWorkspaces(f) ==
  LET k == flow[f]
      few == Offered(k.id) \subseteq {Personal}
      seen == IF few THEN {Personal} ELSE Offered(k.id)
  IN  /\ FlowAt(f, "workspaces")
      /\ shown' = shown \cup {<<k.id, k.client, w>> : w \in seen}
      /\ IF few THEN GotoFlow(f, "recheck") /\ UNCHANGED ticket
         ELSE \E n \in Tickets :
                /\ ticket[n] = Unused
                /\ ticket' = [ticket EXCEPT ![n] = [id |-> k.id, client |-> k.client,
                                                    uri |-> k.uri, offered |-> seen]]
                /\ EndFlow(f)
      /\ UNCHANGED <<uris, member, code, grant>>

\* faulty variant: the ticket stays for another choice
Workspace_Keep(f) ==
  \E n \in Tickets, w \in Workspaces \cup {Bogus} :
    /\ flow[f] = Free /\ ticket[n] \notin {Unused, Ended}
    /\ w \in ticket[n].offered
    /\ flow' = [flow EXCEPT ![f] =
                  [pc |-> "recheck", id |-> ticket[n].id, client |-> ticket[n].client,
                   uri |-> ticket[n].uri, team |-> w, ticket |-> n, code |-> None,
                   moved |-> FALSE]]
    /\ UNCHANGED <<uris, member, ticket, code, grant, shown>>

\* faulty variant: whatever the form says is taken for offered
Workspace_Any(f) ==
  \E n \in Tickets, w \in Workspaces \cup {Bogus} :
    /\ flow[f] = Free /\ ticket[n] \notin {Unused, Ended}
    /\ ticket' = [ticket EXCEPT ![n] = Ended]
    /\ flow' = [flow EXCEPT ![f] =
                  [pc |-> "recheck", id |-> ticket[n].id, client |-> ticket[n].client,
                   uri |-> ticket[n].uri, team |-> w, ticket |-> n, code |-> None,
                   moved |-> FALSE]]
    /\ UNCHANGED <<uris, member, code, grant, shown>>

\* POST /authorize/workspace: the ticket is taken whether or not w was offered.
Workspace(f) ==
  \E n \in Tickets, w \in Workspaces \cup {Bogus} :
    /\ flow[f] = Free /\ ticket[n] \notin {Unused, Ended}
    /\ ticket' = [ticket EXCEPT ![n] = Ended]
    /\ IF w \in ticket[n].offered
       THEN flow' = [flow EXCEPT ![f] =
                       [pc |-> "recheck", id |-> ticket[n].id,
                        client |-> ticket[n].client, uri |-> ticket[n].uri, team |-> w,
                        ticket |-> n, code |-> None, moved |-> FALSE]]
       ELSE UNCHANGED flow
    /\ UNCHANGED <<uris, member, code, grant, shown>>

\* faulty variant: what was checked when the password was asked for is good enough
Recheck_Skip(f) ==
  /\ FlowAt(f, "recheck")
  /\ GotoFlow(f, "storeCode")
  /\ UNCHANGED <<uris, member, ticket, code, grant, shown>>

\* finishAuthorize asks again where the client may be sent ...
Recheck(f) ==
  /\ FlowAt(f, "recheck")
  /\ IF Registered(flow[f].client, flow[f].uri) THEN GotoFlow(f, "storeCode")
     ELSE EndFlow(f)
  /\ UNCHANGED <<uris, member, ticket, code, grant, shown>>

\* ... and sends it a code.
StoreOAuthCode(f) ==
  LET k == flow[f] IN
  /\ FlowAt(f, "storeCode")
  /\ \E n \in Codes :
       /\ code[n] = Unused
       /\ code' = [code EXCEPT ![n] = [id |-> k.id, client |-> k.client, team |-> k.team,
                                       ticket |-> k.ticket, live |-> TRUE]]
  /\ EndFlow(f)
  /\ UNCHANGED <<uris, member, ticket, grant, shown>>
-----------------------------------------------------------------------------
(* POST /token. *)

Live(n) == code[n] # Unused /\ code[n].live

\* The code is gone from the table, be the verifier right or wrong.
TakeOAuthCode(f) ==
  \E n \in Codes, right \in BOOLEAN :
    /\ flow[f] = Free /\ Live(n)
    /\ code' = [code EXCEPT ![n].live = FALSE]
    /\ IF right
       THEN flow' = [flow EXCEPT ![f] =
                       [pc |-> "resolve", id |-> code[n].id, client |-> code[n].client,
                        uri |-> None, team |-> code[n].team, ticket |-> None, code |-> n,
                        moved |-> FALSE]]
       ELSE UNCHANGED flow
    /\ UNCHANGED <<uris, member, ticket, grant, shown>>

\* MintGrantByID resolves the account, then the membership of a team ...
ResolveOwner(f) ==
  /\ FlowAt(f, "resolve")
  /\ IF Present(flow[f].id)
     THEN GotoFlow(f, IF flow[f].team = Personal THEN "mint" ELSE "member")
     ELSE EndFlow(f)
  /\ UNCHANGED <<uris, member, ticket, code, grant, shown>>

AssertMemberOfTeam(f) ==
  /\ FlowAt(f, "member")
  /\ IF <<flow[f].id, flow[f].team>> \in member THEN GotoFlow(f, "mint") ELSE EndFlow(f)
  /\ UNCHANGED <<uris, member, ticket, code, grant, shown>>

\* ... and inserts the grant.
MintDelegatedGrant(f) ==
  LET k == flow[f] IN
  /\ FlowAt(f, "mint")
  /\ \E g \in Grants :
       /\ grant[g] = Unused
       /\ grant' = [grant EXCEPT ![g] = [id |-> k.id, client |-> k.client, team |-> k.team,
                                         legacy |-> FALSE, revoked |-> FALSE,
                                         code |-> k.code]]
  /\ EndFlow(f)
  /\ UNCHANGED <<uris, member, ticket, code, shown>>

\* MintGrant: a hidden identity and its grant, in one transaction.
MintGrant ==
  \E g \in Grants, i \in Ids, x \in Clients :
    /\ Insert(i, None, None, FALSE, "grant")
    /\ grant[g] = Unused
    /\ grant' = [grant EXCEPT ![g] = [id |-> i, client |-> x, team |-> Personal,
                                      legacy |-> TRUE, revoked |-> FALSE, code |-> None]]
    /\ UNCHANGED <<session, issued, redeemed, call>>
    /\ UNCHANGED <<uris, member, ticket, code, flow, shown>>

\* faulty variant: the identity is deleted whoever it is
RevokeGrant_Owner(g) ==
  /\ grant[g] # Unused /\ ~grant[g].revoked
  /\ grant' = [grant EXCEPT ![g].revoked = TRUE]
  /\ row' = [row EXCEPT ![grant[g].id] = Deleted]
  /\ UNCHANGED <<session, issued, redeemed, call>>
  /\ UNCHANGED <<uris, member, ticket, code, flow, shown>>

\* A delegated grant is stamped; a legacy one takes its hidden identity along.
RevokeGrant(g) ==
  /\ grant[g] # Unused /\ ~grant[g].revoked
  /\ grant' = [grant EXCEPT ![g].revoked = TRUE]
  /\ row' = IF grant[g].legacy THEN [row EXCEPT ![grant[g].id] = Deleted] ELSE row
  /\ UNCHANGED <<session, issued, redeemed, call>>
  /\ UNCHANGED <<uris, member, ticket, code, flow, shown>>

\* resolveBearer: a delegated key through its grant, a legacy one through its row.
Resolves(g) ==
  /\ grant[g] # Unused
  /\ Present(grant[g].id)
  /\ grant[g].legacy \/ ~grant[g].revoked

\* A ticket's or a code's ten minutes are over.
Expire ==
  \/ \E k \in Tickets : /\ ticket[k] \notin {Unused, Ended}
                        /\ ticket' = [ticket EXCEPT ![k] = Ended] /\ UNCHANGED code
  \/ \E n \in Codes : /\ Live(n) /\ code' = [code EXCEPT ![n].live = FALSE]
                      /\ UNCHANGED ticket

\* A statement fails, or the process dies.
AbandonFlow(f) == flow[f] # Free /\ EndFlow(f)

Request(f) ==
  \/ AuthorizeSubmit(f) \/ AuthorizePassword(f) \/ AuthorizeConfirmed(f)
  \/ AuthorizeWorkspaces(f) \/ Workspace(f) \/ Recheck(f) \/ StoreOAuthCode(f)
  \/ TakeOAuthCode(f) \/ ResolveOwner(f) \/ AssertMemberOfTeam(f)
  \/ MintDelegatedGrant(f)
  \/ AbandonFlow(f) /\ UNCHANGED <<uris, member, ticket, code, grant, shown>>

ConsentStep ==
  \/ \E f \in Flows : Request(f)
  \/ \E x \in Clients, us \in UriLists : Register(x, us)
  \/ \E i \in Ids, t \in Teams : Join(i, t) \/ Leave(i, t)
  \/ Expire /\ UNCHANGED <<uris, member, grant, flow, shown>>

\* The accounts go their own way; the two that write both tables are apart.
ConsentNext ==
  \/ ConsentStep /\ UNCHANGED vars
  \/ MintGrant
  \/ \E g \in Grants : RevokeGrant(g)
  \/ Next /\ UNCHANGED consent

ConsentSpec == Init /\ ConsentInit /\ [][ConsentNext]_all
-----------------------------------------------------------------------------
(* Properties. *)

\* The tables hold what the code stores in them, and a request has its fields.
ConsentTypeOK ==
  /\ uris \in [Clients -> SUBSET Uris]
  /\ member \in SUBSET (Ids \X Teams)
  /\ ticket \in [Tickets -> {Unused, Ended} \cup Ticket]
  /\ code \in [Codes -> {Unused} \cup Code]
  /\ grant \in [Grants -> {Unused} \cup Grant]
  /\ flow \in [Flows -> {Free} \cup FlowRecord]
  /\ shown \in SUBSET (Ids \X Clients \X Workspaces)

\* A ticket buys one code and a code one grant, however often and by however many
\* requests they are presented (TakeConsentTicket, TakeOAuthCode: "single-use").
SpentOnce ==
  /\ \A m, n \in Codes :
       code[m] # Unused /\ code[n] # Unused /\ code[m].ticket = code[n].ticket
         /\ code[m].ticket # None => m = n
  /\ \A g, h \in Grants :
       grant[g] # Unused /\ grant[h] # Unused /\ grant[g].code = grant[h].code
         /\ grant[g].code # None => g = h

\* A code or a grant is for what its user was shown after logging in with the
\* password of a confirmed account, for that client and that workspace, whatever
\* was tampered with, expired or changed on the way (OAUA-05, OAUA-09).
GrantsAreConsented ==
  /\ \A n \in Codes : code[n] # Unused =>
       <<code[n].id, code[n].client, code[n].team>> \in shown
  /\ \A g \in Grants : grant[g] # Unused /\ ~grant[g].legacy =>
       <<grant[g].id, grant[g].client, grant[g].team>> \in shown
  /\ \A s \in shown : Present(s[1]) => row[s[1]].confirmed

\* A code leaves for a URI its client has registered at that time, unless it
\* registers again in the very moment (finishAuthorize: "no path can deliver a
\* code somewhere the client never registered").
CodesGoWhereRegistered ==
  [][\A f \in Flows :
       FlowAt(f, "storeCode") /\ code' # code /\ flow'[f] = Free =>
         Registered(flow[f].client, flow[f].uri) \/ flow[f].moved]_all

\* A revoked grant authenticates nobody, then or later, and revoking it takes no
\* other grant and no account with it (OAUT-10, OAUT-11, OAUT-12).
RevocationIsExact ==
  [][\A g \in Grants : grant'[g] # Unused /\ grant'[g].revoked =>
       /\ ~Resolves(g)'
       /\ grant[g].revoked \/
            /\ \A h \in Grants \ {g} : Resolves(h) => Resolves(h)'
            /\ \A i \in Ids : Present(i) /\ (grant[g].legacy => i # grant[g].id)
                                => Present(i)']_all
=============================================================================
