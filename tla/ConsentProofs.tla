---------------------------- MODULE ConsentProofs ----------------------------
(***************************************************************************)
(* Consent for any clients, teams, requests and bounds: a ticket buys one  *)
(* code and a code one grant, what is granted was shown to a user who had  *)
(* logged in, codes leave for registered URIs, and revoking is exact.      *)
(*                                                                         *)
(* The arguments: what a request carries was in no table any more when it  *)
(* was taken, so no other request carries it.  What a request is for has   *)
(* been in "shown" since its user chose.  The hidden identity of a legacy  *)
(* grant has no e-mail, so nobody logs in as it, and is in no other grant. *)
(***************************************************************************)
EXTENDS Consent, AccountsProofs

\* What a request has by the time it gets where it is.
Chosen(f) == \/ FlowAt(f, "recheck") \/ FlowAt(f, "storeCode") \/ FlowAt(f, "resolve")
             \/ FlowAt(f, "member") \/ FlowAt(f, "mint")
Bought(f) == FlowAt(f, "resolve") \/ FlowAt(f, "member") \/ FlowAt(f, "mint")

Carries(f) ==
  /\ FlowAt(f, "password") => flow[f].team = Personal /\ flow[f].uri \in Uris
  /\ FlowAt(f, "confirmed") \/ FlowAt(f, "workspaces") =>
       flow[f].team = Personal /\ flow[f].uri \in Uris /\ flow[f].id \in Ids
  /\ Chosen(f) => flow[f].id \in Ids
  /\ Bought(f) => flow[f].code \in Codes

Carry == \A f \in Flows : Carries(f)

\* A ticket that a request or a code stems from is gone, and stems one of them.
Open(n)     == ticket[n] \notin {Unused, Ended}
HasTicket(f, n) == flow[f] # Free /\ flow[f].ticket = n
FromTicket(m, n) == code[m] # Unused /\ code[m].ticket = n

TicketsOnce ==
  \A n \in Tickets \ {None} :
    /\ \A f \in Flows : HasTicket(f, n) => ticket[n] = Ended
    /\ \A m \in Codes : FromTicket(m, n) => ticket[n] = Ended
    /\ \A f, g \in Flows : HasTicket(f, n) /\ HasTicket(g, n) => f = g
    /\ \A l, m \in Codes : FromTicket(l, n) /\ FromTicket(m, n) => l = m
    /\ \A f \in Flows, m \in Codes : ~(HasTicket(f, n) /\ FromTicket(m, n))

\* The same of codes and grants.
HasCode(f, n)  == flow[f] # Free /\ flow[f].code = n
FromCode(g, n) == grant[g] # Unused /\ grant[g].code = n
Spent(n)       == code[n] # Unused /\ ~code[n].live

CodesOnce ==
  \A n \in Codes \ {None} :
    /\ \A f \in Flows : HasCode(f, n) => Spent(n)
    /\ \A g \in Grants : FromCode(g, n) => Spent(n)
    /\ \A e, f \in Flows : HasCode(e, n) /\ HasCode(f, n) => e = f
    /\ \A g, h \in Grants : FromCode(g, n) /\ FromCode(h, n) => g = h
    /\ \A f \in Flows, g \in Grants : ~(HasCode(f, n) /\ FromCode(g, n))

\* What has been shown stands behind tickets, requests, codes and grants.
ShownFlow(f) ==
  /\ FlowAt(f, "confirmed") => Made(flow[f].id)
  /\ FlowAt(f, "workspaces") => Settled(flow[f].id)
  /\ Chosen(f) => <<flow[f].id, flow[f].client, flow[f].team>> \in shown
ShownTicket(n) ==
  Open(n) => \A w \in ticket[n].offered : <<ticket[n].id, ticket[n].client, w>> \in shown
ShownCode(n) ==
  code[n] # Unused => <<code[n].id, code[n].client, code[n].team>> \in shown
ShownGrant(g) ==
  grant[g] # Unused /\ ~grant[g].legacy =>
    <<grant[g].id, grant[g].client, grant[g].team>> \in shown

ShownFor ==
  /\ \A s \in shown : Settled(s[1])
  /\ \A f \in Flows : ShownFlow(f)
  /\ \A n \in Tickets : ShownTicket(n)
  /\ \A n \in Codes : ShownCode(n)
  /\ \A g \in Grants : ShownGrant(g)

\* A legacy grant has its hidden identity to itself.
Legacy(g) == grant[g] # Unused /\ grant[g].legacy

Apart ==
  \A g \in Grants : Legacy(g) =>
    /\ Made(grant[g].id) /\ Hidden(grant[g].id)
    /\ grant[g].revoked => ~Present(grant[g].id)
    /\ \A s \in shown : s[1] # grant[g].id
    /\ \A f \in Flows : FlowAt(f, "confirmed") \/ FlowAt(f, "workspaces")
                          => flow[f].id # grant[g].id
    /\ \A h \in Grants : grant[h] # Unused /\ grant[h].id = grant[g].id => h = g

\* A code about to leave goes to a URI its client has registered, or had.
Sent == \A f \in Flows : FlowAt(f, "storeCode") =>
          Registered(flow[f].client, flow[f].uri) \/ flow[f].moved

CInv == IInv /\ ConsentTypeOK /\ Carry /\ TicketsOnce /\ CodesOnce /\ ShownFor /\ Apart /\ Sent

-----------------------------------------------------------------------------
(* Requests. *)

Pcs == {"password", "confirmed", "workspaces", "recheck", "storeCode", "resolve", "member",
        "mint"}

LEMMA ConsentShapes ==
  /\ Free \notin FlowRecord /\ Unused \notin Ticket /\ Ended \notin Ticket /\ Unused # Ended
  /\ Unused \notin Code /\ Unused \notin Grant
<1>1. Free \notin FlowRecord
  BY DEF Free, FlowRecord
<1>2. Unused \notin Ticket /\ Ended \notin Ticket /\ Unused # Ended
  BY DEF Unused, Ended, Ticket
<1>3. Unused \notin Code /\ Unused \notin Grant
  BY DEF Unused, Code, Grant
<1> QED  BY <1>1, <1>2, <1>3

LEMMA FlowIsRecord ==
  ASSUME ConsentTypeOK, NEW f \in Flows, flow[f] # Free
  PROVE  flow[f] \in FlowRecord
BY DEF ConsentTypeOK

OthersWait(f) ==
  /\ flow' \in [Flows -> {Free} \cup FlowRecord]
  /\ \A g \in Flows : g # f => flow'[g] = flow[g]

\* A step of a request keeps everything of it but its pc.
LEMMA GotoFlowKeeps ==
  ASSUME ConsentTypeOK, NEW f \in Flows, flow[f] # Free, NEW pc \in Pcs, GotoFlow(f, pc)
  PROVE  /\ OthersWait(f)
         /\ flow'[f] # Free /\ flow'[f].pc = pc
         /\ flow'[f].id = flow[f].id /\ flow'[f].client = flow[f].client
         /\ flow'[f].uri = flow[f].uri /\ flow'[f].team = flow[f].team
         /\ flow'[f].ticket = flow[f].ticket /\ flow'[f].code = flow[f].code
         /\ flow'[f].moved = flow[f].moved
<1>1. flow[f] \in FlowRecord
  BY FlowIsRecord
<1>2. flow'[f] = [flow[f] EXCEPT !.pc = pc]
  BY DEF ConsentTypeOK, GotoFlow
<1>3. flow'[f] \in FlowRecord
  BY <1>1, <1>2 DEF FlowRecord, Pcs
<1>4. OthersWait(f)
  BY <1>3 DEF GotoFlow, ConsentTypeOK, OthersWait
<1> QED  BY <1>1, <1>2, <1>3, <1>4, ConsentShapes DEF FlowRecord

LEMMA EndFlowKeeps ==
  ASSUME ConsentTypeOK, NEW f \in Flows, EndFlow(f)
  PROVE  OthersWait(f) /\ flow'[f] = Free
BY DEF EndFlow, ConsentTypeOK, OthersWait

LEMMA NewFlow ==
  ASSUME ConsentTypeOK, NEW f \in Flows, NEW k \in FlowRecord, flow' = [flow EXCEPT ![f] = k]
  PROVE  OthersWait(f) /\ flow'[f] = k /\ flow'[f] # Free
BY ConsentShapes DEF ConsentTypeOK, OthersWait

LEMMA PasswordKeeps ==
  ASSUME ConsentTypeOK, NEW f \in Flows, FlowAt(f, "password"), NEW i \in Ids,
         flow' = [flow EXCEPT ![f].id = i, ![f].pc = "confirmed"]
  PROVE  /\ OthersWait(f)
         /\ flow'[f] # Free /\ flow'[f].pc = "confirmed" /\ flow'[f].id = i
         /\ flow'[f].client = flow[f].client /\ flow'[f].uri = flow[f].uri
         /\ flow'[f].team = flow[f].team /\ flow'[f].moved = flow[f].moved
         /\ flow'[f].ticket = flow[f].ticket /\ flow'[f].code = flow[f].code
<1>1. flow[f] \in FlowRecord
  BY FlowIsRecord DEF FlowAt
<1> DEFINE k == [flow[f] EXCEPT !.id = i, !.pc = "confirmed"]
<1>2. /\ k \in FlowRecord /\ k.pc = "confirmed" /\ k.id = i
      /\ k.client = flow[f].client /\ k.uri = flow[f].uri /\ k.team = flow[f].team
      /\ k.moved = flow[f].moved /\ k.ticket = flow[f].ticket /\ k.code = flow[f].code
  BY <1>1 DEF FlowRecord
<1>3. flow' = [flow EXCEPT ![f] = k]
  OBVIOUS
<1> HIDE DEF k
<1> QED  BY <1>2, <1>3, NewFlow

\* The request that AuthorizeSubmit starts, ...
LEMMA SubmitStarts ==
  ASSUME ConsentTypeOK, NEW f \in Flows, AuthorizeSubmit(f)
  PROVE  /\ OthersWait(f) /\ flow[f] = Free /\ FlowAt(f, "password")'
         /\ flow'[f].team = Personal /\ flow'[f].uri \in Uris
         /\ flow'[f].ticket = None /\ flow'[f].code = None
<1>1. PICK x \in Clients, u \in Uris :
        /\ flow[f] = Free
        /\ flow' = [flow EXCEPT ![f] =
                      [pc |-> "password", id |-> None, client |-> x, uri |-> u,
                       team |-> Personal, ticket |-> None, code |-> None, moved |-> FALSE]]
  BY DEF AuthorizeSubmit
<1> DEFINE k == [pc |-> "password", id |-> None, client |-> x, uri |-> u,
                 team |-> Personal, ticket |-> None, code |-> None, moved |-> FALSE]
<1>2. /\ k \in FlowRecord /\ k.pc = "password" /\ k.team = Personal /\ k.uri \in Uris
      /\ k.ticket = None /\ k.code = None
  BY DEF FlowRecord, Workspaces
<1> HIDE DEF k
<1>3. flow[f] = Free /\ flow' = [flow EXCEPT ![f] = k]
  BY <1>1 DEF k
<1> QED  BY <1>2, <1>3, NewFlow DEF FlowAt

\* ... the one that takes a ticket, ...
LEMMA WorkspaceStarts ==
  ASSUME ConsentTypeOK, NEW f \in Flows, Workspace(f)
  PROVE  \E n \in Tickets :
           /\ Open(n) /\ ticket[n] \in Ticket /\ flow[f] = Free
           /\ ticket' = [ticket EXCEPT ![n] = Ended]
           /\ \/ flow' = flow
              \/ /\ OthersWait(f) /\ FlowAt(f, "recheck")'
                 /\ flow'[f].id = ticket[n].id /\ flow'[f].client = ticket[n].client
                 /\ flow'[f].team \in ticket[n].offered
                 /\ flow'[f].ticket = n /\ flow'[f].code = None
<1>1. PICK n \in Tickets, w \in Workspaces \cup {Bogus} :
        /\ flow[f] = Free /\ Open(n)
        /\ ticket' = [ticket EXCEPT ![n] = Ended]
        /\ IF w \in ticket[n].offered
           THEN flow' = [flow EXCEPT ![f] =
                           [pc |-> "recheck", id |-> ticket[n].id,
                            client |-> ticket[n].client, uri |-> ticket[n].uri, team |-> w,
                            ticket |-> n, code |-> None, moved |-> FALSE]]
           ELSE UNCHANGED flow
  BY DEF Workspace, Open
<1>2. ticket[n] \in Ticket
  BY <1>1 DEF ConsentTypeOK, Open
<1>3. CASE w \notin ticket[n].offered
  BY <1>1, <1>2, <1>3
<1>4. CASE w \in ticket[n].offered
  <2> DEFINE k == [pc |-> "recheck", id |-> ticket[n].id,
                   client |-> ticket[n].client, uri |-> ticket[n].uri, team |-> w,
                   ticket |-> n, code |-> None, moved |-> FALSE]
  <2>1. /\ k \in FlowRecord /\ k.pc = "recheck" /\ k.id = ticket[n].id
        /\ k.client = ticket[n].client /\ k.team = w /\ k.ticket = n /\ k.code = None
    BY <1>2, <1>4 DEF FlowRecord, Ticket
  <2>2. flow' = [flow EXCEPT ![f] = k]
    BY <1>1, <1>4
  <2> HIDE DEF k
  <2>3. OthersWait(f) /\ flow'[f] = k /\ flow'[f] # Free
    BY <2>1, <2>2, NewFlow
  <2>4. FlowAt(f, "recheck")'
    BY <2>1, <2>3 DEF FlowAt
  <2> QED  BY <1>1, <1>2, <1>4, <2>1, <2>3, <2>4
<1> QED  BY <1>3, <1>4

\* ... and the one that takes a code.
LEMMA TakeStarts ==
  ASSUME ConsentTypeOK, NEW f \in Flows, TakeOAuthCode(f)
  PROVE  \E n \in Codes :
           /\ Live(n) /\ code[n] \in Code /\ flow[f] = Free
           /\ code' = [code EXCEPT ![n].live = FALSE]
           /\ \/ flow' = flow
              \/ /\ OthersWait(f) /\ FlowAt(f, "resolve")'
                 /\ flow'[f].id = code[n].id /\ flow'[f].client = code[n].client
                 /\ flow'[f].team = code[n].team
                 /\ flow'[f].ticket = None /\ flow'[f].code = n
<1>1. PICK n \in Codes, right \in BOOLEAN :
        /\ flow[f] = Free /\ Live(n)
        /\ code' = [code EXCEPT ![n].live = FALSE]
        /\ IF right
           THEN flow' = [flow EXCEPT ![f] =
                           [pc |-> "resolve", id |-> code[n].id, client |-> code[n].client,
                            uri |-> None, team |-> code[n].team, ticket |-> None, code |-> n,
                            moved |-> FALSE]]
           ELSE UNCHANGED flow
  BY DEF TakeOAuthCode
<1>2. code[n] \in Code
  BY <1>1 DEF ConsentTypeOK, Live
<1>3. CASE ~right
  BY <1>1, <1>2, <1>3
<1>4. CASE right
  <2> DEFINE k == [pc |-> "resolve", id |-> code[n].id, client |-> code[n].client,
                   uri |-> None, team |-> code[n].team, ticket |-> None, code |-> n,
                   moved |-> FALSE]
  <2>1. /\ k \in FlowRecord /\ k.pc = "resolve" /\ k.id = code[n].id
        /\ k.client = code[n].client /\ k.team = code[n].team
        /\ k.ticket = None /\ k.code = n
    BY <1>2 DEF FlowRecord, Code
  <2>2. flow' = [flow EXCEPT ![f] = k]
    BY <1>1, <1>4
  <2> HIDE DEF k
  <2>3. OthersWait(f) /\ flow'[f] = k /\ flow'[f] # Free
    BY <2>1, <2>2, NewFlow
  <2>4. FlowAt(f, "resolve")'
    BY <2>1, <2>3 DEF FlowAt
  <2> QED  BY <1>1, <1>2, <2>1, <2>3, <2>4
<1> QED  BY <1>3, <1>4

-----------------------------------------------------------------------------
(* What else a step writes. *)

LEMMA OfferedIsShown ==
  ASSUME ConsentTypeOK, Carry, NEW f \in Flows, AuthorizeWorkspaces(f)
  PROVE  /\ FlowAt(f, "workspaces") /\ flow[f] \in FlowRecord
         /\ flow[f].id \in Ids /\ flow[f].team = Personal
         /\ \E seen \in SUBSET Workspaces :
              /\ shown' = shown \cup {<<flow[f].id, flow[f].client, w>> : w \in seen}
              /\ \/ seen = {Personal} /\ GotoFlow(f, "recheck") /\ ticket' = ticket
                 \/ /\ EndFlow(f)
                    /\ \E n \in Tickets, k \in Ticket :
                         /\ ticket[n] = Unused /\ ticket' = [ticket EXCEPT ![n] = k]
                         /\ k.id = flow[f].id /\ k.client = flow[f].client /\ k.offered = seen
<1> DEFINE k == flow[f]
           few == Offered(k.id) \subseteq {Personal}
           seen == IF few THEN {Personal} ELSE Offered(k.id)
<1>1. /\ FlowAt(f, "workspaces") /\ k \in FlowRecord
      /\ k.id \in Ids /\ k.team = Personal /\ k.uri \in Uris
  BY FlowIsRecord DEF AuthorizeWorkspaces, FlowAt, Carry, Carries
<1>2. seen \in SUBSET Workspaces
  BY DEF Offered, Workspaces
<1>3. shown' = shown \cup {<<k.id, k.client, w>> : w \in seen}
  BY DEF AuthorizeWorkspaces
<1>4. CASE few
  <2>1. seen = {Personal} /\ GotoFlow(f, "recheck") /\ ticket' = ticket
    BY <1>4 DEF AuthorizeWorkspaces
  <2> QED  BY <1>1, <1>2, <1>3, <2>1
<1>5. CASE ~few
  <2> DEFINE t == [id |-> k.id, client |-> k.client, uri |-> k.uri, offered |-> seen]
  <2>1. EndFlow(f) /\ \E n \in Tickets : /\ ticket[n] = Unused
                                         /\ ticket' = [ticket EXCEPT ![n] = t]
    BY <1>5 DEF AuthorizeWorkspaces
  <2>2. t \in Ticket
    BY <1>1, <1>2 DEF Ticket, FlowRecord
  <2>3. t.id = k.id /\ t.client = k.client /\ t.offered = seen
    OBVIOUS
  <2> HIDE DEF t, seen
  <2> QED  BY <1>1, <1>2, <1>3, <2>1, <2>2, <2>3
<1> QED  BY <1>4, <1>5

LEMMA CodeIsStored ==
  ASSUME ConsentTypeOK, Carry, NEW f \in Flows, StoreOAuthCode(f)
  PROVE  /\ FlowAt(f, "storeCode") /\ EndFlow(f) /\ flow[f] \in FlowRecord
         /\ \E n \in Codes, k \in Code :
              /\ code[n] = Unused /\ code' = [code EXCEPT ![n] = k] /\ k.live
              /\ k.id = flow[f].id /\ k.client = flow[f].client /\ k.team = flow[f].team
              /\ k.ticket = flow[f].ticket
<1>1. FlowAt(f, "storeCode") /\ EndFlow(f) /\ flow[f] \in FlowRecord /\ flow[f].id \in Ids
  BY FlowIsRecord DEF StoreOAuthCode, FlowAt, Carry, Carries, Chosen
<1> DEFINE k == [id |-> flow[f].id, client |-> flow[f].client, team |-> flow[f].team,
                 ticket |-> flow[f].ticket, live |-> TRUE]
<1>2. PICK n \in Codes : code[n] = Unused /\ code' = [code EXCEPT ![n] = k]
  BY DEF StoreOAuthCode
<1>3. k \in Code
  BY <1>1 DEF Code, FlowRecord
<1>4. /\ k.live /\ k.id = flow[f].id /\ k.client = flow[f].client /\ k.team = flow[f].team
      /\ k.ticket = flow[f].ticket
  OBVIOUS
<1> HIDE DEF k
<1> QED  BY <1>1, <1>2, <1>3, <1>4

LEMMA GrantIsMinted ==
  ASSUME ConsentTypeOK, Carry, NEW f \in Flows, MintDelegatedGrant(f)
  PROVE  /\ FlowAt(f, "mint") /\ EndFlow(f) /\ flow[f] \in FlowRecord
         /\ \E g \in Grants, k \in Grant :
              /\ grant[g] = Unused /\ grant' = [grant EXCEPT ![g] = k]
              /\ ~k.legacy /\ ~k.revoked
              /\ k.id = flow[f].id /\ k.client = flow[f].client /\ k.team = flow[f].team
              /\ k.code = flow[f].code
<1>1. FlowAt(f, "mint") /\ EndFlow(f) /\ flow[f] \in FlowRecord /\ flow[f].id \in Ids
  BY FlowIsRecord DEF MintDelegatedGrant, FlowAt, Carry, Carries, Chosen
<1> DEFINE k == [id |-> flow[f].id, client |-> flow[f].client, team |-> flow[f].team,
                 legacy |-> FALSE, revoked |-> FALSE, code |-> flow[f].code]
<1>2. PICK g \in Grants : grant[g] = Unused /\ grant' = [grant EXCEPT ![g] = k]
  BY DEF MintDelegatedGrant
<1>3. k \in Grant
  BY <1>1 DEF Grant, FlowRecord
<1>4. /\ ~k.legacy /\ ~k.revoked /\ k.id = flow[f].id /\ k.client = flow[f].client
      /\ k.team = flow[f].team /\ k.code = flow[f].code
  OBVIOUS
<1> HIDE DEF k
<1> QED  BY <1>1, <1>2, <1>3, <1>4

\* A legacy grant comes with a row of its own, ...
LEMMA HiddenIsMinted ==
  ASSUME TypeOK, ConsentTypeOK, MintGrant
  PROVE  /\ RowAges /\ UNCHANGED <<session, issued, redeemed, call>>
         /\ UNCHANGED <<uris, member, ticket, code, flow, shown>>
         /\ \E i \in Ids, g \in Grants, k \in Grant :
              /\ row[i] = Absent /\ Made(i)' /\ Hidden(i)'
              /\ grant[g] = Unused /\ grant' = [grant EXCEPT ![g] = k]
              /\ k.id = i /\ k.legacy /\ ~k.revoked /\ k.code = None
<1>1. PICK g \in Grants, i \in Ids, x \in Clients :
        /\ Insert(i, None, None, FALSE, "grant") /\ grant[g] = Unused
        /\ grant' = [grant EXCEPT ![g] = [id |-> i, client |-> x, team |-> Personal,
                                          legacy |-> TRUE, revoked |-> FALSE, code |-> None]]
  BY DEF MintGrant
<1> DEFINE k == [id |-> i, client |-> x, team |-> Personal,
                 legacy |-> TRUE, revoked |-> FALSE, code |-> None]
           r == [email |-> None, password |-> None, confirmed |-> FALSE, confirm |-> "unset",
                 reset |-> None, resetLive |-> FALSE, by |-> "grant"]
<1>2. k \in Grant
  BY DEF Grant, Workspaces
<1>3. k.id = i /\ k.legacy /\ ~k.revoked /\ k.code = None
  OBVIOUS
<1>4. RowAges /\ Made(i)'
  BY <1>1, InsertAges
<1>5. row[i] = Absent /\ row' = [row EXCEPT ![i] = r]
  BY <1>1 DEF Insert
<1>6. Hidden(i)'
  BY <1>5 DEF Hidden, TypeOK
<1>7. grant' = [grant EXCEPT ![g] = k]
  BY <1>1
<1> HIDE DEF k, r
<1> QED  BY <1>1, <1>2, <1>3, <1>4, <1>5, <1>6, <1>7 DEF MintGrant

\* ... and takes it along.
LEMMA GrantIsRevoked ==
  ASSUME TypeOK, ConsentTypeOK, NEW g \in Grants, RevokeGrant(g)
  PROVE  /\ RowAges /\ UNCHANGED <<session, issued, redeemed, call>>
         /\ UNCHANGED <<uris, member, ticket, code, flow, shown>>
         /\ grant[g] \in Grant /\ ~grant[g].revoked
         /\ grant[g].legacy => row'[grant[g].id] = Deleted
         /\ \A i \in Ids : i # grant[g].id \/ ~grant[g].legacy => row'[i] = row[i]
         /\ \E k \in Grant :
              /\ grant' = [grant EXCEPT ![g] = k] /\ k.revoked
              /\ k.id = grant[g].id /\ k.client = grant[g].client /\ k.team = grant[g].team
              /\ k.legacy = grant[g].legacy /\ k.code = grant[g].code
<1> DEFINE k == [grant[g] EXCEPT !.revoked = TRUE]
<1>1. grant[g] \in Grant /\ ~grant[g].revoked
  BY DEF RevokeGrant, ConsentTypeOK
<1>2. /\ k \in Grant /\ k.revoked
      /\ k.id = grant[g].id /\ k.client = grant[g].client /\ k.team = grant[g].team
      /\ k.legacy = grant[g].legacy /\ k.code = grant[g].code
  BY <1>1 DEF Grant
<1>3. grant' = [grant EXCEPT ![g] = k]
  BY DEF RevokeGrant
<1>4. CASE grant[g].legacy
  <2>1. grant[g].id \in Ids /\ row' = [row EXCEPT ![grant[g].id] = Deleted]
    BY <1>1, <1>4 DEF RevokeGrant, Grant
  <2>2. row'[grant[g].id] = Deleted /\ \A i \in Ids : i # grant[g].id => row'[i] = row[i]
    BY <2>1 DEF TypeOK
  <2>3. RowAges
    BY <2>1, DeleteAges
  <2> HIDE DEF k
  <2> QED  BY <1>1, <1>2, <1>3, <1>4, <2>2, <2>3 DEF RevokeGrant
<1>5. CASE ~grant[g].legacy
  <2>1. row' = row
    BY <1>5 DEF RevokeGrant
  <2> HIDE DEF k
  <2> QED  BY <1>1, <1>2, <1>3, <1>5, <2>1, SameRowAges DEF RevokeGrant
<1> QED  BY <1>4, <1>5

\* Registering again marks requests about to send a code.
LEMMA RegisterKeeps ==
  ASSUME ConsentTypeOK, NEW x \in Clients, NEW us, Register(x, us)
  PROVE  /\ flow' \in [Flows -> {Free} \cup FlowRecord]
         /\ uris' \in [Clients -> SUBSET Uris]
         /\ \A y \in Clients : y # x => uris'[y] = uris[y]
         /\ \A f \in Flows :
              \/ flow'[f] = flow[f] /\ (flow[f] # Free /\ flow[f].pc = "storeCode"
                                          => flow[f].client # x)
              \/ /\ flow[f] # Free /\ flow'[f] # Free /\ flow'[f].moved
                 /\ flow'[f].pc = flow[f].pc /\ flow'[f].id = flow[f].id
                 /\ flow'[f].client = flow[f].client /\ flow'[f].uri = flow[f].uri
                 /\ flow'[f].team = flow[f].team
                 /\ flow'[f].ticket = flow[f].ticket /\ flow'[f].code = flow[f].code
<1>1. ASSUME NEW f \in Flows
      PROVE  /\ flow'[f] \in {Free} \cup FlowRecord
             /\ \/ flow'[f] = flow[f] /\ (flow[f] # Free /\ flow[f].pc = "storeCode"
                                            => flow[f].client # x)
                \/ /\ flow[f] # Free /\ flow'[f] # Free /\ flow'[f].moved
                   /\ flow'[f].pc = flow[f].pc /\ flow'[f].id = flow[f].id
                   /\ flow'[f].client = flow[f].client /\ flow'[f].uri = flow[f].uri
                   /\ flow'[f].team = flow[f].team
                   /\ flow'[f].ticket = flow[f].ticket /\ flow'[f].code = flow[f].code
  <2>1. CASE FlowAt(f, "storeCode") /\ flow[f].client = x
    <3> DEFINE k == [flow[f] EXCEPT !.moved = TRUE]
    <3>1. flow[f] \in FlowRecord
      BY <2>1, FlowIsRecord DEF FlowAt
    <3>2. /\ k \in FlowRecord /\ k.moved /\ k.pc = flow[f].pc /\ k.id = flow[f].id
          /\ k.client = flow[f].client /\ k.uri = flow[f].uri /\ k.team = flow[f].team
          /\ k.ticket = flow[f].ticket /\ k.code = flow[f].code
      BY <3>1 DEF FlowRecord
    <3>3. flow'[f] = k
      BY <2>1 DEF Register
    <3> HIDE DEF k
    <3> QED  BY <2>1, <3>2, <3>3, ConsentShapes DEF FlowAt
  <2>2. CASE ~(FlowAt(f, "storeCode") /\ flow[f].client = x)
    BY <2>2 DEF Register, ConsentTypeOK, FlowAt
  <2> QED  BY <2>1, <2>2
<1>2. flow' = [f \in Flows |->
               IF FlowAt(f, "storeCode") /\ flow[f].client = x
               THEN [flow[f] EXCEPT !.moved = TRUE] ELSE flow[f]]
  BY DEF Register
<1>3. DOMAIN flow' = Flows /\ flow' = [f \in DOMAIN flow' |-> flow'[f]]
  BY <1>2
<1>4. flow' \in [Flows -> {Free} \cup FlowRecord]
  BY <1>1, <1>3
<1> QED  BY <1>1, <1>4 DEF Register, ConsentTypeOK

-----------------------------------------------------------------------------
(* The steps of requests that write no table. *)

Kept(f) ==
  /\ flow[f] # Free /\ flow'[f] # Free
  /\ flow'[f].client = flow[f].client /\ flow'[f].uri = flow[f].uri
  /\ flow'[f].team = flow[f].team /\ flow'[f].moved = flow[f].moved
  /\ flow'[f].ticket = flow[f].ticket /\ flow'[f].code = flow[f].code

Moves(f) ==
  /\ Kept(f)
  /\ \/ /\ flow[f].pc = "password" /\ flow'[f].pc = "confirmed"
        /\ flow'[f].id \in Ids /\ Present(flow'[f].id) /\ row[flow'[f].id].email # None
     \/ /\ flow'[f].id = flow[f].id
        /\ \/ /\ flow[f].pc = "confirmed" /\ flow'[f].pc = "workspaces"
              /\ Present(flow[f].id) /\ row[flow[f].id].confirmed
           \/ /\ flow[f].pc = "recheck" /\ flow'[f].pc = "storeCode"
              /\ Registered(flow[f].client, flow[f].uri)
           \/ flow[f].pc = "resolve" /\ flow'[f].pc \in {"member", "mint"}
           \/ flow[f].pc = "member" /\ flow'[f].pc = "mint"

Quiet(f) ==
  \/ AuthorizePassword(f) \/ AuthorizeConfirmed(f) \/ Recheck(f) \/ ResolveOwner(f)
  \/ AssertMemberOfTeam(f)
  \/ AbandonFlow(f) /\ UNCHANGED <<uris, member, ticket, code, grant, shown>>

LEMMA QuietSteps ==
  ASSUME ConsentTypeOK, NEW f \in Flows, Quiet(f)
  PROVE  /\ UNCHANGED <<uris, member, ticket, code, grant, shown>>
         /\ OthersWait(f) /\ (flow'[f] = Free \/ Moves(f))
<1>1. UNCHANGED <<uris, member, ticket, code, grant, shown>>
  BY DEF Quiet, AuthorizePassword, AuthorizeConfirmed, Recheck, ResolveOwner,
         AssertMemberOfTeam
<1>2. CASE EndFlow(f)
  BY <1>1, <1>2, EndFlowKeeps
<1>3. CASE AuthorizePassword(f) /\ ~EndFlow(f)
  <2>1. PICK i \in Ids :
          /\ Present(i) /\ row[i].email # None
          /\ flow' = [flow EXCEPT ![f].id = i, ![f].pc = "confirmed"]
    BY <1>3 DEF AuthorizePassword
  <2>2. FlowAt(f, "password")
    BY <1>3 DEF AuthorizePassword
  <2> QED  BY <1>1, <2>1, <2>2, PasswordKeeps DEF Moves, Kept, FlowAt
<1>4. CASE AuthorizeConfirmed(f) /\ ~EndFlow(f)
  BY <1>1, <1>4, GotoFlowKeeps DEF AuthorizeConfirmed, FlowAt, Moves, Kept, Pcs
<1>5. CASE Recheck(f) /\ ~EndFlow(f)
  BY <1>1, <1>5, GotoFlowKeeps DEF Recheck, FlowAt, Moves, Kept, Pcs
<1>6. CASE ResolveOwner(f) /\ ~EndFlow(f)
  BY <1>1, <1>6, GotoFlowKeeps DEF ResolveOwner, FlowAt, Moves, Kept, Pcs
<1>7. CASE AssertMemberOfTeam(f) /\ ~EndFlow(f)
  BY <1>1, <1>7, GotoFlowKeeps DEF AssertMemberOfTeam, FlowAt, Moves, Kept, Pcs
<1> QED  BY <1>2, <1>3, <1>4, <1>5, <1>6, <1>7 DEF Quiet, AbandonFlow

\* A step of the consent flow is one of these.
ConsentKinds ==
  \/ \E f \in Flows : \/ Quiet(f) \/ AuthorizeSubmit(f) \/ AuthorizeWorkspaces(f)
                      \/ Workspace(f) \/ StoreOAuthCode(f) \/ TakeOAuthCode(f)
                      \/ MintDelegatedGrant(f)
  \/ \E x \in Clients, us \in UriLists : Register(x, us)
  \/ \E i \in Ids, t \in Teams : Join(i, t) \/ Leave(i, t)
  \/ Expire /\ UNCHANGED <<uris, member, grant, flow, shown>>

LEMMA Kinds == ConsentStep => ConsentKinds
BY DEF ConsentStep, ConsentKinds, Request, Quiet
-----------------------------------------------------------------------------
(* Types. *)

LEMMA InitConsentTypes == ConsentInit => ConsentTypeOK /\ Carry
BY DEF ConsentInit, ConsentTypeOK, Carry, Carries, FlowAt, Chosen, Bought

LEMMA OthersCarry ==
  ASSUME Carry, NEW f \in Flows, OthersWait(f), Carries(f)'
  PROVE  Carry'
BY DEF Carry, Carries, OthersWait, FlowAt, Chosen, Bought

\* What TakeOAuthCode does to the code it takes.
LEMMA TakeWrites ==
  ASSUME ConsentTypeOK, NEW n \in Codes, Live(n), code' = [code EXCEPT ![n].live = FALSE]
  PROVE  /\ code' \in [Codes -> {Unused} \cup Code]
         /\ \A m \in Codes : m # n => code'[m] = code[m]
         /\ code'[n] # Unused /\ ~code'[n].live
         /\ code'[n].id = code[n].id /\ code'[n].client = code[n].client
         /\ code'[n].team = code[n].team /\ code'[n].ticket = code[n].ticket
<1> DEFINE k == [code[n] EXCEPT !.live = FALSE]
<1>1. code[n] \in Code
  BY DEF ConsentTypeOK, Live
<1>2. /\ k \in Code /\ ~k.live /\ k.id = code[n].id /\ k.client = code[n].client
      /\ k.team = code[n].team /\ k.ticket = code[n].ticket
  BY <1>1 DEF Code
<1>3. code' = [code EXCEPT ![n] = k]
  OBVIOUS
<1>4. code \in [Codes -> {Unused} \cup Code]
  BY DEF ConsentTypeOK
<1> HIDE DEF k
<1> QED  BY <1>2, <1>3, <1>4, ConsentShapes

LEMMA ExpireWrites ==
  ASSUME ConsentTypeOK, Expire
  PROVE  /\ ticket' \in [Tickets -> {Unused, Ended} \cup Ticket]
         /\ code' \in [Codes -> {Unused} \cup Code]
         /\ \A n \in Tickets : \/ ticket'[n] = ticket[n]
                               \/ Open(n) /\ ticket'[n] = Ended
         /\ \A n \in Codes : \/ code'[n] = code[n]
                             \/ /\ Live(n) /\ code'[n] # Unused /\ ~code'[n].live
                                /\ code'[n].id = code[n].id /\ code'[n].client = code[n].client
                                /\ code'[n].team = code[n].team
                                /\ code'[n].ticket = code[n].ticket
<1>1. CASE \E n \in Tickets : /\ Open(n)
                              /\ ticket' = [ticket EXCEPT ![n] = Ended] /\ code' = code
  BY <1>1 DEF ConsentTypeOK
<1>2. CASE \E n \in Codes : /\ Live(n) /\ code' = [code EXCEPT ![n].live = FALSE]
                            /\ ticket' = ticket
  BY <1>2, TakeWrites DEF ConsentTypeOK
<1> QED  BY <1>1, <1>2 DEF Expire, Open, ConsentTypeOK

LEMMA StepTypes ==
  ASSUME ConsentTypeOK, Carry, ConsentKinds
  PROVE  ConsentTypeOK' /\ Carry'
<1>1. ASSUME NEW f \in Flows, Quiet(f)
      PROVE  ConsentTypeOK' /\ Carry'
  <2>1. Carries(f)'
    BY <1>1, QuietSteps DEF Moves, Kept, Carry, Carries, FlowAt, Chosen, Bought
  <2> QED  BY <1>1, <2>1, QuietSteps, OthersCarry DEF ConsentTypeOK, OthersWait
<1>2. ASSUME NEW f \in Flows, AuthorizeSubmit(f)
      PROVE  ConsentTypeOK' /\ Carry'
  <2>1. Carries(f)'
    BY <1>2, SubmitStarts DEF Carries, FlowAt, Chosen, Bought
  <2> QED  BY <1>2, <2>1, SubmitStarts, OthersCarry DEF AuthorizeSubmit, ConsentTypeOK, OthersWait
<1>3. ASSUME NEW f \in Flows, AuthorizeWorkspaces(f)
      PROVE  ConsentTypeOK' /\ Carry'
  <2>1. OthersWait(f) /\ Carries(f)'
    BY <1>3, OfferedIsShown, GotoFlowKeeps, EndFlowKeeps
       DEF Pcs, Carries, FlowAt, Chosen, Bought
  <2>2. ticket' \in [Tickets -> {Unused, Ended} \cup Ticket]
    BY <1>3, OfferedIsShown DEF ConsentTypeOK
  <2>3. shown' \in SUBSET (Ids \X Clients \X Workspaces)
    BY <1>3, OfferedIsShown DEF ConsentTypeOK, FlowRecord
  <2> QED  BY <1>3, <2>1, <2>2, <2>3, OthersCarry DEF AuthorizeWorkspaces, ConsentTypeOK, OthersWait
<1>4. ASSUME NEW f \in Flows, Workspace(f)
      PROVE  ConsentTypeOK' /\ Carry'
  <2>1. PICK n \in Tickets :
           /\ ticket[n] \in Ticket
           /\ ticket' = [ticket EXCEPT ![n] = Ended]
           /\ \/ flow' = flow
              \/ /\ OthersWait(f) /\ FlowAt(f, "recheck")'
                 /\ flow'[f].id = ticket[n].id
    BY <1>4, WorkspaceStarts
  <2>2. ticket' \in [Tickets -> {Unused, Ended} \cup Ticket]
    BY <2>1 DEF ConsentTypeOK
  <2>3. CASE flow' = flow
    BY <1>4, <2>2, <2>3 DEF Workspace, ConsentTypeOK, Carry, Carries, FlowAt, Chosen, Bought
  <2>4. CASE OthersWait(f) /\ FlowAt(f, "recheck")' /\ flow'[f].id = ticket[n].id
    <3>1. Carries(f)'
      BY <2>1, <2>4 DEF Ticket, Carries, FlowAt, Chosen, Bought
    <3> QED  BY <1>4, <2>2, <2>4, <3>1, OthersCarry DEF Workspace, ConsentTypeOK, OthersWait
  <2> QED  BY <2>1, <2>3, <2>4
<1>5. ASSUME NEW f \in Flows, StoreOAuthCode(f)
      PROVE  ConsentTypeOK' /\ Carry'
  <2>1. OthersWait(f) /\ Carries(f)'
    BY <1>5, CodeIsStored, EndFlowKeeps DEF Carries, FlowAt, Chosen, Bought
  <2>2. code' \in [Codes -> {Unused} \cup Code]
    BY <1>5, CodeIsStored DEF ConsentTypeOK
  <2> QED  BY <1>5, <2>1, <2>2, OthersCarry DEF StoreOAuthCode, ConsentTypeOK, OthersWait
<1>6. ASSUME NEW f \in Flows, TakeOAuthCode(f)
      PROVE  ConsentTypeOK' /\ Carry'
  <2>1. PICK n \in Codes :
           /\ Live(n) /\ code[n] \in Code
           /\ code' = [code EXCEPT ![n].live = FALSE]
           /\ \/ flow' = flow
              \/ /\ OthersWait(f) /\ FlowAt(f, "resolve")'
                 /\ flow'[f].id = code[n].id /\ flow'[f].code = n
    BY <1>6, TakeStarts
  <2>2. code' \in [Codes -> {Unused} \cup Code]
    BY <2>1, TakeWrites
  <2>3. CASE flow' = flow
    BY <1>6, <2>2, <2>3 DEF TakeOAuthCode, ConsentTypeOK, Carry, Carries, FlowAt, Chosen, Bought
  <2>4. CASE OthersWait(f) /\ FlowAt(f, "resolve")' /\ flow'[f].id = code[n].id /\ flow'[f].code = n
    <3>1. Carries(f)'
      BY <2>1, <2>4 DEF Code, Carries, FlowAt, Chosen, Bought
    <3> QED  BY <1>6, <2>2, <2>4, <3>1, OthersCarry DEF TakeOAuthCode, ConsentTypeOK, OthersWait
  <2> QED  BY <2>1, <2>3, <2>4
<1>7. ASSUME NEW f \in Flows, MintDelegatedGrant(f)
      PROVE  ConsentTypeOK' /\ Carry'
  <2>1. OthersWait(f) /\ Carries(f)'
    BY <1>7, GrantIsMinted, EndFlowKeeps DEF Carries, FlowAt, Chosen, Bought
  <2>2. grant' \in [Grants -> {Unused} \cup Grant]
    BY <1>7, GrantIsMinted DEF ConsentTypeOK
  <2> QED  BY <1>7, <2>1, <2>2, OthersCarry DEF MintDelegatedGrant, ConsentTypeOK, OthersWait
<1>8. ASSUME NEW x \in Clients, NEW us, Register(x, us)
      PROVE  ConsentTypeOK' /\ Carry'
  <2>1. \A f \in Flows : Carries(f)'
    BY <1>8, RegisterKeeps DEF Carry, Carries, FlowAt, Chosen, Bought
  <2> QED  BY <1>8, <2>1, RegisterKeeps DEF Register, ConsentTypeOK, Carry
<1>9. ASSUME NEW i \in Ids, NEW t \in Teams, Join(i, t) \/ Leave(i, t)
      PROVE  ConsentTypeOK' /\ Carry'
  BY <1>9 DEF Join, Leave, ConsentTypeOK, Carry, Carries, FlowAt, Chosen, Bought
<1>10. CASE Expire /\ UNCHANGED <<uris, member, grant, flow, shown>>
  <2>1. /\ ticket' \in [Tickets -> {Unused, Ended} \cup Ticket]
        /\ code' \in [Codes -> {Unused} \cup Code]
    BY <1>10, ExpireWrites
  <2> QED  BY <1>10, <2>1 DEF ConsentTypeOK, Carry, Carries, FlowAt, Chosen, Bought
<1> QED
  BY <1>1, <1>2, <1>3, <1>4, <1>5, <1>6, <1>7, <1>8, <1>9, <1>10 DEF ConsentKinds
-----------------------------------------------------------------------------
(* Tickets and codes are used once. *)

LEMMA TicketsKept ==
  ASSUME TicketsOnce,
         \A n \in Tickets : ticket[n] = Ended => ticket'[n] = Ended,
         \A n \in Tickets \ {None}, f \in Flows : HasTicket(f, n)' => HasTicket(f, n),
         \A n \in Tickets \ {None}, m \in Codes : FromTicket(m, n)' => FromTicket(m, n)
  PROVE  TicketsOnce'
BY DEF TicketsOnce

LEMMA CodesKept ==
  ASSUME CodesOnce,
         \A n \in Codes : Spent(n) => Spent(n)',
         \A n \in Codes \ {None}, f \in Flows : HasCode(f, n)' => HasCode(f, n),
         \A n \in Codes \ {None}, g \in Grants : FromCode(g, n)' => FromCode(g, n)
  PROVE  CodesOnce'
BY DEF CodesOnce

LEMMA WorkspaceTickets ==
  ASSUME ConsentTypeOK, TicketsOnce, NEW f \in Flows, Workspace(f)
  PROVE  TicketsOnce'
<1>1. PICK n \in Tickets :
        /\ Open(n) /\ flow[f] = Free
        /\ ticket' = [ticket EXCEPT ![n] = Ended]
        /\ flow' = flow \/ (OthersWait(f) /\ flow'[f].ticket = n)
  BY WorkspaceStarts
<1>2. ticket'[n] = Ended /\ \A m \in Tickets : m # n => ticket'[m] = ticket[m]
  BY <1>1 DEF ConsentTypeOK
<1>3. ticket[n] # Ended /\ code' = code
  BY <1>1 DEF Open, Workspace
<1>4. \A m \in Tickets \ {None}, l \in Codes : FromTicket(l, m)' <=> FromTicket(l, m)
  BY <1>3 DEF FromTicket
<1>5. \A m \in Tickets, g \in Flows : HasTicket(g, m)' => HasTicket(g, m) \/ (g = f /\ m = n)
  BY <1>1 DEF HasTicket, OthersWait
<1> QED  BY <1>2, <1>3, <1>4, <1>5 DEF TicketsOnce

LEMMA StoreTickets ==
  ASSUME ConsentTypeOK, Carry, TicketsOnce, NEW f \in Flows, StoreOAuthCode(f)
  PROVE  TicketsOnce'
<1>1. PICK d \in Codes, k \in Code :
        /\ code[d] = Unused /\ code' = [code EXCEPT ![d] = k] /\ k.ticket = flow[f].ticket
  BY CodeIsStored
<1>2. flow[f] # Free /\ OthersWait(f) /\ flow'[f] = Free /\ ticket' = ticket
  BY CodeIsStored, EndFlowKeeps DEF StoreOAuthCode, FlowAt
<1>3. code'[d] = k /\ \A m \in Codes : m # d => code'[m] = code[m]
  BY <1>1 DEF ConsentTypeOK
<1>4. \A n \in Tickets, g \in Flows : HasTicket(g, n)' => HasTicket(g, n) /\ g # f
  BY <1>2 DEF HasTicket, OthersWait
<1>5. \A n \in Tickets, m \in Codes :
        FromTicket(m, n)' => FromTicket(m, n) \/ (m = d /\ HasTicket(f, n))
  BY <1>1, <1>2, <1>3 DEF FromTicket, HasTicket
<1> QED  BY <1>2, <1>4, <1>5 DEF TicketsOnce

LEMMA TakeCodes ==
  ASSUME ConsentTypeOK, CodesOnce, NEW f \in Flows, TakeOAuthCode(f)
  PROVE  CodesOnce'
<1>1. PICK n \in Codes :
        /\ Live(n) /\ flow[f] = Free
        /\ code' = [code EXCEPT ![n].live = FALSE]
        /\ flow' = flow \/ (OthersWait(f) /\ flow'[f].code = n)
  BY TakeStarts
<1>2. Spent(n)' /\ ~Spent(n) /\ \A m \in Codes : m # n => (Spent(m) <=> Spent(m)')
  BY <1>1, TakeWrites DEF Spent, Live
<1>3. \A m \in Codes \ {None}, g \in Grants : FromCode(g, m)' <=> FromCode(g, m)
  BY DEF FromCode, TakeOAuthCode
<1>4. \A m \in Codes, g \in Flows : HasCode(g, m)' => HasCode(g, m) \/ (g = f /\ m = n)
  BY <1>1 DEF HasCode, OthersWait
<1> QED  BY <1>2, <1>3, <1>4 DEF CodesOnce

LEMMA MintCodes ==
  ASSUME ConsentTypeOK, Carry, CodesOnce, NEW f \in Flows, MintDelegatedGrant(f)
  PROVE  CodesOnce'
<1>1. PICK d \in Grants, k \in Grant :
        /\ grant[d] = Unused /\ grant' = [grant EXCEPT ![d] = k] /\ k.code = flow[f].code
  BY GrantIsMinted
<1>2. flow[f] # Free /\ OthersWait(f) /\ flow'[f] = Free /\ code' = code
  BY GrantIsMinted, EndFlowKeeps DEF MintDelegatedGrant, FlowAt
<1>3. grant'[d] = k /\ \A m \in Grants : m # d => grant'[m] = grant[m]
  BY <1>1 DEF ConsentTypeOK
<1>4. \A n \in Codes, g \in Flows : HasCode(g, n)' => HasCode(g, n) /\ g # f
  BY <1>2 DEF HasCode, OthersWait
<1>5. \A n \in Codes, m \in Grants :
        FromCode(m, n)' => FromCode(m, n) \/ (m = d /\ HasCode(f, n))
  BY <1>1, <1>2, <1>3 DEF FromCode, HasCode
<1>6. \A n \in Codes : Spent(n)' <=> Spent(n)
  BY <1>2 DEF Spent
<1> QED  BY <1>4, <1>5, <1>6 DEF CodesOnce

LEMMA StepSpends ==
  ASSUME ConsentTypeOK, Carry, TicketsOnce, CodesOnce, ConsentKinds
  PROVE  TicketsOnce' /\ CodesOnce'
<1> DEFINE FlowsKeep == \A f \in Flows :
             /\ \A n \in Tickets \ {None} : HasTicket(f, n)' => HasTicket(f, n)
             /\ \A n \in Codes \ {None} : HasCode(f, n)' => HasCode(f, n)
           TablesKeep == UNCHANGED <<ticket, code, grant>>
<1>1. FlowsKeep /\ TablesKeep => TicketsOnce' /\ CodesOnce'
  <2> SUFFICES ASSUME FlowsKeep, TablesKeep PROVE TicketsOnce' /\ CodesOnce'
    OBVIOUS
  <2> USE DEF FlowsKeep, TablesKeep
  <2>1. TicketsOnce'
    BY TicketsKept DEF FromTicket
  <2>2. CodesOnce'
    BY CodesKept DEF FromCode, Spent
  <2> QED  BY <2>1, <2>2
<1>2. ASSUME NEW f \in Flows, Quiet(f)
      PROVE  FlowsKeep /\ TablesKeep
  BY <1>2, QuietSteps DEF Moves, Kept, OthersWait, HasTicket, HasCode
<1>3. ASSUME NEW f \in Flows, AuthorizeSubmit(f)
      PROVE  FlowsKeep /\ TablesKeep
  BY <1>3, SubmitStarts DEF AuthorizeSubmit, OthersWait, HasTicket, HasCode
<1>4. ASSUME NEW f \in Flows, AuthorizeWorkspaces(f)
      PROVE  TicketsOnce' /\ CodesOnce'
  <2>1. FlowsKeep
    BY <1>4, OfferedIsShown, GotoFlowKeeps, EndFlowKeeps
       DEF Pcs, FlowAt, OthersWait, HasTicket, HasCode
  <2>2. \A n \in Tickets : ticket[n] = Ended => ticket'[n] = Ended
    BY <1>4, OfferedIsShown, ConsentShapes DEF ConsentTypeOK
  <2>3. code' = code /\ grant' = grant
    BY <1>4 DEF AuthorizeWorkspaces
  <2>4. TicketsOnce'
    BY <2>1, <2>2, <2>3, TicketsKept DEF FromTicket
  <2>5. CodesOnce'
    BY <2>1, <2>3, CodesKept DEF FromCode, Spent
  <2> QED  BY <2>4, <2>5
<1>5. ASSUME NEW f \in Flows, Workspace(f)
      PROVE  TicketsOnce' /\ CodesOnce'
  <2>1. \A g \in Flows, n \in Codes \ {None} : HasCode(g, n)' => HasCode(g, n)
    BY <1>5, WorkspaceStarts DEF OthersWait, HasCode
  <2>2. CodesOnce'
    BY <1>5, <2>1, CodesKept DEF Workspace, FromCode, Spent
  <2> QED  BY <1>5, <2>2, WorkspaceTickets
<1>6. ASSUME NEW f \in Flows, StoreOAuthCode(f)
      PROVE  TicketsOnce' /\ CodesOnce'
  <2>1. \A g \in Flows, n \in Codes \ {None} : HasCode(g, n)' => HasCode(g, n)
    BY <1>6, CodeIsStored, EndFlowKeeps DEF OthersWait, HasCode
  <2>2. \A n \in Codes : Spent(n) => Spent(n)'
    BY <1>6, CodeIsStored DEF Spent, ConsentTypeOK
  <2>3. CodesOnce'
    BY <1>6, <2>1, <2>2, CodesKept DEF StoreOAuthCode, FromCode
  <2> QED  BY <1>6, <2>3, StoreTickets
<1>7. ASSUME NEW f \in Flows, TakeOAuthCode(f)
      PROVE  TicketsOnce' /\ CodesOnce'
  <2>1. \A g \in Flows, n \in Tickets \ {None} : HasTicket(g, n)' => HasTicket(g, n)
    BY <1>7, TakeStarts DEF OthersWait, HasTicket
  <2>2. \A n \in Tickets, m \in Codes : FromTicket(m, n)' => FromTicket(m, n)
    BY <1>7, TakeStarts, TakeWrites DEF FromTicket, Live
  <2>3. TicketsOnce'
    BY <1>7, <2>1, <2>2, TicketsKept DEF TakeOAuthCode
  <2> QED  BY <1>7, <2>3, TakeCodes
<1>8. ASSUME NEW f \in Flows, MintDelegatedGrant(f)
      PROVE  TicketsOnce' /\ CodesOnce'
  <2>1. \A g \in Flows, n \in Tickets \ {None} : HasTicket(g, n)' => HasTicket(g, n)
    BY <1>8, GrantIsMinted, EndFlowKeeps DEF OthersWait, HasTicket
  <2>2. TicketsOnce'
    BY <1>8, <2>1, TicketsKept DEF MintDelegatedGrant, FromTicket
  <2> QED  BY <1>8, <2>2, MintCodes
<1>9. ASSUME NEW x \in Clients, NEW us, Register(x, us)
      PROVE  FlowsKeep /\ TablesKeep
  BY <1>9, RegisterKeeps DEF Register, HasTicket, HasCode
<1>10. ASSUME NEW i \in Ids, NEW t \in Teams, Join(i, t) \/ Leave(i, t)
       PROVE  FlowsKeep /\ TablesKeep
  BY <1>10 DEF Join, Leave, HasTicket, HasCode
<1>11. CASE Expire /\ UNCHANGED <<uris, member, grant, flow, shown>>
  <2>1. FlowsKeep
    BY <1>11 DEF HasTicket, HasCode
  <2>2. \A n \in Tickets : ticket[n] = Ended => ticket'[n] = Ended
    BY <1>11, ExpireWrites
  <2>3. \A n \in Tickets, m \in Codes : FromTicket(m, n)' => FromTicket(m, n)
    BY <1>11, ExpireWrites DEF FromTicket, Live
  <2>4. \A n \in Codes : Spent(n) => Spent(n)'
    BY <1>11, ExpireWrites DEF Spent
  <2>5. TicketsOnce'
    BY <2>1, <2>2, <2>3, TicketsKept
  <2>6. CodesOnce'
    BY <1>11, <2>1, <2>4, CodesKept DEF FromCode
  <2> QED  BY <2>5, <2>6
<1> HIDE DEF FlowsKeep, TablesKeep
<1> QED
  BY <1>1, <1>2, <1>3, <1>4, <1>5, <1>6, <1>7, <1>8, <1>9, <1>10, <1>11 DEF ConsentKinds
-----------------------------------------------------------------------------
(* What is granted has been shown. *)

LEMMA OthersShown ==
  ASSUME ShownFor, NEW f \in Flows, OthersWait(f), ShownFlow(f)',
         row' = row, shown \in SUBSET shown'
  PROVE  \A g \in Flows : ShownFlow(g)'
<1>1. ASSUME NEW g \in Flows, g # f
      PROVE  ShownFlow(g)'
  BY <1>1 DEF ShownFor, ShownFlow, OthersWait, FlowAt, Chosen, Made, Settled, Present
<1> QED  BY <1>1

LEMMA TablesShown ==
  ASSUME ShownFor, row' = row
  PROVE  /\ shown' = shown => \A s \in shown' : Settled(s[1])'
         /\ shown \in SUBSET shown' /\ code' = code => \A n \in Codes : ShownCode(n)'
         /\ shown \in SUBSET shown' /\ grant' = grant => \A g \in Grants : ShownGrant(g)'
         /\ shown \in SUBSET shown' /\ ticket' = ticket => \A n \in Tickets : ShownTicket(n)'
BY DEF ShownFor, ShownCode, ShownGrant, ShownTicket, Open, Settled, Made, Present

LEMMA SelectShown ==
  ASSUME ConsentTypeOK, Carry, ShownFor, NEW f \in Flows, AuthorizeWorkspaces(f), row' = row
  PROVE  ShownFor'
<1>1. PICK seen \in SUBSET Workspaces :
        /\ shown' = shown \cup {<<flow[f].id, flow[f].client, w>> : w \in seen}
        /\ \/ seen = {Personal} /\ GotoFlow(f, "recheck") /\ ticket' = ticket
           \/ /\ EndFlow(f)
              /\ \E n \in Tickets, k \in Ticket :
                   /\ ticket[n] = Unused /\ ticket' = [ticket EXCEPT ![n] = k]
                   /\ k.id = flow[f].id /\ k.client = flow[f].client /\ k.offered = seen
  BY OfferedIsShown
<1>2. FlowAt(f, "workspaces") /\ flow[f].team = Personal
  BY OfferedIsShown
<1>3. \A s \in shown' : Settled(s[1])'
  <2>1. Settled(flow[f].id) /\ \A s \in shown : Settled(s[1])
    BY <1>2 DEF ShownFor, ShownFlow
  <2>2. ASSUME NEW s \in shown'
        PROVE  Settled(s[1])
    <3>1. CASE s \in shown
      BY <2>1, <3>1
    <3>2. CASE \E w \in seen : s = <<flow[f].id, flow[f].client, w>>
      <4>1. s[1] = flow[f].id
        BY <3>2
      <4> QED  BY <2>1, <4>1
    <3> QED  BY <1>1, <3>1, <3>2
  <2> QED  BY <2>2 DEF Settled, Made, Present
<1>4. OthersWait(f) /\ ShownFlow(f)'
  BY <1>1, <1>2, GotoFlowKeeps, EndFlowKeeps DEF Pcs, FlowAt, ShownFlow, Chosen
<1>5. \A n \in Tickets : ShownTicket(n)'
  <2>1. CASE ticket' = ticket
    BY <1>1, <2>1, TablesShown
  <2>2. ASSUME NEW n \in Tickets, NEW k \in Ticket, ticket' = [ticket EXCEPT ![n] = k],
               k.id = flow[f].id, k.client = flow[f].client, k.offered = seen
        PROVE  \A m \in Tickets : ShownTicket(m)'
    <3>1. ticket'[n] = k /\ \A m \in Tickets : m # n => ticket'[m] = ticket[m]
      BY <2>2 DEF ConsentTypeOK
    <3>2. ShownTicket(n)'
      BY <1>1, <2>2, <3>1 DEF ShownTicket
    <3>3. \A m \in Tickets : m # n => ShownTicket(m)'
      BY <1>1, <3>1 DEF ShownFor, ShownTicket, Open
    <3> QED  BY <3>2, <3>3
  <2> QED  BY <1>1, <2>1, <2>2
<1>6. \A g \in Flows : ShownFlow(g)'
  BY <1>1, <1>4, OthersShown
<1> QED  BY <1>1, <1>3, <1>5, <1>6, TablesShown DEF ShownFor, AuthorizeWorkspaces

LEMMA StepShows ==
  ASSUME ConsentTypeOK, Carry, ShownFor, ConsentKinds, row' = row
  PROVE  ShownFor'
<1>1. ASSUME NEW f \in Flows, Quiet(f)
      PROVE  ShownFor'
  <2>1. OthersWait(f) /\ UNCHANGED <<ticket, code, grant, shown>>
    BY <1>1, QuietSteps
  <2>2. ShownFlow(f)'
    BY <1>1, QuietSteps
       DEF Moves, Kept, ShownFor, ShownFlow, FlowAt, Chosen, Made, Settled, Present
  <2> QED  BY <2>1, <2>2, OthersShown, TablesShown DEF ShownFor
<1>2. ASSUME NEW f \in Flows, AuthorizeSubmit(f)
      PROVE  ShownFor'
  <2>1. OthersWait(f) /\ ShownFlow(f)'
    BY <1>2, SubmitStarts DEF ShownFlow, FlowAt, Chosen
  <2> QED  BY <1>2, <2>1, OthersShown, TablesShown DEF AuthorizeSubmit, ShownFor
<1>3. ASSUME NEW f \in Flows, Workspace(f)
      PROVE  ShownFor'
  <2>1. PICK n \in Tickets :
           /\ Open(n) /\ ticket' = [ticket EXCEPT ![n] = Ended]
           /\ \/ flow' = flow
              \/ /\ OthersWait(f) /\ FlowAt(f, "recheck")'
                 /\ flow'[f].id = ticket[n].id /\ flow'[f].client = ticket[n].client
                 /\ flow'[f].team \in ticket[n].offered
    BY <1>3, WorkspaceStarts
  <2>2. UNCHANGED <<code, grant, shown>>
    BY <1>3 DEF Workspace
  <2>3. \A m \in Tickets : ShownTicket(m)'
    BY <2>1, <2>2 DEF ConsentTypeOK, ShownFor, ShownTicket, Open
  <2>4. \A g \in Flows : ShownFlow(g)'
    <3>1. CASE flow' = flow
      BY <2>2, <3>1 DEF ShownFor, ShownFlow, FlowAt, Chosen, Made, Settled, Present
    <3>2. CASE OthersWait(f) /\ FlowAt(f, "recheck")'
                /\ flow'[f].id = ticket[n].id /\ flow'[f].client = ticket[n].client
                /\ flow'[f].team \in ticket[n].offered
      <4>1. ShownFlow(f)'
        BY <2>1, <2>2, <3>2 DEF ShownFor, ShownTicket, ShownFlow, FlowAt
      <4> QED  BY <2>2, <3>2, <4>1, OthersShown
    <3> QED  BY <2>1, <3>1, <3>2
  <2> QED  BY <2>2, <2>3, <2>4, TablesShown DEF ShownFor
<1>4. ASSUME NEW f \in Flows, StoreOAuthCode(f)
      PROVE  ShownFor'
  <2>1. OthersWait(f) /\ ShownFlow(f)' /\ FlowAt(f, "storeCode")
    BY <1>4, CodeIsStored, EndFlowKeeps DEF ShownFlow, FlowAt, Chosen
  <2>2. UNCHANGED <<ticket, grant, shown>>
    BY <1>4 DEF StoreOAuthCode
  <2>3. PICK n \in Codes, k \in Code :
           /\ code' = [code EXCEPT ![n] = k]
           /\ k.id = flow[f].id /\ k.client = flow[f].client /\ k.team = flow[f].team
    BY <1>4, CodeIsStored
  <2>4. code'[n] = k /\ \A m \in Codes : m # n => code'[m] = code[m]
    BY <2>3 DEF ConsentTypeOK
  <2>5. <<flow[f].id, flow[f].client, flow[f].team>> \in shown
    BY <2>1 DEF ShownFor, ShownFlow, Chosen
  <2>6. \A m \in Codes : ShownCode(m)'
    BY <2>2, <2>3, <2>4, <2>5 DEF ShownFor, ShownCode
  <2> QED  BY <2>1, <2>2, <2>6, OthersShown, TablesShown DEF ShownFor
<1>5. ASSUME NEW f \in Flows, TakeOAuthCode(f)
      PROVE  ShownFor'
  <2>1. PICK n \in Codes :
           /\ Live(n) /\ code' = [code EXCEPT ![n].live = FALSE]
           /\ \/ flow' = flow
              \/ /\ OthersWait(f) /\ FlowAt(f, "resolve")'
                 /\ flow'[f].id = code[n].id /\ flow'[f].client = code[n].client
                 /\ flow'[f].team = code[n].team
    BY <1>5, TakeStarts
  <2>2. UNCHANGED <<ticket, grant, shown>>
    BY <1>5 DEF TakeOAuthCode
  <2>3. \A m \in Codes : ShownCode(m)'
    BY <2>1, <2>2, TakeWrites DEF ShownFor, ShownCode, Live
  <2>4. \A g \in Flows : ShownFlow(g)'
    <3>1. CASE flow' = flow
      BY <2>2, <3>1 DEF ShownFor, ShownFlow, FlowAt, Chosen, Made, Settled, Present
    <3>2. CASE OthersWait(f) /\ FlowAt(f, "resolve")'
                /\ flow'[f].id = code[n].id /\ flow'[f].client = code[n].client
                /\ flow'[f].team = code[n].team
      <4>1. ShownFlow(f)'
        BY <2>1, <2>2, <3>2 DEF ShownFor, ShownCode, ShownFlow, FlowAt, Live
      <4> QED  BY <2>2, <3>2, <4>1, OthersShown
    <3> QED  BY <2>1, <3>1, <3>2
  <2> QED  BY <2>2, <2>3, <2>4, TablesShown DEF ShownFor
<1>6. ASSUME NEW f \in Flows, MintDelegatedGrant(f)
      PROVE  ShownFor'
  <2>1. OthersWait(f) /\ ShownFlow(f)' /\ FlowAt(f, "mint")
    BY <1>6, GrantIsMinted, EndFlowKeeps DEF ShownFlow, FlowAt, Chosen
  <2>2. UNCHANGED <<ticket, code, shown>>
    BY <1>6 DEF MintDelegatedGrant
  <2>3. PICK n \in Grants, k \in Grant :
           /\ grant' = [grant EXCEPT ![n] = k]
           /\ k.id = flow[f].id /\ k.client = flow[f].client /\ k.team = flow[f].team
    BY <1>6, GrantIsMinted
  <2>4. grant'[n] = k /\ \A m \in Grants : m # n => grant'[m] = grant[m]
    BY <2>3 DEF ConsentTypeOK
  <2>5. <<flow[f].id, flow[f].client, flow[f].team>> \in shown
    BY <2>1 DEF ShownFor, ShownFlow, Chosen
  <2>6. \A m \in Grants : ShownGrant(m)'
    BY <2>2, <2>3, <2>4, <2>5 DEF ShownFor, ShownGrant
  <2> QED  BY <2>1, <2>2, <2>6, OthersShown, TablesShown DEF ShownFor
<1>7. ASSUME NEW x \in Clients, NEW us, Register(x, us)
      PROVE  ShownFor'
  <2>1. \A f \in Flows : ShownFlow(f)'
    BY <1>7, RegisterKeeps
       DEF Register, ShownFor, ShownFlow, FlowAt, Chosen, Made, Settled, Present
  <2> QED  BY <1>7, <2>1, TablesShown DEF Register, ShownFor
<1>8. ASSUME NEW i \in Ids, NEW t \in Teams, Join(i, t) \/ Leave(i, t)
      PROVE  ShownFor'
  <2>1. UNCHANGED <<ticket, code, grant, flow, shown>>
    BY <1>8 DEF Join, Leave
  <2>2. \A f \in Flows : ShownFlow(f)'
    BY <2>1 DEF ShownFor, ShownFlow, FlowAt, Chosen, Made, Settled, Present
  <2> QED  BY <2>1, <2>2, TablesShown DEF ShownFor
<1>9. CASE Expire /\ UNCHANGED <<uris, member, grant, flow, shown>>
  <2>1. \A f \in Flows : ShownFlow(f)'
    BY <1>9 DEF ShownFor, ShownFlow, FlowAt, Chosen, Made, Settled, Present
  <2>2. \A n \in Tickets : ShownTicket(n)'
    BY <1>9, ExpireWrites DEF ShownFor, ShownTicket, Open
  <2>3. \A n \in Codes : ShownCode(n)'
    BY <1>9, ExpireWrites DEF ShownFor, ShownCode, Live
  <2> QED  BY <1>9, <2>1, <2>2, <2>3, TablesShown DEF ShownFor
<1> QED
  BY <1>1, <1>2, <1>3, <1>4, <1>5, <1>6, <1>7, <1>8, <1>9, SelectShown DEF ConsentKinds
-----------------------------------------------------------------------------
(* Legacy grants keep apart, and codes leave for registered URIs. *)

LEMMA ApartKept ==
  ASSUME Apart, row' = row, grant' = grant,
         \A s \in shown' : s \in shown
           \/ \E f \in Flows : FlowAt(f, "workspaces") /\ s[1] = flow[f].id,
         \A f \in Flows : flow'[f] = Free \/ flow'[f].pc \notin {"confirmed", "workspaces"}
           \/ (flow[f] # Free /\ flow[f].pc \in {"confirmed", "workspaces"}
                 /\ flow'[f].id = flow[f].id)
           \/ (Present(flow'[f].id) /\ row[flow'[f].id].email # None)
  PROVE  Apart'
<1>1. ASSUME NEW g \in Grants, Legacy(g)
      PROVE  /\ \A s \in shown' : s[1] # grant[g].id
             /\ \A f \in Flows : FlowAt(f, "confirmed")' \/ FlowAt(f, "workspaces")'
                                   => flow'[f].id # grant[g].id
  BY <1>1 DEF Apart, FlowAt, Hidden
<1> QED  BY <1>1 DEF Apart, Legacy, Made, Hidden, Present, FlowAt

LEMMA StepApart ==
  ASSUME ConsentTypeOK, Carry, ShownFor, Apart, ConsentKinds, row' = row
  PROVE  Apart'
<1> DEFINE Tame == \A f \in Flows :
             flow'[f] = Free \/ flow'[f].pc \notin {"confirmed", "workspaces"}
               \/ (flow[f] # Free /\ flow[f].pc \in {"confirmed", "workspaces"}
                     /\ flow'[f].id = flow[f].id)
               \/ (Present(flow'[f].id) /\ row[flow'[f].id].email # None)
<1>1. Tame /\ grant' = grant /\ shown' = shown => Apart'
  BY ApartKept
<1>2. ASSUME NEW f \in Flows, OthersWait(f),
             flow'[f] = Free \/ flow'[f].pc \notin {"confirmed", "workspaces"}
      PROVE  Tame
  BY <1>2 DEF OthersWait
<1>3. ASSUME NEW f \in Flows, Quiet(f)
      PROVE  Tame /\ grant' = grant /\ shown' = shown
  BY <1>3, QuietSteps DEF Moves, Kept, OthersWait
<1>4. ASSUME NEW f \in Flows, AuthorizeSubmit(f)
      PROVE  Tame /\ grant' = grant /\ shown' = shown
  BY <1>2, <1>4, SubmitStarts DEF AuthorizeSubmit, FlowAt
<1>5. ASSUME NEW f \in Flows, AuthorizeWorkspaces(f)
      PROVE  Apart'
  <2>1. Tame
    BY <1>2, <1>5, OfferedIsShown, GotoFlowKeeps, EndFlowKeeps DEF Pcs, FlowAt
  <2>2. \A s \in shown' : s \in shown \/ (FlowAt(f, "workspaces") /\ s[1] = flow[f].id)
    BY <1>5, OfferedIsShown
  <2> QED  BY <1>5, <2>1, <2>2, ApartKept DEF AuthorizeWorkspaces
<1>6. ASSUME NEW f \in Flows, Workspace(f)
      PROVE  Tame /\ grant' = grant /\ shown' = shown
  BY <1>2, <1>6, WorkspaceStarts DEF Workspace, FlowAt
<1>7. ASSUME NEW f \in Flows, StoreOAuthCode(f)
      PROVE  Tame /\ grant' = grant /\ shown' = shown
  BY <1>2, <1>7, CodeIsStored, EndFlowKeeps DEF StoreOAuthCode
<1>8. ASSUME NEW f \in Flows, TakeOAuthCode(f)
      PROVE  Tame /\ grant' = grant /\ shown' = shown
  BY <1>2, <1>8, TakeStarts DEF TakeOAuthCode, FlowAt
<1>9. ASSUME NEW f \in Flows, MintDelegatedGrant(f)
      PROVE  Apart'
  <2>1. PICK n \in Grants, k \in Grant :
           /\ grant[n] = Unused /\ grant' = [grant EXCEPT ![n] = k]
           /\ ~k.legacy /\ k.id = flow[f].id
    BY <1>9, GrantIsMinted
  <2>2. grant'[n] = k /\ \A m \in Grants : m # n => grant'[m] = grant[m]
    BY <2>1 DEF ConsentTypeOK
  <2>3. /\ OthersWait(f) /\ flow'[f] = Free /\ shown' = shown
        /\ <<flow[f].id, flow[f].client, flow[f].team>> \in shown
    BY <1>9, GrantIsMinted, EndFlowKeeps
       DEF MintDelegatedGrant, ShownFor, ShownFlow, Chosen
  <2>4. ASSUME NEW g \in Grants, Legacy(g)'
        PROVE  Legacy(g) /\ g # n /\ grant'[g] = grant[g] /\ flow[f].id # grant[g].id
    BY <2>1, <2>2, <2>3, <2>4 DEF Legacy, Apart
  <2>5. \A g \in Flows : flow'[g] = Free \/ flow'[g] = flow[g]
    BY <2>3 DEF OthersWait
  <2>6. ASSUME NEW g \in Grants, Legacy(g)'
        PROVE  /\ Made(grant[g].id) /\ Hidden(grant[g].id)
               /\ grant[g].revoked => ~Present(grant[g].id)
               /\ \A s \in shown' : s[1] # grant[g].id
               /\ \A e \in Flows : FlowAt(e, "confirmed")' \/ FlowAt(e, "workspaces")'
                                     => flow'[e].id # grant[g].id
               /\ \A h \in Grants : grant'[h] # Unused /\ grant'[h].id = grant[g].id => h = g
    <3>1. Legacy(g) /\ flow[f].id # grant[g].id
      BY <2>4, <2>6
    <3>2. \A h \in Grants : grant'[h] # Unused /\ grant'[h].id = grant[g].id => h = g
      BY <2>1, <2>2, <3>1 DEF Apart
    <3> QED  BY <2>3, <2>5, <3>1, <3>2 DEF Apart, FlowAt
  <2> QED  BY <2>4, <2>6 DEF Apart, Legacy, Made, Hidden, Present, FlowAt
<1>10. ASSUME NEW x \in Clients, NEW us, Register(x, us)
       PROVE  Tame /\ grant' = grant /\ shown' = shown
  BY <1>10, RegisterKeeps DEF Register
<1>11. ASSUME NEW i \in Ids, NEW t \in Teams, Join(i, t) \/ Leave(i, t)
       PROVE  Tame /\ grant' = grant /\ shown' = shown
  BY <1>11 DEF Join, Leave
<1>12. CASE Expire /\ UNCHANGED <<uris, member, grant, flow, shown>>
  <2>1. Tame
    BY <1>12
  <2> QED  BY <1>1, <1>12, <2>1
<1> HIDE DEF Tame
<1> QED
  BY <1>1, <1>3, <1>4, <1>5, <1>6, <1>7, <1>8, <1>9, <1>10, <1>11, <1>12 DEF ConsentKinds

LEMMA OthersSent ==
  ASSUME Sent, uris' = uris, NEW f \in Flows, OthersWait(f),
         FlowAt(f, "storeCode")' => \/ Registered(flow[f].client, flow[f].uri)'
                                    \/ flow'[f].moved
  PROVE  Sent'
<1>1. ASSUME NEW g \in Flows, g # f, FlowAt(g, "storeCode")'
      PROVE  Registered(flow[g].client, flow[g].uri)' \/ flow'[g].moved
  BY <1>1 DEF Sent, OthersWait, FlowAt, Registered
<1> QED  BY <1>1 DEF Sent

LEMMA StepSends ==
  ASSUME ConsentTypeOK, Carry, Sent, ConsentKinds
  PROVE  Sent'
<1>1. ASSUME NEW f \in Flows, Quiet(f)
      PROVE  Sent'
  <2>1. FlowAt(f, "storeCode")' => Registered(flow[f].client, flow[f].uri)'
    BY <1>1, QuietSteps DEF Moves, Kept, FlowAt, Registered
  <2> QED  BY <1>1, <2>1, QuietSteps, OthersSent
<1>2. ASSUME NEW f \in Flows, AuthorizeSubmit(f)
      PROVE  Sent'
  BY <1>2, SubmitStarts, OthersSent DEF AuthorizeSubmit, FlowAt
<1>3. ASSUME NEW f \in Flows, AuthorizeWorkspaces(f)
      PROVE  Sent'
  <2>1. OthersWait(f) /\ ~FlowAt(f, "storeCode")'
    BY <1>3, OfferedIsShown, GotoFlowKeeps, EndFlowKeeps DEF Pcs, FlowAt
  <2> QED  BY <1>3, <2>1, OthersSent DEF AuthorizeWorkspaces
<1>4. ASSUME NEW f \in Flows, Workspace(f)
      PROVE  Sent'
  <2>1. flow' = flow \/ (OthersWait(f) /\ FlowAt(f, "recheck")')
    BY <1>4, WorkspaceStarts
  <2>2. uris' = uris
    BY <1>4 DEF Workspace
  <2> QED  BY <2>1, <2>2, OthersSent DEF Sent, FlowAt, Registered
<1>5. ASSUME NEW f \in Flows, StoreOAuthCode(f)
      PROVE  Sent'
  BY <1>5, CodeIsStored, EndFlowKeeps, OthersSent DEF StoreOAuthCode, FlowAt
<1>6. ASSUME NEW f \in Flows, TakeOAuthCode(f)
      PROVE  Sent'
  <2>1. flow' = flow \/ (OthersWait(f) /\ FlowAt(f, "resolve")')
    BY <1>6, TakeStarts
  <2>2. uris' = uris
    BY <1>6 DEF TakeOAuthCode
  <2> QED  BY <2>1, <2>2, OthersSent DEF Sent, FlowAt, Registered
<1>7. ASSUME NEW f \in Flows, MintDelegatedGrant(f)
      PROVE  Sent'
  BY <1>7, GrantIsMinted, EndFlowKeeps, OthersSent DEF MintDelegatedGrant, FlowAt
<1>8. ASSUME NEW x \in Clients, NEW us, Register(x, us)
      PROVE  Sent'
  <2>1. ASSUME NEW f \in Flows, FlowAt(f, "storeCode")'
        PROVE  Registered(flow[f].client, flow[f].uri)' \/ flow'[f].moved
    <3>1. CASE flow'[f].moved
      BY <3>1
    <3>2. CASE flow'[f] = flow[f] /\ flow[f].client # x
      <4>1. flow[f].client \in Clients
        BY <2>1, <3>2, FlowIsRecord DEF FlowAt, FlowRecord
      <4>2. uris'[flow[f].client] = uris[flow[f].client]
        BY <1>8, <3>2, <4>1, RegisterKeeps
      <4> QED  BY <2>1, <3>2, <4>2 DEF Sent, FlowAt, Registered
    <3> QED  BY <1>8, <2>1, <3>1, <3>2, RegisterKeeps DEF FlowAt
  <2> QED  BY <2>1 DEF Sent
<1>9. CASE (\E i \in Ids, t \in Teams : Join(i, t) \/ Leave(i, t))
             \/ (Expire /\ UNCHANGED <<uris, member, grant, flow, shown>>)
  BY <1>9 DEF Join, Leave, Sent, FlowAt, Registered
<1> QED
  BY <1>1, <1>2, <1>3, <1>4, <1>5, <1>6, <1>7, <1>8, <1>9 DEF ConsentKinds

-----------------------------------------------------------------------------
(* The accounts. *)

LEMMA AccountsKept ==
  ASSUME IInv, UNCHANGED vars
  PROVE  IInv'
BY NextInv

\* Rows may be made and go while the handlers wait.
LEMMA RowsOnly ==
  ASSUME IInv, RowAges, UNCHANGED <<session, issued, redeemed, call>>
  PROVE  IInv'
<1>1. \A i \in Ids : (Made(i) => Made(i)') /\ (Settled(i) => Settled(i)')
  BY AgeingSettles DEF RowAges
<1>2. TypeOK' /\ InOrder'
  BY DEF IInv, TypeOK, RowAges, Rows, InOrder, Ordered, At
<1>3. \A i \in Ids, k \in ResetTokens : Has(i, k)' => Has(i, k)
  BY DEF RowAges, NoNewToken
<1>4. \A s \in Sessions : session[s] \in Entry => session[s].id \in Ids
  BY DEF Entry
<1>5. \A c \in Calls : call[c] # Free => call[c].id \in Ids
  BY BusyIsRecord DEF IInv, CallRecord
<1>6. Entered'
  <2>1. ASSUME NEW s \in Sessions, session[s] \in Entry
        PROVE  /\ Made(session[s].id)'
               /\ session'[s].by # "reset" => Settled(session[s].id)'
    BY <1>1, <1>4, <2>1 DEF IInv, Entered, Made, Settled, Present
  <2>2. ASSUME NEW c \in Calls, call[c] # Free
        PROVE  /\ Made(call[c].id)'
               /\ At(c, "session")' /\ call'[c].op # "reset" => Settled(call[c].id)'
    BY <1>1, <1>5, <2>2 DEF IInv, Entered, Made, Settled, Present, At
  <2> QED  BY <2>1, <2>2 DEF Entered
<1>7. ASSUME NEW c \in Calls, At(c, "setPassword")
      PROVE  call[c].token \in ResetTokens
  BY <1>7 DEF IInv, InOrder, Ordered
<1>8. TokensOnce'
  BY <1>3, <1>7 DEF IInv, TokensOnce, At
<1>9. UsedTokensAreDead'
  BY <1>3 DEF IInv, UsedTokensAreDead, Has
<1> QED  BY <1>2, <1>6, <1>8, <1>9 DEF IInv

\* What has been shown stays so as rows age, ...
LEMMA AgeingShows ==
  ASSUME ConsentTypeOK, Carry, ShownFor, Sent, \A i \in Ids : Ages(i),
         UNCHANGED <<uris, member, ticket, code, flow, shown>>
  PROVE  /\ Carry' /\ Sent'
         /\ (\A g \in Grants : ShownGrant(g)') => ShownFor'
<1>1. Carry' /\ Sent'
  BY DEF Carry, Carries, Chosen, Bought, FlowAt, Sent, Registered
<1>2. \A i \in Ids : (Made(i) => Made(i)') /\ (Settled(i) => Settled(i)')
  BY AgeingSettles
<1>3. \A s \in shown : s[1] \in Ids
  BY DEF ConsentTypeOK
<1>4. \A s \in shown' : Settled(s[1])'
  BY <1>2, <1>3 DEF ShownFor
<1>5. ASSUME NEW f \in Flows
      PROVE  ShownFlow(f)'
  <2>1. FlowAt(f, "confirmed") \/ FlowAt(f, "workspaces") => flow[f].id \in Ids
    BY DEF Carry, Carries
  <2> QED  BY <1>2, <2>1 DEF ShownFor, ShownFlow, FlowAt, Chosen, Made, Settled, Present
<1> QED  BY <1>1, <1>4, <1>5 DEF ShownFor, ShownTicket, ShownCode, Open

\* ... and so does what is hidden.
LEMMA AgeingHides ==
  ASSUME ConsentTypeOK, Apart, \A i \in Ids : Ages(i), NEW g \in Grants, Legacy(g)
  PROVE  /\ row'[grant[g].id] # Absent
         /\ row'[grant[g].id] \notin {Absent, Deleted} =>
              /\ row'[grant[g].id].by = "grant" /\ row'[grant[g].id].email = None
              /\ ~grant[g].revoked
<1>1. grant[g].id \in Ids /\ Made(grant[g].id) /\ Hidden(grant[g].id)
  BY DEF ConsentTypeOK, Grant, Legacy, Apart
<1>2. \A i \in Ids : Made(i) => /\ row'[i] # Absent /\ (Hidden(i) => Hidden(i)')
                                /\ row'[i] \notin {Absent, Deleted} => Present(i)
  BY DEF Ages, Made, Present
<1>3. grant[g].revoked => ~Present(grant[g].id)
  BY DEF Apart
<1> QED  BY <1>1, <1>2, <1>3 DEF Hidden, Present

LEMMA AgeingKeeps ==
  ASSUME ConsentTypeOK, Carry, ShownFor, Apart, Sent, UNCHANGED consent,
         \A i \in Ids : Ages(i)
  PROVE  ConsentTypeOK' /\ Carry' /\ ShownFor' /\ Apart' /\ Sent'
<1>1. ConsentTypeOK'
  BY DEF consent, ConsentTypeOK
<1>2. Carry' /\ Sent' /\ ShownFor'
  BY AgeingShows DEF consent, ShownFor, ShownGrant
<1>3. Apart'
  BY AgeingHides DEF consent, Apart, Legacy, FlowAt, Made, Hidden, Present
<1> QED  BY <1>1, <1>2, <1>3
-----------------------------------------------------------------------------
(* Minting and revoking at the admin's. *)

LEMMA MintKeeps ==
  ASSUME CInv, MintGrant
  PROVE  CInv'
<1> USE DEF CInv
<1>1. PICK i \in Ids, d \in Grants, k \in Grant :
        /\ row[i] = Absent /\ Made(i)' /\ Hidden(i)'
        /\ grant[d] = Unused /\ grant' = [grant EXCEPT ![d] = k]
        /\ k.id = i /\ k.legacy /\ ~k.revoked /\ k.code = None
  BY HiddenIsMinted DEF IInv
<1>2. /\ RowAges /\ UNCHANGED <<session, issued, redeemed, call>>
      /\ UNCHANGED <<uris, member, ticket, code, flow, shown>>
  BY HiddenIsMinted DEF IInv
<1>3. grant'[d] = k /\ \A g \in Grants : g # d => grant'[g] = grant[g]
  BY <1>1 DEF ConsentTypeOK
<1>4. IInv'
  BY <1>2, RowsOnly
<1>5. ConsentTypeOK'
  BY <1>1, <1>2 DEF ConsentTypeOK
<1>6. \A n \in Codes \ {None}, g \in Grants : FromCode(g, n)' => FromCode(g, n)
  BY <1>1, <1>3 DEF FromCode
<1>7. TicketsOnce'
  BY <1>2, TicketsKept DEF HasTicket, FromTicket
<1>8. CodesOnce'
  BY <1>2, <1>6, CodesKept DEF HasCode, Spent
<1>9. \A g \in Grants : ShownGrant(g)'
  BY <1>1, <1>2, <1>3 DEF ShownFor, ShownGrant
<1>10. Carry' /\ Sent' /\ ShownFor'
  BY <1>2, <1>9, AgeingShows DEF RowAges
<1>11. \A s \in shown : s[1] # i
  BY <1>1 DEF ShownFor, Settled, Made
<1>12. \A g \in Grants : grant[g] # Unused => grant[g].id # i
  BY <1>1, <1>11 DEF ShownFor, ShownGrant, Apart, Legacy, Made
<1>13. \A f \in Flows : FlowAt(f, "confirmed") \/ FlowAt(f, "workspaces") => flow[f].id # i
  BY <1>1 DEF ShownFor, ShownFlow, Settled, Made
<1>14. ASSUME NEW g \in Grants, g # d, Legacy(g)
       PROVE  /\ Made(grant[g].id)' /\ Hidden(grant[g].id)'
              /\ grant'[g].revoked => ~Present(grant[g].id)'
              /\ \A h \in Grants : grant'[h] # Unused /\ grant'[h].id = grant'[g].id => h = g
  <2>1. grant'[g] = grant[g]
    BY <1>3, <1>14
  <2>2. Made(grant[g].id)' /\ Hidden(grant[g].id)' /\ (grant'[g].revoked => ~Present(grant[g].id)')
    BY <1>2, <1>14, <2>1, AgeingHides DEF RowAges, Made, Hidden, Present
  <2>3. \A h \in Grants : grant'[h] # Unused /\ grant'[h].id = grant'[g].id => h = g
    BY <1>1, <1>3, <1>12, <1>14, <2>1 DEF Apart, Legacy
  <2> QED  BY <2>2, <2>3
<1>15. /\ Made(grant[d].id)' /\ Hidden(grant[d].id)' /\ ~grant'[d].revoked
       /\ \A h \in Grants : grant'[h] # Unused /\ grant'[h].id = grant'[d].id => h = d
  BY <1>1, <1>3, <1>12 DEF Made, Hidden, Present
<1>16. \A g \in Grants : Legacy(g)' => g = d \/ (Legacy(g) /\ grant'[g] = grant[g])
  BY <1>3 DEF Legacy
<1>17. Apart'
  BY <1>1, <1>2, <1>3, <1>11, <1>13, <1>14, <1>15, <1>16 DEF Apart, FlowAt
<1> QED  BY <1>4, <1>5, <1>7, <1>8, <1>10, <1>17

LEMMA RevokeKeeps ==
  ASSUME CInv, NEW d \in Grants, RevokeGrant(d)
  PROVE  CInv'
<1> USE DEF CInv
<1>1. PICK k \in Grant :
        /\ grant' = [grant EXCEPT ![d] = k] /\ k.revoked
        /\ k.id = grant[d].id /\ k.client = grant[d].client /\ k.team = grant[d].team
        /\ k.legacy = grant[d].legacy /\ k.code = grant[d].code
  BY GrantIsRevoked DEF IInv
<1>2. /\ RowAges /\ UNCHANGED <<session, issued, redeemed, call>>
      /\ UNCHANGED <<uris, member, ticket, code, flow, shown>>
      /\ grant[d] # Unused
      /\ grant[d].legacy => row'[grant[d].id] = Deleted
  BY GrantIsRevoked DEF IInv, RevokeGrant
<1>3. grant'[d] = k /\ \A g \in Grants : g # d => grant'[g] = grant[g]
  BY <1>1 DEF ConsentTypeOK
<1>4. IInv'
  BY <1>2, RowsOnly
<1>5. ConsentTypeOK'
  BY <1>1, <1>2 DEF ConsentTypeOK
<1>6. \A n \in Codes \ {None}, g \in Grants : FromCode(g, n)' => FromCode(g, n)
  BY <1>1, <1>2, <1>3 DEF FromCode
<1>7. TicketsOnce'
  BY <1>2, TicketsKept DEF HasTicket, FromTicket
<1>8. CodesOnce'
  BY <1>2, <1>6, CodesKept DEF HasCode, Spent
<1>9. \A g \in Grants : ShownGrant(g)'
  BY <1>1, <1>2, <1>3 DEF ShownFor, ShownGrant
<1>10. Carry' /\ Sent' /\ ShownFor'
  BY <1>2, <1>9, AgeingShows DEF RowAges
<1>11. \A g \in Grants : /\ grant'[g] # Unused => grant[g] # Unused
                         /\ grant[g] # Unused => grant'[g].id = grant[g].id
                                                 /\ grant'[g].legacy = grant[g].legacy
  BY <1>1, <1>2, <1>3
<1>12. ASSUME NEW g \in Grants, Legacy(g)'
       PROVE  /\ Legacy(g) /\ grant'[g].id = grant[g].id
              /\ row'[grant[g].id] # Absent
              /\ row'[grant[g].id] \notin {Absent, Deleted} =>
                   /\ row'[grant[g].id].by = "grant" /\ row'[grant[g].id].email = None
                   /\ ~grant'[g].revoked
  <2>1. Legacy(g) /\ grant'[g].id = grant[g].id
    BY <1>11, <1>12 DEF Legacy
  <2> QED  BY <1>2, <1>3, <2>1, AgeingHides DEF RowAges, Legacy
<1>13. \A g, h \in Grants : Legacy(g) /\ grant'[h] # Unused /\ grant'[h].id = grant[g].id => h = g
  BY <1>11 DEF Apart
<1>14. Apart'
  BY <1>2, <1>12, <1>13 DEF Apart, FlowAt, Made, Hidden, Present
<1> QED  BY <1>4, <1>5, <1>7, <1>8, <1>10, <1>14
-----------------------------------------------------------------------------

LEMMA ConsentInitInv == Init /\ ConsentInit => CInv
<1> SUFFICES ASSUME Init, ConsentInit PROVE CInv
  OBVIOUS
<1>1. IInv /\ ConsentTypeOK /\ Carry
  BY InitInv, InitConsentTypes
<1>2. TicketsOnce /\ CodesOnce
  BY DEF ConsentInit, TicketsOnce, CodesOnce, HasTicket, FromTicket, HasCode, FromCode
<1>3. ShownFor /\ Apart /\ Sent
  BY DEF ConsentInit, ShownFor, ShownFlow, ShownTicket, ShownCode, ShownGrant, Open,
         FlowAt, Chosen, Apart, Legacy, Sent
<1> QED  BY <1>1, <1>2, <1>3 DEF CInv

LEMMA ConsentNextInv == CInv /\ [ConsentNext]_all => CInv'
<1> SUFFICES ASSUME CInv, [ConsentNext]_all PROVE CInv'
  OBVIOUS
<1>1. CASE ConsentStep /\ UNCHANGED vars
  <2>1. IInv' /\ row' = row
    BY <1>1, AccountsKept DEF CInv, vars
  <2> QED
    BY <1>1, <2>1, Kinds, StepTypes, StepSpends, StepShows, StepApart, StepSends DEF CInv
<1>2. CASE Next /\ UNCHANGED consent
  <2>1. IInv' /\ \A i \in Ids : Ages(i)
    BY <1>2, NextInv, Steps DEF CInv, IInv
  <2>2. TicketsOnce' /\ CodesOnce'
    BY <1>2 DEF consent, CInv, TicketsOnce, CodesOnce, HasTicket, FromTicket, HasCode,
               FromCode, Spent
  <2> QED  BY <1>2, <2>1, <2>2, AgeingKeeps DEF CInv
<1>3. CASE UNCHANGED all
  <2>1. IInv' /\ \A i \in Ids : Ages(i)
    BY <1>3, AccountsKept DEF all, vars, CInv, Ages, Made, Hidden, Present
  <2>2. TicketsOnce' /\ CodesOnce'
    BY <1>3 DEF all, consent, CInv, TicketsOnce, CodesOnce, HasTicket, FromTicket, HasCode,
               FromCode, Spent
  <2> QED  BY <1>3, <2>1, <2>2, AgeingKeeps DEF CInv, all
<1> QED  BY <1>1, <1>2, <1>3, MintKeeps, RevokeKeeps DEF ConsentNext

LEMMA ConsentInductive == ConsentSpec => []CInv
BY ConsentInitInv, ConsentNextInv, PTL DEF ConsentSpec

\* The tables, the handlers and the requests keep their types, with both flows at
\* work on the accounts.
THEOREM ConsentTypeCorrect == ConsentSpec => [](TypeOK /\ ConsentTypeOK)
<1>1. CInv => TypeOK /\ ConsentTypeOK
  BY DEF CInv, IInv
<1> QED  BY <1>1, ConsentInductive, PTL

\* A ticket buys at most one code and a code at most one grant, for any number of
\* requests that present them at once.
THEOREM TicketsAndCodesAreSpentOnce == ConsentSpec => []SpentOnce
<1>1. CInv => SpentOnce
  <2> SUFFICES ASSUME CInv PROVE SpentOnce
    OBVIOUS
  <2>1. ASSUME NEW m \in Codes, NEW n \in Codes, code[m] # Unused, code[n] # Unused,
               code[m].ticket = code[n].ticket, code[m].ticket # None
        PROVE  m = n
    <3>1. code[m].ticket \in Tickets \ {None}
      BY <2>1 DEF CInv, ConsentTypeOK, Code
    <3> QED  BY <2>1, <3>1 DEF CInv, TicketsOnce, FromTicket
  <2>2. ASSUME NEW g \in Grants, NEW h \in Grants, grant[g] # Unused, grant[h] # Unused,
               grant[g].code = grant[h].code, grant[g].code # None
        PROVE  g = h
    <3>1. grant[g].code \in Codes \ {None}
      BY <2>2 DEF CInv, ConsentTypeOK, Grant
    <3> QED  BY <2>2, <3>1 DEF CInv, CodesOnce, FromCode
  <2> QED  BY <2>1, <2>2 DEF SpentOnce
<1> QED  BY <1>1, ConsentInductive, PTL

\* Every code and delegated grant is for a client and a workspace its user was
\* shown after logging in to a confirmed account.
THEOREM CodesAndGrantsAreConsented == ConsentSpec => []GrantsAreConsented
<1>1. CInv => GrantsAreConsented
  BY DEF CInv, ShownFor, ShownCode, ShownGrant, Settled, GrantsAreConsented
<1> QED  BY <1>1, ConsentInductive, PTL

\* With the consent flow at work too, login and confirming still open sessions of
\* confirmed accounts only and spent reset tokens stay dead.
THEOREM AccountsStaySound == ConsentSpec => [](EntryIsConfirmed /\ UsedTokensAreDead)
<1>1. CInv => EntryIsConfirmed /\ UsedTokensAreDead
  BY DEF CInv, IInv, Entered, Settled, EntryIsConfirmed
<1> QED  BY <1>1, ConsentInductive, PTL

\* A code leaves for a URI its client has registered by then, unless the client
\* has registered again since finishAuthorize looked.
THEOREM CodesLeaveForRegisteredUris == ConsentSpec => CodesGoWhereRegistered
<1> DEFINE Goes == \A f \in Flows :
             FlowAt(f, "storeCode") /\ code' # code /\ flow'[f] = Free =>
               Registered(flow[f].client, flow[f].uri) \/ flow[f].moved
<1>1. CInv => Goes
  BY DEF CInv, Sent
<1> HIDE DEF Goes
<1>2. CInv /\ CInv' /\ [ConsentNext]_all => [Goes]_all
  BY <1>1
<1>3. ConsentSpec => [][Goes]_all
  BY <1>2, ConsentInductive, PTL DEF ConsentSpec
<1> QED  BY <1>3 DEF CodesGoWhereRegistered, Goes

\* Only RevokeGrant revokes.
LEMMA GrantSteps ==
  ASSUME CInv, [ConsentNext]_all, NEW g \in Grants, grant'[g] # Unused, grant'[g].revoked
  PROVE  grant'[g] = grant[g] \/ RevokeGrant(g)
<1> USE DEF CInv
<1>1. CASE grant' = grant
  BY <1>1
<1>2. CASE MintGrant
  <2>1. PICK d \in Grants, k \in Grant : grant' = [grant EXCEPT ![d] = k] /\ ~k.revoked
    BY <1>2, HiddenIsMinted DEF IInv
  <2> QED  BY <2>1 DEF ConsentTypeOK
<1>3. CASE \E f \in Flows : MintDelegatedGrant(f)
  <2>1. PICK d \in Grants, k \in Grant : grant' = [grant EXCEPT ![d] = k] /\ ~k.revoked
    BY <1>3, GrantIsMinted
  <2> QED  BY <2>1 DEF ConsentTypeOK
<1>4. CASE \E d \in Grants : RevokeGrant(d)
  <2>1. PICK d \in Grants : RevokeGrant(d)
    BY <1>4
  <2>2. \A h \in Grants : h # d => grant'[h] = grant[h]
    BY <2>1, GrantIsRevoked DEF IInv, ConsentTypeOK
  <2> QED  BY <2>1, <2>2
<1> QED
  BY <1>1, <1>2, <1>3, <1>4
     DEF ConsentNext, ConsentStep, all, consent, Request, AuthorizeSubmit, AuthorizePassword,
         AuthorizeConfirmed, AuthorizeWorkspaces, Workspace, Recheck, StoreOAuthCode,
         TakeOAuthCode, ResolveOwner, AssertMemberOfTeam, Register, Join, Leave

\* A revoked grant authenticates nobody, from then on, and takes nobody else's
\* access with it: legacy or delegated, whoever else holds grants of the account.
THEOREM RevokingIsExact == ConsentSpec => RevocationIsExact
<1> DEFINE Exact(g) == grant'[g] # Unused /\ grant'[g].revoked =>
       /\ ~Resolves(g)'
       /\ grant[g].revoked \/
            /\ \A h \in Grants \ {g} : Resolves(h) => Resolves(h)'
            /\ \A i \in Ids : Present(i) /\ (grant[g].legacy => i # grant[g].id)
                                => Present(i)'
<1>1. CInv /\ CInv' /\ [ConsentNext]_all => \A g \in Grants : Exact(g)
  <2> SUFFICES ASSUME CInv, CInv', [ConsentNext]_all, NEW g \in Grants,
                      grant'[g] # Unused, grant'[g].revoked
               PROVE  Exact(g)
    OBVIOUS
  <2>1. ~Resolves(g)'
    BY DEF CInv, Apart, Legacy, Resolves, Present
  <2>2. CASE grant'[g] = grant[g]
    BY <2>1, <2>2
  <2>3. CASE RevokeGrant(g)
    <3>1. /\ grant[g].legacy => row'[grant[g].id] = Deleted
          /\ \A i \in Ids : i # grant[g].id \/ ~grant[g].legacy => row'[i] = row[i]
          /\ \A h \in Grants : h # g => grant'[h] = grant[h]
          /\ grant[g] # Unused
      BY <2>3, GrantIsRevoked DEF CInv, IInv, ConsentTypeOK, RevokeGrant
    <3>2. ASSUME NEW h \in Grants, h # g, Resolves(h)
          PROVE  Resolves(h)'
      <4>1. grant[h] # Unused /\ grant[h].id \in Ids
        BY <3>2 DEF Resolves, CInv, ConsentTypeOK, Grant
      <4>2. grant[h].id # grant[g].id \/ ~grant[g].legacy
        BY <3>1, <3>2, <4>1 DEF CInv, Apart, Legacy
      <4> QED  BY <3>1, <3>2, <4>1, <4>2 DEF Resolves, Present
    <3>3. \A i \in Ids : Present(i) /\ (grant[g].legacy => i # grant[g].id) => Present(i)'
      BY <3>1 DEF Present
    <3> QED  BY <2>1, <3>2, <3>3
  <2> QED  BY <2>2, <2>3, GrantSteps
<1>2. (\A g \in Grants : Exact(g)) => [\A g \in Grants : Exact(g)]_all
  OBVIOUS
<1> HIDE DEF Exact
<1>3. ConsentSpec => [][\A g \in Grants : Exact(g)]_all
  BY <1>1, <1>2, ConsentInductive, PTL DEF ConsentSpec
<1> QED  BY <1>3 DEF RevocationIsExact, Exact
=============================================================================
