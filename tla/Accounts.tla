------------------------------- MODULE Accounts -------------------------------
(***************************************************************************)
(* Accounts and browser sessions: the identities and sessions tables of    *)
(* the registry (src/internal/db/users.go, registry.go) and the handlers   *)
(* of src/internal/api/session.go and admin_handlers.go over them.  Each   *)
(* handler is a sequence of SQL statements with no transaction around      *)
(* them; handlers interleave between the statements, and may fail there.   *)
(*                                                                         *)
(* A password stands for its hash.  Flags, names and memory files are left *)
(* out.  A row's confirmation token is issued once, at signup, so the row  *)
(* stands for it; reset tokens and session ids are drawn from fresh ones.  *)
(***************************************************************************)
EXTENDS Naturals

CONSTANTS Ids,          \* identity rows (bound: accounts ever made)
          Emails,       \* normalized addresses
          Passwords,
          ResetTokens,  \* (bound: resets ever asked for)
          Sessions,     \* session ids (bound: sessions ever opened)
          Calls,        \* handlers that may be under way at once
          None          \* NULL in a column

ASSUME NoneAssumption == None \notin Emails \cup Passwords \cup ResetTokens

Absent  == [row |-> "absent"]
Deleted == [row |-> "deleted"]

\* A row of identities.
Row == [email : Emails \cup {None}, password : Passwords \cup {None},
        confirmed : BOOLEAN, confirm : {"unset", "live", "expired", "used"},
        reset : ResetTokens \cup {None}, resetLive : BOOLEAN,
        by : {"signup", "admin", "process", "grant"}]  \* (history) who made it

\* A session, and (history) what opened it.
Entry  == [id : Ids, by : {"login", "confirm", "reset"}]
Unused == [never |-> TRUE]
Ended  == [never |-> FALSE]  \* logged out or expired

VARIABLES
  row,       \* row[i]: the identity's row, Absent or Deleted
  session,   \* session[s]: an Entry, Unused or Ended
  issued,    \* the reset tokens handed out
  redeemed,  \* redeemed[k]: (history) how often k set a password
  call       \* call[c]: the handler under way, or Free

vars == <<row, session, issued, redeemed, call>>

CallRecord ==
  [op : {"signup", "confirm", "login", "forgot", "reset"}, id : Ids,
   password : Passwords \cup {None}, token : ResetTokens \cup {None},
   pc : {"issueConfirm", "confirm", "checkConfirmed", "issueReset", "setPassword",
         "session"}]
Free == [op |-> "free"]

Present(i) == row[i] \notin {Absent, Deleted}
At(c, pc)  == call[c] # Free /\ call[c].pc = pc

Init ==
  /\ row = [i \in Ids |-> Absent]
  /\ session = [s \in Sessions |-> Unused]
  /\ issued = {}
  /\ redeemed = [k \in ResetTokens |-> 0]
  /\ call = [c \in Calls |-> Free]

Begin(c, op, i, p, k, pc) ==
  /\ call[c] = Free
  /\ call' = [call EXCEPT ![c] = [op |-> op, id |-> i, password |-> p, token |-> k,
                                  pc |-> pc]]

Goto(c, pc) == call' = [call EXCEPT ![c].pc = pc]
Return(c)   == call' = [call EXCEPT ![c] = Free]
-----------------------------------------------------------------------------
(* Making accounts. *)

\* One INSERT into identities; a row's e-mail, if it has one, is UNIQUE.
Insert(i, e, p, confirmed, by) ==
  /\ row[i] = Absent
  /\ e # None => \A j \in Ids : Present(j) => row[j].email # e
  /\ row' = [row EXCEPT ![i] =
               [email |-> e, password |-> p, confirmed |-> confirmed, confirm |-> "unset",
                reset |-> None, resetLive |-> FALSE, by |-> by]]

\* CreateUnconfirmed: the row first, its confirmation token in a second statement.
Signup(c) ==
  \E i \in Ids, e \in Emails, p \in Passwords :
    /\ Insert(i, e, p, FALSE, "signup")
    /\ Begin(c, "signup", i, p, None, "issueConfirm")
    /\ UNCHANGED <<session, issued, redeemed>>

\* UPDATE ... WHERE id: of a row that has gone meanwhile, nothing.
SetConfirmToken(c) ==
  LET i == call[c].id IN
  /\ At(c, "issueConfirm")
  /\ row' = IF Present(i) THEN [row EXCEPT ![i].confirm = "live"] ELSE row
  /\ Return(c)
  /\ UNCHANGED <<session, issued, redeemed>>

\* handleCreateUser: an account made by an admin is confirmed.
AdminCreateUser ==
  \E i \in Ids, e \in Emails, p \in Passwords :
    Insert(i, e, p, TRUE, "admin") /\ UNCHANGED <<session, issued, redeemed, call>>

\* A row the process acts as, with no e-mail and no password.
CreateIdentity ==
  \E i \in Ids :
    Insert(i, None, None, FALSE, "process") /\ UNCHANGED <<session, issued, redeemed, call>>

\* bootstrapAdmin adopts such a row, the master key's, as the admin's; it does not
\* confirm it.
PromoteToAdmin ==
  \E i \in Ids, e \in Emails, p \in Passwords :
    /\ Present(i) /\ row[i].by = "process"
    /\ \A j \in Ids \ {i} : Present(j) => row[j].email # e
    /\ row' = [row EXCEPT ![i].email = e, ![i].password = p]
    /\ UNCHANGED <<session, issued, redeemed, call>>
-----------------------------------------------------------------------------
(* Confirming, logging in and out. *)

\* handleUIConfirm selects the row by its token ...
Confirm(c) ==
  \E i \in Ids :
    /\ Present(i) /\ row[i].confirm = "live"
    /\ Begin(c, "confirm", i, None, None, "confirm")
    /\ UNCHANGED <<row, session, issued, redeemed>>

\* ... and updates it by its id.
ConfirmByToken(c) ==
  LET i == call[c].id IN
  /\ At(c, "confirm")
  /\ row' = IF Present(i)
            THEN [row EXCEPT ![i].confirmed = TRUE, ![i].confirm = "used"] ELSE row
  /\ Goto(c, "session")
  /\ UNCHANGED <<session, issued, redeemed>>

\* handleUILogin: AuthenticatePassword, by e-mail.
Login(c) ==
  \E i \in Ids, p \in Passwords :
    /\ Present(i) /\ row[i].email # None /\ row[i].password = p
    /\ Begin(c, "login", i, p, None, "checkConfirmed")
    /\ UNCHANGED <<row, session, issued, redeemed>>

\* faulty variant: the password alone is asked for
IsConfirmed_Skip(c) ==
  /\ At(c, "checkConfirmed")
  /\ IF Present(call[c].id) THEN Goto(c, "session") ELSE Return(c)
  /\ UNCHANGED <<row, session, issued, redeemed>>

\* Confirmed is a read of its own, of the row as it is by then.
IsConfirmed(c) ==
  LET i == call[c].id IN
  /\ At(c, "checkConfirmed")
  /\ IF Present(i) /\ row[i].confirmed THEN Goto(c, "session") ELSE Return(c)
  /\ UNCHANGED <<row, session, issued, redeemed>>

\* setSessionCookie, of whatever account the handler has found.
CreateSession(c) ==
  /\ At(c, "session")
  /\ \E s \in Sessions :
       /\ session[s] = Unused
       /\ session' = [session EXCEPT ![s] = [id |-> call[c].id, by |-> call[c].op]]
  /\ Return(c)
  /\ UNCHANGED <<row, issued, redeemed>>

\* handleUILogout, or the session's time runs out (rows past it are swept).
EndSession(s) ==
  /\ session[s] \notin {Unused, Ended}
  /\ session' = [session EXCEPT ![s] = Ended]
  /\ UNCHANGED <<row, issued, redeemed, call>>
-----------------------------------------------------------------------------
(* Passwords. *)

\* handleUIForgot finds the account by its address ...
Forgot(c) ==
  \E i \in Ids :
    /\ Present(i) /\ row[i].email # None
    /\ Begin(c, "forgot", i, None, None, "issueReset")
    /\ UNCHANGED <<row, session, issued, redeemed>>

\* ... and gives it a new token, in place of one it may have; a token is handed
\* out even if the row has gone.
SetResetToken(c) ==
  LET i == call[c].id IN
  /\ At(c, "issueReset")
  /\ \E k \in ResetTokens \ issued :
       /\ issued' = issued \cup {k}
       /\ row' = IF Present(i)
                 THEN [row EXCEPT ![i].reset = k, ![i].resetLive = TRUE] ELSE row
  /\ Return(c)
  /\ UNCHANGED <<session, redeemed>>

\* handleUIReset selects the row by its token ...
Reset(c) ==
  \E i \in Ids, p \in Passwords :
    /\ Present(i) /\ row[i].reset # None /\ row[i].resetLive
    /\ Begin(c, "reset", i, p, row[i].reset, "setPassword")
    /\ UNCHANGED <<row, session, issued, redeemed>>

\* faulty variant: the token stays on the row
ResetPasswordByToken_Keep(c) ==
  LET k == call[c] IN
  /\ At(c, "setPassword")
  /\ row' = IF Present(k.id) THEN [row EXCEPT ![k.id].password = k.password] ELSE row
  /\ redeemed' = [redeemed EXCEPT ![k.token] = IF Present(k.id) THEN @ + 1 ELSE @]
  /\ Goto(c, "session")
  /\ UNCHANGED <<session, issued>>

\* ... and updates it by its id, clearing whatever token it has by then.
ResetPasswordByToken(c) ==
  LET k == call[c] IN
  /\ At(c, "setPassword")
  /\ row' = IF Present(k.id)
            THEN [row EXCEPT ![k.id].password = k.password, ![k.id].reset = None,
                             ![k.id].resetLive = FALSE]
            ELSE row
  /\ redeemed' = [redeemed EXCEPT ![k.token] = IF Present(k.id) THEN @ + 1 ELSE @]
  /\ Goto(c, "session")
  /\ UNCHANGED <<session, issued>>

\* The password part of handleUpdateUser; it leaves the tokens alone.
SetPassword(i, p) ==
  /\ Present(i)
  /\ row' = [row EXCEPT ![i].password = p]
  /\ UNCHANGED <<session, issued, redeemed, call>>
-----------------------------------------------------------------------------
(* What else happens. *)

\* handleRevokeIdentity: the row alone is deleted.
Delete(i) ==
  /\ Present(i)
  /\ row' = [row EXCEPT ![i] = Deleted]
  /\ UNCHANGED <<session, issued, redeemed, call>>

\* OpenRegistry, at each start of the server or of a command line tool beside it:
\* migrateAddUserColumns confirms each row with a password and no confirmation
\* token.
Migrate ==
  /\ row' = [i \in Ids |->
               IF Present(i) /\ row[i].password # None
                  /\ row[i].confirm \in {"unset", "used"}
               THEN [row[i] EXCEPT !.confirmed = TRUE] ELSE row[i]]
  /\ UNCHANGED <<session, issued, redeemed, call>>

ConfirmExpires(i) ==
  /\ Present(i) /\ row[i].confirm = "live"
  /\ row' = [row EXCEPT ![i].confirm = "expired"]
  /\ UNCHANGED <<session, issued, redeemed, call>>

ResetExpires(i) ==
  /\ Present(i) /\ row[i].resetLive
  /\ row' = [row EXCEPT ![i].resetLive = FALSE]
  /\ UNCHANGED <<session, issued, redeemed, call>>

\* A statement fails, or the process dies: what was written before it stays.
Abandon(c) ==
  call[c] # Free /\ Return(c) /\ UNCHANGED <<row, session, issued, redeemed>>

Handler(c) ==
  \/ Signup(c) \/ SetConfirmToken(c)
  \/ Confirm(c) \/ ConfirmByToken(c)
  \/ Login(c) \/ IsConfirmed(c)
  \/ Forgot(c) \/ SetResetToken(c)
  \/ Reset(c) \/ ResetPasswordByToken(c)
  \/ CreateSession(c) \/ Abandon(c)

Next ==
  \/ \E c \in Calls : Handler(c)
  \/ AdminCreateUser \/ CreateIdentity \/ PromoteToAdmin \/ Migrate
  \/ \E s \in Sessions : EndSession(s)
  \/ \E i \in Ids : Delete(i) \/ ConfirmExpires(i) \/ ResetExpires(i)
  \/ \E i \in Ids, p \in Passwords : SetPassword(i, p)

Spec == Init /\ [][Next]_vars
-----------------------------------------------------------------------------
(* Properties. *)

\* The tables hold what the code stores in them, and a handler has its fields.
TypeOK ==
  /\ row \in [Ids -> {Absent, Deleted} \cup Row]
  /\ session \in [Sessions -> {Unused, Ended} \cup Entry]
  /\ issued \in SUBSET ResetTokens
  /\ redeemed \in [ResetTokens -> Nat]
  /\ call \in [Calls -> {Free} \cup CallRecord]

\* Logging in and confirming open sessions of confirmed accounts only, whatever
\* happens to the account between the handler's statements (spec/identity.md,
\* IDNT-07 "confirming is mandatory before the account can be used").
EntryIsConfirmed ==
  \A s \in Sessions :
    session[s] \in Entry /\ session[s].by # "reset" /\ Present(session[s].id)
      => row[session[s].id].confirmed

\* An account is confirmed by its token or by the admin who made it (IDNT-01
\* "the account exists but cannot yet log in").
ConfirmedByToken ==
  \A i \in Ids : Present(i) /\ row[i].confirmed /\ row[i].by = "signup"
                  => row[i].confirm = "used"

\* A reset token that has set a password is on no row any more and was issued,
\* so no later request can redeem it (IDNT-13: replaying an already-used reset
\* token is rejected), whatever other tokens are issued meanwhile.
UsedTokensAreDead ==
  \A k \in ResetTokens :
    redeemed[k] > 0 => k \in issued /\ \A i \in Ids : Present(i) => row[i].reset # k

\* IDNT-13, "A reset token is single-use".  Two requests that have both selected
\* the row redeem it twice (see the README).
RedeemedOnce == \A k \in ResetTokens : redeemed[k] <= 1
=============================================================================
