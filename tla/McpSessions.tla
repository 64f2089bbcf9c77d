----------------------------- MODULE McpSessions -----------------------------
(***************************************************************************)
(* The SSE transport of src/internal/mcp/server.go: a stream per session,  *)
(* the handlers of the messages posted to it, and the channel their        *)
(* answers go through.  Streams end, and messages come late, at any time.  *)
(*                                                                         *)
(* What a message asks for is done by dispatch, in one step here; stdio    *)
(* and streamable HTTP answer in place and share nothing.                  *)
(***************************************************************************)
EXTENDS Naturals, Sequences

CONSTANTS SessionIds,  \* (bound: streams ever opened)
          Messages,    \* messages with an id (bound: ever posted)
          Capacity     \* of the channel, 16 in the code

VARIABLES
  stream,     \* stream[s]: the handler of GET /mcp/sse
  left,       \* left[s]: the request context of s is done
  sendChan,   \* sendChan[s]: the channel send
  known,      \* known[s]: the sessions map has s (and the key it was opened with)
  post,       \* post[m]: the handler of the message
  delivered   \* delivered[s]: (history) the messages whose answers were sent

mcp == <<stream, left, sendChan, known, post, delivered>>

Streams == {"none", "open", "ending", "closed"}
Posts   == [session : SessionIds,
            pc : {"lookup", "dispatch", "send", "accepted", "unauthorized", "gone"}]
Idle0   == [pc |-> "idle"]
Answers == {"accepted", "unauthorized", "gone"}

McpInit ==
  /\ stream = [s \in SessionIds |-> "none"]
  /\ left = [s \in SessionIds |-> FALSE]
  /\ sendChan = [s \in SessionIds |-> <<>>]
  /\ known = [s \in SessionIds |-> FALSE]
  /\ post = [m \in Messages |-> Idle0]
  /\ delivered = [s \in SessionIds |-> {}]
-----------------------------------------------------------------------------
(* handleSSE *)

\* The session is stored under its id; without a key there is none.
OpenStream(s) ==
  /\ stream[s] = "none"
  /\ stream' = [stream EXCEPT ![s] = "open"]
  /\ known' = [known EXCEPT ![s] = TRUE]
  /\ UNCHANGED <<left, sendChan, post, delivered>>

ClientLeaves(s) ==
  /\ stream[s] = "open" /\ ~left[s]
  /\ left' = [left EXCEPT ![s] = TRUE]
  /\ UNCHANGED <<stream, sendChan, known, post, delivered>>

\* The select of the loop: with both ready, either.  An answer written to a
\* client that has left is delivered to nobody.
Deliver(s) ==
  /\ stream[s] = "open" /\ sendChan[s] # <<>>
  /\ delivered' = [delivered EXCEPT ![s] =
                     IF left[s] THEN @ ELSE @ \cup {Head(sendChan[s])}]
  /\ sendChan' = [sendChan EXCEPT ![s] = Tail(@)]
  /\ UNCHANGED <<stream, left, known, post>>

\* The loop returns, and the deferred function: the session is forgotten ...
EndStream(s) ==
  /\ stream[s] = "open" /\ left[s]
  /\ stream' = [stream EXCEPT ![s] = "ending"]
  /\ known' = [known EXCEPT ![s] = FALSE]
  /\ UNCHANGED <<left, sendChan, post, delivered>>

\* ... and done closed.
CloseDone(s) ==
  /\ stream[s] = "ending"
  /\ stream' = [stream EXCEPT ![s] = "closed"]
  /\ UNCHANGED <<left, sendChan, known, post, delivered>>
-----------------------------------------------------------------------------
(* handleMessage *)

\* The client has been told the session's id.
PostMessage(m) ==
  /\ post[m] = Idle0
  /\ \E s \in SessionIds :
       /\ stream[s] # "none"
       /\ post' = [post EXCEPT ![m] = [session |-> s, pc |-> "lookup"]]
  /\ UNCHANGED <<stream, left, sendChan, known, delivered>>

PostAt(m, pc)   == post[m] # Idle0 /\ post[m].pc = pc
GotoPost(m, pc) == post' = [post EXCEPT ![m].pc = pc]

LoadSession(m) ==
  /\ PostAt(m, "lookup")
  /\ GotoPost(m, IF known[post[m].session] THEN "dispatch" ELSE "unauthorized")
  /\ UNCHANGED <<stream, left, sendChan, known, delivered>>

Dispatch(m) ==
  /\ PostAt(m, "dispatch")
  /\ GotoPost(m, "send")
  /\ UNCHANGED <<stream, left, sendChan, known, delivered>>

\* The select: there is room, or the session is over; with both, either.
SendAnswer(m) ==
  LET s == post[m].session IN
  /\ PostAt(m, "send") /\ Len(sendChan[s]) < Capacity
  /\ sendChan' = [sendChan EXCEPT ![s] = Append(@, m)]
  /\ GotoPost(m, "accepted")
  /\ UNCHANGED <<stream, left, known, delivered>>

\* faulty variant: the handler does not wait for done
SessionClosed_Unseen(m) ==
  /\ PostAt(m, "send") /\ stream[post[m].session] = "none"
  /\ GotoPost(m, "gone")
  /\ UNCHANGED <<stream, left, sendChan, known, delivered>>

SessionClosed(m) ==
  /\ PostAt(m, "send") /\ stream[post[m].session] = "closed"
  /\ GotoPost(m, "gone")
  /\ UNCHANGED <<stream, left, sendChan, known, delivered>>

StreamStep(s)  == Deliver(s) \/ EndStream(s) \/ CloseDone(s)
MessageStep(m) == LoadSession(m) \/ Dispatch(m) \/ SendAnswer(m) \/ SessionClosed(m)

McpNext ==
  \/ \E s \in SessionIds : OpenStream(s) \/ ClientLeaves(s) \/ StreamStep(s)
  \/ \E m \in Messages : PostMessage(m) \/ MessageStep(m)

\* A goroutine goes on when it can; a send waits its turn (Go's channels serve
\* their waiters in order).  A stream whose client neither reads nor leaves is
\* ended by TCP.  A client need not leave.
McpFairness ==
  /\ \A s \in SessionIds : WF_mcp(StreamStep(s))
  /\ \A m \in Messages : WF_mcp(LoadSession(m) \/ Dispatch(m) \/ SessionClosed(m))
                         /\ SF_mcp(SendAnswer(m))

McpSpec == McpInit /\ [][McpNext]_mcp /\ McpFairness
-----------------------------------------------------------------------------
(* Properties. *)

McpTypeOK ==
  /\ stream \in [SessionIds -> Streams]
  /\ left \in [SessionIds -> BOOLEAN]
  /\ \A s \in SessionIds : sendChan[s] \in Seq(Messages) /\ Len(sendChan[s]) <= Capacity
  /\ known \in [SessionIds -> BOOLEAN]
  /\ post \in [Messages -> {Idle0} \cup Posts]
  /\ delivered \in [SessionIds -> SUBSET Messages]

\* No handler waits for ever: a posted message is answered even if the stream
\* ends with its channel full, and an answer that was accepted is delivered
\* unless the client has left (server.go:220-232, MCP-23).
EveryMessageIsAnswered ==
  \A m \in Messages :
    /\ post[m] # Idle0 ~> post[m].pc \in Answers
    /\ \A s \in SessionIds :
         PostAt(m, "accepted") /\ post[m].session = s ~> left[s] \/ m \in delivered[s]
=============================================================================
