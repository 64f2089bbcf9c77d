------------------------------ MODULE MCServices ------------------------------
(* One instance for the smaller services around the corpus.  They share no     *)
(* state, so a behaviour exercises one of them, the focus, and leaves the      *)
(* others at their initial states.                                             *)
EXTENDS DocsSync, Forwarding, McpSessions, RateLimit, Review

CONSTANTS intro, setup  \* names of documents

VARIABLE focus

Doc(n, form, links) ==
  [title |-> [name |-> n, form |-> form], links |-> links, taxonomy |-> "docs"]
To(n) == {[raw |-> n, rel |-> "relates"]}

\* Two documents, either of which comes first and links to the other; one taken
\* out; one whose title has been written in capitals.
FewReleases == { <<Doc(intro, Plain, To(setup)), Doc(setup, Plain, {})>>,
                 <<Doc(intro, Plain, To(setup))>>,
                 <<Doc(setup, Plain, To(intro)), Doc(intro, Plain, {})>>,
                 <<Doc(intro, Upper, {})>> }
DocLinks == {{}, To(intro), To(setup)}
NoGrants == [c \in Clients |-> {}]

docsVars == <<vars, sync>>
others   == <<docsVars, forward, mcp, limiter, deck, focus>>

MCInit ==
  /\ SyncInit /\ ForwardInit /\ McpInit /\ RateInit /\ ReviewInit
  /\ focus \in {"docs", "forwarding", "mcp", "rate", "review"}

MCNext ==
  /\ UNCHANGED focus
  /\ \/ focus = "docs" /\ SyncNext /\ UNCHANGED <<forward, mcp, limiter, deck>>
     \/ focus = "forwarding" /\ ForwardNext /\ UNCHANGED <<docsVars, mcp, limiter, deck>>
     \/ focus = "mcp" /\ McpNext /\ UNCHANGED <<docsVars, forward, limiter, deck>>
     \/ focus = "rate" /\ RateNext /\ UNCHANGED <<docsVars, forward, mcp, deck>>
     \/ focus = "review" /\ ReviewNext /\ UNCHANGED <<docsVars, forward, mcp, limiter>>

\* ForwardFairness and McpFairness, each while it is in focus.
MCFairness ==
  /\ \A r \in Requests : WF_forward(focus = "forwarding" /\ Handle(r, 1))
  /\ \A s \in SessionIds : WF_mcp(focus = "mcp" /\ StreamStep(s))
  /\ \A m \in Messages :
       /\ WF_mcp(focus = "mcp" /\ (LoadSession(m) \/ Dispatch(m) \/ SessionClosed(m)))
       /\ SF_mcp(focus = "mcp" /\ SendAnswer(m))

MCSpec == MCInit /\ [][MCNext]_others /\ MCFairness
===============================================================================
