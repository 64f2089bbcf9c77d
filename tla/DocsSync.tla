------------------------------- MODULE DocsSync -------------------------------
(***************************************************************************)
(* The documentation corpus of src/internal/docs/docs.go: at every start   *)
(* Sync makes an ordinary corpus say what the files in the binary say, one *)
(* transaction of Corpus after another, and the process may die between    *)
(* any two.  Nobody else writes there: the account it is served by is      *)
(* read-only (src/internal/api/public.go).                                 *)
(*                                                                         *)
(* A release is the sequence of its documents, in the order of the file    *)
(* names; Load refuses one with a title twice.  Formats are left out.      *)
(***************************************************************************)
EXTENDS Corpus, Sequences

CONSTANT Releases

FileBodies(r) == {r[k] : k \in DOMAIN r}

ASSUME ReleasesAssumption ==
  \A r \in Releases :
    /\ r \in Seq(Bodies)
    /\ \A j, k \in DOMAIN r : r[j].title = r[k].title => j = k

VARIABLES
  boot,     \* where the process is
  docs,     \* the release it is of
  byTitle,  \* the rows Sync has listed: ids with their bodies
  nth      \* the document, or 0

sync == <<boot, docs, byTitle, nth>>

SyncInit ==
  /\ Init
  /\ boot = "down" /\ docs = <<>> /\ byTitle = {} /\ nth = 0

Untouched == UNCHANGED <<calls, seen>>

\* A new process, of whatever release.
Start ==
  /\ boot = "down"
  /\ boot' = "list" /\ docs' \in Releases
  /\ UNCHANGED <<vars, byTitle, nth>>

\* List, of all memories.
ListDocs ==
  /\ boot = "list"
  /\ boot' = "write" /\ nth' = 1
  /\ byTitle' = {[id |-> i, body |-> mem[i].body] : i \in Live(mem)}
  /\ UNCHANGED <<vars, docs>>

Current(b) == {m \in byTitle : m.body.title = b.title}

\* The next document: its title is not there, is there with another body, or is
\* there as it should be.
SyncDoc ==
  /\ boot = "write" /\ nth \in DOMAIN docs
  /\ LET b == docs[nth] IN
       \/ Current(b) = {} /\ \E i \in Ids : Insert(i, b)
       \/ \E m \in Current(b) : m.body # b /\ Update(m.id, Keep, b, NoBase)
       \/ \E m \in Current(b) : m.body = b /\ UNCHANGED tables
  /\ nth' = nth + 1
  /\ Untouched /\ UNCHANGED <<boot, docs, byTitle>>

\* The INSERT is refused: to titleConflict a title that differs in case is the
\* same.  Sync returns the error, and the server starts without the docs.
SyncFails ==
  /\ boot = "write" /\ nth \in DOMAIN docs
  /\ Current(docs[nth]) = {} /\ \E i \in Ids : HasTitleConflict(mem, i, docs[nth].title)
  /\ boot' = "failed"
  /\ UNCHANGED <<vars, docs, byTitle, nth>>

Unwanted == {m \in byTitle : m.body.title \notin {b.title : b \in FileBodies(docs)}}

\* Records whose file is gone, in the order of a Go map: any.
RemoveDoc ==
  /\ boot = "write" /\ nth \notin DOMAIN docs
  /\ \E m \in Unwanted : Delete(m.id) /\ byTitle' = byTitle \ {m}
  /\ Untouched /\ UNCHANGED <<boot, docs, nth>>

\* faulty variant: the links are left as the writes have made them
RebuildDocEdges_Skip ==
  /\ boot = "write" /\ nth \notin DOMAIN docs /\ Unwanted = {}
  /\ boot' = "served"
  /\ UNCHANGED <<vars, docs, byTitle, nth>>

\* RebuildEdges, and the docs are served.
RebuildDocEdges ==
  /\ boot = "write" /\ nth \notin DOMAIN docs /\ Unwanted = {}
  /\ \E order \in [Ids -> 1..Cardinality(Ids)] :
       /\ \A i, j \in Ids : order[i] = order[j] => i = j
       /\ edges' = [s \in Ids |-> [l \in Links |->
                      IF s \in Live(mem) THEN Rebuilt(order, mem, s, l) ELSE NoEdge]]
  /\ boot' = "served"
  /\ Untouched /\ UNCHANGED <<mem, revs, tomb, docs, byTitle, nth>>

\* The process ends, at whatever point.
Stop ==
  /\ boot # "down"
  /\ boot' = "down" /\ docs' = <<>> /\ byTitle' = {} /\ nth' = 0
  /\ UNCHANGED vars

SyncNext == Start \/ ListDocs \/ SyncDoc \/ SyncFails \/ RemoveDoc \/ RebuildDocEdges \/ Stop

SyncSpec == SyncInit /\ [][SyncNext]_<<vars, sync>>
-------------------------------------------------------------------------------
(* Properties. *)

Titled(n) == {i \in Live(mem) : mem[i].body.title.name = n}

\* Once the docs are served they are those of the binary, whatever earlier
\* releases, and boots cut short, have left behind: the same documents, nothing
\* else, and a link to each document that a file names, in whatever order the
\* files come and however often a document has gone and come back (docs.go:118,
\* "Sync makes mdb match the embedded files exactly").
ServedIsFiles ==
  boot = "served" =>
    /\ {mem[i].body : i \in Live(mem)} = FileBodies(docs)
    /\ \A i, j \in Live(mem) : mem[i].body = mem[j].body => i = j
    /\ \A s \in Live(mem) : \A l \in mem[s].body.links :
         \/ edges[s][l] \in Titled(l.raw) \ {s}
         \/ edges[s][l] = Dangling /\ Titled(l.raw) \subseteq {s}
===============================================================================
