-------------------------------- MODULE Corpus --------------------------------
(***************************************************************************)
(* src/internal/db/memory.go: one tenant's corpus -- its memories, their   *)
(* revisions, tombstones and wiki-link edges -- and the engine calls that  *)
(* change it (src/internal/engine/engine.go).                              *)
(*                                                                         *)
(* openDB allows one connection, so a transaction and a single statement   *)
(* are each one step; an engine call of several transactions is several    *)
(* steps, between which the calls of other clients run.                    *)
(*                                                                         *)
(* Abstracted: a body is a title, the links parseLinks finds in the        *)
(* content, and a taxonomy branch; a format, an author, an agent and the   *)
(* timestamps decide nothing here.  A branch is granted or not to a client *)
(* as a whole.  The full-text index and the review queue are not here.     *)
(***************************************************************************)
EXTENDS Integers, FiniteSets

CONSTANTS Clients,     \* callers with a role that may write
          Ids,         \* uuids, drawn fresh by Insert
          Names,       \* what titles and links say once normalized
          Forms,       \* the ways a title is spelled, see below
          Rels,        \* link relations
          Contents,    \* the link sets a content may have
          Branches,    \* taxonomy branches
          Grants,      \* Grants[c]: the branches c may read and write
          MaxVersion   \* bound on edits of one memory

Plain    == "plain"      \* lower case, single spaces
Upper    == "upper"      \* ASCII capitals, blanks around
Accented == "accented"   \* a capital outside ASCII, or tabs around
Wide     == "wide"       \* several blanks between two words
NoEdge   == "no edge"
Dangling == "dangling"
NoId     == "no id"

Titles == [name : Names, form : Forms]
Links  == [raw : Names, rel : Rels]
Bodies == [title : Titles, links : Contents, taxonomy : Branches]
NoBranch == "no branch"
NoBody == [title |-> [name |-> NoId, form |-> NoId], links |-> {}, taxonomy |-> NoBranch]
Absent == [version |-> 0, body |-> NoBody]

ASSUME FormsAssumption    == Forms \subseteq {Plain, Upper, Accented, Wide}
ASSUME IdsAssumption      == IsFiniteSet(Ids) /\ Ids \cap {NoEdge, Dangling, NoId} = {}
ASSUME ContentsAssumption == Contents \subseteq SUBSET Links
ASSUME GrantsAssumption   == Grants \in [Clients -> SUBSET Branches]
ASSUME VersionAssumption  == MaxVersion \in Nat \ {0}
ASSUME BranchesAssumption == NoBranch \notin Branches

VARIABLES
  mem,     \* memories: mem[i] = [version, body], Absent when there is no row
  revs,    \* revisions: revs[i][v], NoBody when there is no row
  tomb,    \* tombstones: tomb[i] = final_version, 0 when there is no row
  edges,   \* edges[s][l]: the target, Dangling (dst_id NULL), or NoEdge
  pc,      \* pc[c]: where c's engine call is
  at,      \* at[c]: the memory the call is about
  held,    \* held[c]: the revision RestoreRevision has fetched
  seen     \* seen[c]: the memory, version and body c last read

tables == <<mem, revs, tomb, edges>>
calls  == <<pc, at, held>>
vars   == <<tables, calls, seen>>

Live(m) == {i \in Ids : m[i].version > 0}
Burned  == {i \in Ids : tomb[i] > 0}

PCs   == {"idle", "update", "revision", "restore", "count", "delete", "forced"}
Reads == [id : Ids \cup {NoId}, version : 0..MaxVersion, body : Bodies \cup {NoBody}]

Init ==
  /\ mem = [i \in Ids |-> Absent]
  /\ revs = [i \in Ids |-> [v \in 1..MaxVersion |-> NoBody]]
  /\ tomb = [i \in Ids |-> 0]
  /\ edges = [s \in Ids |-> [l \in Links |-> NoEdge]]
  /\ pc = [c \in Clients |-> "idle"]
  /\ at = [c \in Clients |-> NoId]
  /\ held = [c \in Clients |-> NoBody]
  /\ seen = [c \in Clients |-> [id |-> NoId, version |-> 0, body |-> NoBody]]
-------------------------------------------------------------------------------
(* The three normalizations of a title.  Each folds some spellings into    *)
(* the plain one and leaves the others apart.                              *)

Fold(t, folded) ==
  [name |-> t.name, form |-> IF t.form \in folded THEN Plain ELSE t.form]

SqlKey(t)  == Fold(t, {Upper})                    \* lower(trim(title)) in SQL
GoKey(t)   == Fold(t, {Upper, Accented})          \* ToLower(TrimSpace(title))
LinkKey(t) == Fold(t, {Upper, Accented, Wide})    \* normalizeLink

\* faulty variant: titles compared as they are written
HasTitleConflict_Exact(m, i, t) ==
  \E j \in Live(m) \ {i} : m[j].body.title = t
HasTitleConflict(m, i, t) ==
  \E j \in Live(m) \ {i} : SqlKey(m[j].body.title) = GoKey(t)

Raw(l) == [name |-> l.raw, form |-> Plain]

\* LIMIT 1 without an order: any of them
Resolve(m, s, l) ==
  LET found == {i \in Live(m) \ {s} : SqlKey(m[i].body.title) = Raw(l)}
  IN  IF found = {} THEN Dangling ELSE CHOOSE i \in found : TRUE

\* A dangling edge of another memory that this title satisfies
Heals(i, t, s, l) == s # i /\ edges[s][l] = Dangling /\ LinkKey(t) = Raw(l)

\* faulty variants: deletedTargets forgotten; old rows kept; no healing
SyncEdges_ByTitle(i, b) ==
  edges' = [s \in Ids |-> [l \in Links |->
    IF s = i THEN IF l \in b.links THEN Resolve(mem', i, l) ELSE NoEdge
    ELSE IF Heals(i, b.title, s, l) THEN i ELSE edges[s][l]]]
SyncEdges_KeepOld(i, b) ==
  edges' = [s \in Ids |-> [l \in Links |->
    IF s = i THEN IF l \notin b.links \/ edges[i][l] \in Burned THEN edges[i][l]
                  ELSE Resolve(mem', i, l)
    ELSE IF Heals(i, b.title, s, l) THEN i ELSE edges[s][l]]]
SyncEdges_NoHeal(i, b) ==
  edges' = [s \in Ids |-> [l \in Links |->
    IF s # i THEN edges[s][l]
    ELSE IF l \notin b.links THEN NoEdge
    ELSE IF edges[i][l] \in Burned THEN edges[i][l]
    ELSE Resolve(mem', i, l)]]
SyncEdges(i, b) ==
  edges' = [s \in Ids |-> [l \in Links |->
    IF s # i THEN IF Heals(i, b.title, s, l) THEN i ELSE edges[s][l]
    ELSE IF l \notin b.links THEN NoEdge
    ELSE IF edges[i][l] \in Burned THEN edges[i][l]
    ELSE Resolve(mem', i, l)]]
-------------------------------------------------------------------------------
(* The transactions of MemoryDB *)

WriteRow(i, n, b) ==
  /\ mem' = [mem EXCEPT ![i] = [version |-> n, body |-> b]]
  /\ revs' = [revs EXCEPT ![i][n] = b]
  /\ SyncEdges(i, b)
  /\ UNCHANGED tomb

\* uuid.New never repeats: i has no row, live or burned
Insert(i, b) ==
  /\ i \notin Live(mem) \cup Burned
  /\ ~HasTitleConflict(mem, i, b.title)
  /\ WriteRow(i, 1, b)

NoBase == 0   \* base_version not given
Keep   == [name |-> NoId, form |-> NoId]   \* title not among the updates

CasHolds(i, base) == base = NoBase \/ base = mem[i].version

\* t is the title given, Keep if none; b the whole body that results
\* faulty variants: a stale base accepted; the version not bumped; a missing row made anew
Update_NoCas(i, t, b, base) ==
  /\ i \in Live(mem) /\ mem[i].version < MaxVersion
  /\ t # Keep => ~HasTitleConflict(mem, i, t)
  /\ WriteRow(i, mem[i].version + 1, b)
Update_InPlace(i, t, b, base) ==
  /\ i \in Live(mem) /\ CasHolds(i, base)
  /\ t # Keep => ~HasTitleConflict(mem, i, t)
  /\ WriteRow(i, mem[i].version, b)
Update_Upsert(i, t, b, base) ==
  /\ CasHolds(i, base) /\ mem[i].version < MaxVersion
  /\ t # Keep => ~HasTitleConflict(mem, i, t)
  /\ WriteRow(i, mem[i].version + 1, b)
Update(i, t, b, base) ==
  /\ i \in Live(mem) /\ CasHolds(i, base)
  /\ mem[i].version < MaxVersion
  /\ t # Keep => ~HasTitleConflict(mem, i, t)
  /\ WriteRow(i, mem[i].version + 1, b)

\* The transaction is rolled back: deleted, never there, stale, or title taken
UpdateFails(i, t, base) ==
  \/ i \notin Live(mem)
  \/ ~CasHolds(i, base)
  \/ t # Keep /\ HasTitleConflict(mem, i, t)
  \/ mem[i].version = MaxVersion       \* the model's bound

\* The rows of revisions and, by ON DELETE CASCADE, of edges go with the memory
\* faulty variants: revisions kept; no tombstone
Delete_KeepHistory(i) ==
  /\ i \in Live(mem)
  /\ tomb' = [tomb EXCEPT ![i] = mem[i].version]
  /\ mem' = [mem EXCEPT ![i] = Absent]
  /\ edges' = [edges EXCEPT ![i] = [l \in Links |-> NoEdge]]
  /\ UNCHANGED revs
Delete_NoTombstone(i) ==
  /\ i \in Live(mem)
  /\ mem' = [mem EXCEPT ![i] = Absent]
  /\ revs' = [revs EXCEPT ![i] = [v \in 1..MaxVersion |-> NoBody]]
  /\ edges' = [edges EXCEPT ![i] = [l \in Links |-> NoEdge]]
  /\ UNCHANGED tomb
Delete(i) ==
  /\ i \in Live(mem)
  /\ tomb' = [tomb EXCEPT ![i] = mem[i].version]
  /\ revs' = [revs EXCEPT ![i] = [v \in 1..MaxVersion |-> NoBody]]
  /\ mem' = [mem EXCEPT ![i] = Absent]
  /\ edges' = [edges EXCEPT ![i] = [l \in Links |-> NoEdge]]

InboundLinks(i) == {s \in Ids \ {i} : \E l \in Links : edges[s][l] = i}

\* RebuildEdges clears the table and runs syncEdges on the memories in some
\* order: a link no query resolves is healed by the first later title to match.
Matching(m, s, l) == {i \in Live(m) \ {s} : LinkKey(m[i].body.title) = Raw(l)}
FirstAfter(order, m, s, l) ==
  {i \in Matching(m, s, l) : order[i] > order[s] /\
     \A j \in Matching(m, s, l) : order[j] > order[s] => order[i] <= order[j]}
Rebuilt(order, m, s, l) ==
  LET healers == FirstAfter(order, m, s, l)
  IN  IF l \notin m[s].body.links THEN NoEdge
      ELSE IF Resolve(m, s, l) # Dangling \/ healers = {} THEN Resolve(m, s, l)
      ELSE CHOOSE i \in healers : TRUE
-------------------------------------------------------------------------------
(* The engine calls of client c.  Each finds the memory with MemoryDB.Get  *)
(* and checks the caller's grants before the transaction.                  *)

Step(c, from, to) == pc[c] = from /\ pc' = [pc EXCEPT ![c] = to]

\* The call returns, having changed nothing it remembers
Return(c) ==
  /\ pc' = [pc EXCEPT ![c] = "idle"]
  /\ at' = [at EXCEPT ![c] = NoId]
  /\ held' = [held EXCEPT ![c] = NoBody]
  /\ UNCHANGED seen

Granted(c, i) == i \in Live(mem) /\ mem[i].body.taxonomy \in Grants[c]

\* FetchMemory: what the client will send base_version and changes for
Read(c, i) ==
  /\ pc[c] = "idle" /\ Granted(c, i)
  /\ seen' = [seen EXCEPT ![c] = [id |-> i, version |-> mem[i].version,
                                  body |-> mem[i].body]]
  /\ UNCHANGED <<tables, calls>>

\* Get finds the memory and the grants allow it; next says what the call does
Begin(c, i, next) ==
  /\ Granted(c, i) /\ Step(c, "idle", next)
  /\ at' = [at EXCEPT ![c] = i]
  /\ UNCHANGED <<tables, held, seen>>

WriteMemory(c) ==
  /\ pc[c] = "idle"
  /\ \E i \in Ids, b \in Bodies : b.taxonomy \in Grants[c] /\ Insert(i, b)
  /\ UNCHANGED <<calls, seen>>

UpdateMemory(c)    == \E i \in Ids : Begin(c, i, "update")
RestoreRevision(c) == \E i \in Ids : Begin(c, i, "revision")
DeleteMemory(c)    == \E i \in Ids : Begin(c, i, "count") \/ Begin(c, i, "forced")

\* base_version is given only with the version the client has read
Bases(c) == {NoBase} \cup (IF seen[c].id = at[c] THEN {seen[c].version} ELSE {})

UpdateTx(c) ==
  /\ pc[c] = "update" /\ at[c] \in Live(mem)
  /\ \E t \in Titles \cup {Keep}, b \in Bodies, base \in Bases(c) :
       /\ b.title = IF t = Keep THEN mem[at[c]].body.title ELSE t
       /\ b.taxonomy \in Grants[c] \cup {mem[at[c]].body.taxonomy}
       /\ Update(at[c], t, b, base)
  /\ Return(c)

UpdateRefused(c) ==
  /\ pc[c] = "update"
  /\ \E t \in Titles \cup {Keep}, base \in Bases(c) : UpdateFails(at[c], t, base)
  /\ Return(c) /\ UNCHANGED tables

\* RevisionAt
FetchRevision(c) ==
  /\ Step(c, "revision", "restore")
  /\ \E v \in 1..MaxVersion :
       revs[at[c]][v] # NoBody /\ held' = [held EXCEPT ![c] = revs[at[c]][v]]
  /\ UNCHANGED <<tables, at, seen>>

\* a number that was never a version, or whose row a deletion has purged
NoRevision(c) ==
  /\ pc[c] = "revision" /\ Return(c) /\ UNCHANGED tables

RestoreTx(c) ==
  /\ pc[c] = "restore"
  /\ Update(at[c], held[c].title, held[c], NoBase)
  /\ Return(c)

RestoreRefused(c) ==
  /\ pc[c] = "restore" /\ UpdateFails(at[c], held[c].title, NoBase)
  /\ Return(c) /\ UNCHANGED tables

\* without force.  A link may be added between this count and the deletion.
CountLinks(c) ==
  /\ InboundLinks(at[c]) = {} /\ Step(c, "count", "delete")
  /\ UNCHANGED <<tables, at, held, seen>>

HasInboundLinks(c) ==
  /\ pc[c] = "count" /\ InboundLinks(at[c]) # {}
  /\ Return(c) /\ UNCHANGED tables

DeleteTx(c) ==
  /\ pc[c] \in {"delete", "forced"} /\ Delete(at[c])
  /\ Return(c)

DeleteRefused(c) ==
  /\ pc[c] \in {"delete", "forced"} /\ at[c] \notin Live(mem)
  /\ Return(c) /\ UNCHANGED tables

\* RebuildFTS, of which only the edges are here
RebuildEdges(c) ==
  /\ pc[c] = "idle"
  /\ \E order \in [Ids -> 1..Cardinality(Ids)] :
       /\ \A i, j \in Ids : order[i] = order[j] => i = j
       /\ edges' = [s \in Ids |-> [l \in Links |->
                      IF s \in Live(mem) THEN Rebuilt(order, mem, s, l) ELSE NoEdge]]
  /\ UNCHANGED <<mem, revs, tomb, calls, seen>>

CallStep(c) ==
  \/ WriteMemory(c)
  \/ UpdateMemory(c) \/ UpdateTx(c) \/ UpdateRefused(c)
  \/ RestoreRevision(c) \/ FetchRevision(c) \/ NoRevision(c)
  \/ RestoreTx(c) \/ RestoreRefused(c)
  \/ DeleteMemory(c) \/ CountLinks(c) \/ HasInboundLinks(c)
  \/ DeleteTx(c) \/ DeleteRefused(c)
  \/ RebuildEdges(c)

Next == \E c \in Clients : (\E i \in Ids : Read(c, i)) \/ CallStep(c)

Spec == Init /\ [][Next]_vars
-------------------------------------------------------------------------------
(* Properties *)

TablesTypeOK ==
  /\ mem \in [Ids -> [version : 1..MaxVersion, body : Bodies] \cup {Absent}]
  /\ revs \in [Ids -> [1..MaxVersion -> Bodies \cup {NoBody}]]
  /\ tomb \in [Ids -> 0..MaxVersion]
  /\ edges \in [Ids -> [Links -> Ids \cup {Dangling, NoEdge}]]
CallsTypeOK ==
  /\ pc \in [Clients -> PCs]
  /\ at \in [Clients -> Ids \cup {NoId}]
  /\ held \in [Clients -> Bodies \cup {NoBody}]
  /\ seen \in [Clients -> Reads]
  /\ \A c \in Clients : (pc[c] # "idle" => at[c] \in Ids)
                     /\ (pc[c] = "restore" => held[c] \in Bodies)

\* The tables and the calls have the shapes the schema and the code give them.
TypeOK == TablesTypeOK /\ CallsTypeOK

\* History is a complete series (REV-01, REV-02, REV-15): a live memory has a
\* revision for each version up to its own, the newest equal to the memory
\* itself, and an address that holds no memory has none left.
HistoryIsComplete ==
  \A i \in Ids :
    /\ \A v \in 1..MaxVersion : revs[i][v] # NoBody <=> v <= mem[i].version
    /\ i \in Live(mem) => revs[i][mem[i].version] = mem[i].body

\* An address is live or deleted, never both (MEM-12).
LiveOrBurned == Live(mem) \cap Burned = {}

\* edges holds one row for each link of each memory's current content and no
\* other (LINK-07), and none from a deleted memory (LINK-08).
EdgesMirrorContent ==
  \A s \in Ids, l \in Links :
    edges[s][l] # NoEdge <=> s \in Live(mem) /\ l \in mem[s].body.links

\* An edge that has a target points at another memory, live or deleted: never
\* at its own source (LINK-09) nor at an address that was never written.
EdgesHaveTargets ==
  \A s \in Ids, l \in Links :
    edges[s][l] \in Ids => edges[s][l] \in (Live(mem) \cup Burned) \ {s}

\* A link is left dangling only while no other live memory has its title
\* (LINK-01, LINK-05, LINK-06), whatever was written, renamed, restored or
\* rebuilt since, in whatever order.  Its title as the query of a link finds it:
\* a title that only normalizeLink folds gets the links that dangle when it is
\* written, and none that are written later.
NoMissedHeal ==
  \A s \in Live(mem), l \in Links :
    edges[s][l] = Dangling =>
      \A i \in Live(mem) \ {s} : SqlKey(mem[i].body.title) # Raw(l)

\* No two live memories have titles that would each be refused for the other
\* (MEM-22), through renames, restores and deletions.  Where SQL and Go fold
\* titles alike that is one title; where they do not, the later one has passed.
TitlesAreUnique ==
  \A i, j \in Live(mem) :
    LET t == mem[i].body.title
        u == mem[j].body.title IN
    SqlKey(t) = GoKey(u) /\ SqlKey(u) = GoKey(t) => i = j

\* A memory that is deleted stays so: its tombstone never changes and the
\* address is never written again, even by a call that began before (MEM-12).
BurnedForever ==
  [][\A i \in Burned : tomb'[i] = tomb[i] /\ mem'[i] = Absent]_vars

\* The tombstone of a deletion says how long the history was (REV-15).
TombstoneTellsHistory ==
  [][\A i \in Live(mem) \ Live(mem') :
       tomb'[i] > 0 /\ \A v \in 1..MaxVersion : revs[i][v] # NoBody <=> v <= tomb'[i]]_vars

\* A memory keeps meaning what its links meant: an edge bound to a deleted
\* memory stays bound to it as long as the link is in the content (LINK-08),
\* through every edit, restore and write of a memory with that title.
KeepsTombstones ==
  \A s \in Live(mem) \cap Live(mem'), l \in Links :
    edges[s][l] \in Burned /\ l \in mem'[s].body.links => edges'[s][l] = edges[s][l]

\* ... except for RebuildEdges, which starts from an empty table.
TombstoneBound == [][KeepsTombstones \/ \E c \in Clients : RebuildEdges(c)]_vars

\* The same with no exception, as LINK-08 and the comments of Delete have it:
\* RebuildEdges does not keep it (see the README).
ReferencesKeepMeaning == [][KeepsTombstones]_vars

\* Compare-and-swap (REV-05, REV-06): an edit sent with a base version only
\* ever replaces the very text its writer had read.
EditsWithBase(c) ==
  /\ pc[c] = "update" /\ mem'[at[c]] # mem[at[c]] /\ seen[c].id = at[c]
  /\ \E b \in Bodies : Update(at[c], b.title, b, seen[c].version)
NoLostUpdate ==
  [][\A c \in Clients : EditsWithBase(c) => mem[at[c]].body = seen[c].body]_vars

\* Each address is a versioned store: the abstract specification, with the
\* version numbers of memories and the rows of revisions as its history.
Store == INSTANCE VersionedStore WITH
  length  <- [i \in Ids |-> mem[i].version],
  history <- [i \in Ids |-> [v \in 1..mem[i].version |-> revs[i][v]]],
  burned  <- Burned
StoreSpec == Store!Spec
===============================================================================
