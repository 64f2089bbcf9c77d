-------------------------------- MODULE Reads --------------------------------
(***************************************************************************)
(* What a scoped reader is told of a corpus: src/internal/db/scope.go,     *)
(* graph.go, suggest.go and the reads of memory.go, behind the calls of    *)
(* src/internal/engine/engine.go.  A read is one or several SELECTs with   *)
(* no transaction around them; writes, which Corpus models in detail, run  *)
(* in between.                                                             *)
(*                                                                         *)
(* A taxonomy is the sequence of its segments, <<>> the empty prefix.  The *)
(* full-text index is external: which rows match, and in what order, is    *)
(* any choice.  An answer is the memories it names, with or without their  *)
(* contents, those whose links it tells of, and its counts; the number of  *)
(* suggestions or of tombstones a caller asks for is left out, and so are  *)
(* the figures of the review deck.                                         *)
(***************************************************************************)
EXTENDS Naturals, Sequences, SequencesExt, FiniteSetsExt

CONSTANTS Memories,    \* ids
          Targets,     \* what a dangling link says
          Rels,        \* link relations
          Taxonomies,
          Like,        \* the pairs <<p, t>> with t LIKE 'p.%'
          Scopes,      \* [all, read, titles]: a Scope, its lists as sets
          Depths,      \* the depths a caller may ask for
          Pages,       \* <<limit, offset>>, limit 0 for everything
          Size,        \* Size[i]: a memory's tokens
          Budget,      \* a token budget
          TopLimit,    \* the broken targets EdgeHealth lists at most
          MaxLinks,    \* (bound) links of a memory
          MaxWrites,   \* (bound) writes during a read
          Nothing      \* no center, no row, no answer

\* clauseFor's LIKE takes at least what prefixMatch takes.
ASSUME LikeAssumption ==
  \A p, t \in Taxonomies : IsStrictPrefix(p, t) => <<p, t>> \in Like
ASSUME TaxonomiesAssumption == \A t \in Taxonomies : t \in Seq(Range(t))
ASSUME DepthsAssumption == Depths \subseteq Nat
ASSUME TopLimitAssumption == TopLimit \in Nat
\* The handlers refuse negative numbers.
ASSUME PagesAssumption == Pages \subseteq Nat \X Nat
\* What is in a file.
ASSUME FiniteAssumption ==
  IsFiniteSet(Memories) /\ IsFiniteSet(Targets) /\ IsFiniteSet(Rels)

Row      == [live : BOOLEAN, at : Taxonomies]  \* of memories, or of tombstones
Branches == Taxonomies \cup {<<>>}
Links(i) == {L \in SUBSET [dst : (Memories \ {i}) \cup Targets, rel : Rels] :
               Cardinality(L) <= MaxLinks}

VARIABLES
  place,   \* place[i]: the row of memories or tombstones, or Nothing
  out,     \* out[i]: the edges of i; dst is a Target when the link dangles
  reader,  \* the read under way: [op, scope, arg, got], or Nothing
  writes,  \* writes since it began
  seen,    \* (history) what was Visible to the reader since it began
  answer

corpus == <<place, out>>
vars   == <<corpus, reader, writes, seen, answer>>

Live    == {i \in Memories : place[i] # Nothing /\ place[i].live}
Deleted == {i \in Memories : place[i] # Nothing /\ ~place[i].live}
Edges   == UNION {{[src |-> i, dst |-> l.dst, rel |-> l.rel] : l \in out[i]} : i \in Live}
-----------------------------------------------------------------------------
(* Scopes, in Go and in SQL. *)

PrefixMatch(prefixes, t) == \E p \in prefixes : IsPrefix(p, t)

CanRead(s, t)      == s.all \/ PrefixMatch(s.read, t)
TitleVisible(s, t) == CanRead(s, t) \/ PrefixMatch(s.titles, t)

ClauseFor(s, prefixes, t) ==
  s.all \/ \E p \in prefixes : t = p \/ <<p, t>> \in Like

ReadClause(s, t)  == ClauseFor(s, s.read, t)
TitleClause(s, t) == ClauseFor(s, s.read \cup s.titles, t)

\* The taxonomy argument of a read.
Within(p, t) == p = <<>> \/ t = p \/ <<p, t>> \in Like

Readable(s, p) == {i \in Live : Within(p, place[i].at) /\ ReadClause(s, place[i].at)}
Titled(s, p)   == {i \in Live : Within(p, place[i].at) /\ TitleClause(s, place[i].at)}

\* faulty variant: the audit trail of every branch
Tombstones_Open(s, p) == {i \in Deleted : Within(p, place[i].at)}
Tombstones(s, p) ==
  {i \in Deleted : Within(p, place[i].at) /\ TitleClause(s, place[i].at)}

\* What a caller with scope s may know of the corpus as it is: the contents the
\* scope gives in Go, those its SQL gives, and the titles either of them gives.
Visible(s) ==
  [bodies |-> {i \in Live : CanRead(s, place[i].at)},
   rows   |-> {i \in Live : ReadClause(s, place[i].at)},
   titles |-> {i \in Live \cup Deleted :
                 TitleVisible(s, place[i].at) \/ TitleClause(s, place[i].at)}]
-----------------------------------------------------------------------------
(* The corpus, and the writes that race with a read. *)

Init ==
  /\ place \in [Memories -> Row \cup {Nothing}]
  /\ out \in [Memories -> UNION {Links(i) : i \in Memories}]
  /\ \A i \in Memories :
       /\ out[i] \in Links(i)
       /\ i \notin Live => out[i] = {}
       /\ \A l \in out[i] : l.dst \in Memories => place[l.dst] # Nothing
  /\ reader = Nothing
  /\ writes = 0
  /\ seen = [bodies |-> {}, rows |-> {}, titles |-> {}]
  /\ answer = Nothing

Reading == reader # Nothing /\ answer = Nothing

\* Before the first statement a write makes no difference: any corpus is an Init.
Written ==
  /\ Reading /\ reader.got # <<>> /\ writes < MaxWrites
  /\ writes' = writes + 1
  /\ UNCHANGED <<reader, answer>>
  /\ seen' = [bodies |-> seen.bodies \cup Visible(reader.scope)'.bodies,
              rows   |-> seen.rows \cup Visible(reader.scope)'.rows,
              titles |-> seen.titles \cup Visible(reader.scope)'.titles]

\* A memory is made, moved or linked anew; one that is made may be what dangling
\* links were waiting for.
Write(i) ==
  /\ i \notin Deleted
  /\ \E t \in Taxonomies, L \in Links(i), waited \in Targets \cup {Nothing} :
       /\ \A l \in L : l.dst \in Live \cup Deleted \cup Targets
       /\ place' = [place EXCEPT ![i] = [live |-> TRUE, at |-> t]]
       /\ out' = [j \in Memories |->
                    IF j = i THEN L
                    ELSE {IF l.dst = waited THEN [l EXCEPT !.dst = i] ELSE l : l \in out[j]}]
  /\ Written

Delete(i) ==
  /\ i \in Live
  /\ place' = [place EXCEPT ![i].live = FALSE]
  /\ out' = [out EXCEPT ![i] = {}]
  /\ Written
-----------------------------------------------------------------------------
(* A read. *)

Begin(op, s, arg) ==
  /\ reader = Nothing
  /\ reader' = [op |-> op, scope |-> s, arg |-> arg, got |-> <<>>]
  /\ seen' = Visible(s)
  /\ UNCHANGED <<corpus, writes, answer>>

\* One SELECT has answered, and there is another to come.
Got(result) ==
  /\ reader' = [reader EXCEPT !.got = Append(@, result)]
  /\ UNCHANGED <<corpus, writes, seen, answer>>

Answer(a) ==
  /\ answer' = a
  /\ UNCHANGED <<corpus, reader, writes, seen>>

At(op, n) == Reading /\ reader.op = op /\ Len(reader.got) = n

\* quotes: the memories whose links the answer tells of.
Named(bodies, titles, quotes) == [bodies |-> bodies, titles |-> titles, quotes |-> quotes]
NotFound == Named({}, {}, {})

\* What fits a budget, row by row; a row that does not fit is passed over.
Taken(rows, budget) ==
  {took \in SUBSET DOMAIN rows :
     \A n \in DOMAIN rows :
       n \in took <=>
         LET used == MapThenSumSet(LAMBDA m : Size[rows[m]], {m \in took : m < n})
         IN  budget = 0 \/ used + Size[rows[n]] <= budget}

\* Each row of Search comes with the links that move it up or down, and these are
\* counted over the links of every memory, whatever the scope.
Boosting   == {"relates", "depends-on"}
Backed(i)  == Cardinality({e \in Edges : e.dst = i /\ e.rel \in Boosting})
Superseded == {e.dst : e \in {x \in Edges : x.rel = "supersedes"}}

\* Search: what matches and may be read, in whatever order, as far as it fits.
Search ==
  \E matching \in SUBSET Readable(reader.scope, reader.arg.under) :
    \E rows \in SetToSeqs(matching) : \E took \in Taken(rows, Budget) :
      LET results == {rows[n] : n \in took} IN
      Answer([bodies |-> results, titles |-> {},
              backlinks |-> [i \in results |-> Backed(i)],
              superseded |-> results \cap Superseded,
              omitted |-> Cardinality(matching) - Cardinality(took)])

\* Scope: titles under a prefix, as far as they fit (GetSkillsManifest: no budget).
BrowseScope ==
  LET titled == Titled(reader.scope, reader.arg.under) IN
  \E rows \in SetToSeqs(titled), b \in {0, Budget} : \E took \in Taken(rows, b) :
    Answer([bodies |-> {}, titles |-> {rows[n] : n \in took},
            omitted |-> Cardinality(titled) - Cardinality(took)])

\* List counts in one statement and fetches the page in another.
ListCount == Got(Cardinality(Readable(reader.scope, reader.arg.under)))
ListPage ==
  \E rows \in SetToSeqs(Readable(reader.scope, reader.arg.under)) :
    LET k == reader.arg
        page == {n \in DOMAIN rows : k.limit > 0 => n \in k.offset + 1 .. k.offset + k.limit}
    IN  Answer([bodies |-> {rows[n] : n \in page}, titles |-> {}, total |-> reader.got[1]])

DeletedMemories ==
  Answer(Named({}, Tombstones(reader.scope, reader.arg.under), {}))

\* DueReviews has no scope: whatever is enrolled and due.
DueReviews == \E due \in SUBSET Live : Answer(Named(due, {}, {}))

Backlinks(s, i) ==
  {e \in Edges : e.dst = i /\ TitleClause(s, place[e.src].at)}

\* GetMemory and MemoryHistory: the row, then who links to it, or its revisions.  Of
\* a deleted memory asked for, the tombstone is told whatever the scope.
GetRow ==
  LET i == reader.arg.center IN
  IF i \in Live /\ CanRead(reader.scope, place[i].at) THEN Got(i)
  ELSE Answer(Named({}, Deleted \cap {i}, {}))
\* Without the backlinks, should that SELECT fail.
GetBacklinks ==
  LET i == reader.arg.center IN
  \E links \in {{}, Backlinks(reader.scope, i)} :
    Answer(Named({i}, {e.src : e \in links}, {e.src : e \in links}))
\* None are left of a memory that was deleted meanwhile.
Revisions == Answer(Named(Live \cap {reader.arg.center}, {}, {}))
-----------------------------------------------------------------------------
(* Catalog, folded to a depth. *)

\* The title-visible leaves with their counts.
Leaves(s) ==
  [t \in {place[i].at : i \in Titled(s, <<>>)} |->
     Cardinality({i \in Titled(s, <<>>) : place[i].at = t})]

\* faulty variant: one level short under a prefix
RollupCatalog_Shallow(leaves, prefix, depth) ==
  LET d == IF depth > 0 THEN depth ELSE IF prefix = <<>> THEN 1 ELSE Len(prefix)
      under == {t \in DOMAIN leaves : IsPrefix(prefix, t)}
      Key(t) == SubSeq(t, 1, IF Len(t) > d THEN d ELSE Len(t))
  IN  {[path |-> k,
        count |-> SumFunctionOnSet(leaves, {t \in under : Key(t) = k}),
        expandable |-> \E t \in under : Key(t) = k /\ Len(t) > d] : k \in {Key(t) : t \in under}}

RollupCatalog(leaves, prefix, depth) ==
  LET d == IF depth > 0 THEN depth ELSE IF prefix = <<>> THEN 1 ELSE Len(prefix) + 1
      under == {t \in DOMAIN leaves : IsPrefix(prefix, t)}
      Key(t) == SubSeq(t, 1, IF Len(t) > d THEN d ELSE Len(t))
  IN  {[path |-> k,
        count |-> SumFunctionOnSet(leaves, {t \in under : Key(t) = k}),
        expandable |-> \E t \in under : Key(t) = k /\ Len(t) > d] : k \in {Key(t) : t \in under}}

Catalog ==
  Answer([bodies |-> {}, titles |-> {},
    entries |-> RollupCatalog(Leaves(reader.scope), reader.arg.under, reader.arg.depth)])
-----------------------------------------------------------------------------
(* The link graph. *)

MaxGraphDepth == 4

Hops(depth) == IF depth = 0 THEN 2 ELSE Min({depth, MaxGraphDepth})

\* includedNodes: breadth first from the center, over edges between full nodes.
\* faulty variant: any edge is a hop
EgoGraph_Bridge(center, depth, full, es) ==
  LET reach[d \in 0..Hops(depth)] ==
        IF d = 0 THEN {center}
        ELSE reach[d - 1] \cup {e.src : e \in {x \in es : x.dst \in reach[d - 1]}}
                          \cup {e.dst : e \in {x \in es : x.src \in reach[d - 1]}}
  IN  reach[Hops(depth)] \cap full
EgoGraph(center, depth, full, es) ==
  LET hop == {e \in es : e.src \in full /\ e.dst \in full}
      reach[d \in 0..Hops(depth)] ==
        IF d = 0 THEN {center}
        ELSE reach[d - 1] \cup {e.src : e \in {x \in hop : x.dst \in reach[d - 1]}}
                          \cup {e.dst : e \in {x \in hop : x.src \in reach[d - 1]}}
  IN  reach[Hops(depth)]

\* Graph reads the memories, then the edges, then the tombstones.
GraphNodeMeta == Got([i \in Live |-> place[i].at])
AllEdges      == Got(Edges)
Graph ==
  LET s == reader.scope
      k == reader.arg
      meta == reader.got[1]
      es == reader.got[2]
      full == {i \in DOMAIN meta : CanRead(s, meta[i])}
      hidden == {i \in DOMAIN meta \ full : TitleVisible(s, meta[i])}
      leaves == Tombstones(s, <<>>) \cup hidden
      included == IF k.center = Nothing THEN {i \in full : IsPrefix(k.under, meta[i])}
                  ELSE EgoGraph(k.center, k.depth, full, es)
      drawn == {e \in es : e.src \in included /\ e.dst \in leaves \cup included \cup Targets}
      ghosts == {e.dst : e \in drawn} \cap (leaves \cup Targets)
  IN  IF k.center \in full \cup {Nothing}
      THEN Answer([bodies |-> included, titles |-> ghosts \cap leaves,
                   quotes |-> {e.src : e \in drawn},
                   dangling |-> ghosts \cap Targets, links |-> drawn])
      ELSE Answer(NotFound)
-----------------------------------------------------------------------------
(* EdgeHealth, three statements over the edges of title-visible sources. *)

ScopedEdges == {e \in Edges : TitleClause(reader.scope, place[e.src].at)}
Broken      == {e \in ScopedEdges : e.dst \in Targets}

HealthCounts ==
  Got([total |-> Cardinality(ScopedEdges),
                    resolved |-> Cardinality(ScopedEdges \ Broken),
                    dangling |-> Cardinality(Broken),
                    targets |-> Cardinality({e.dst : e \in Broken})])
HealthByRel ==
  Got([r \in {e.rel : e \in Broken} |-> Cardinality({e \in Broken : e.rel = r})])

Groups ==
  {[target |-> x[1], rel |-> x[2],
    sources |-> {e.src : e \in {y \in Broken : y.dst = x[1] /\ y.rel = x[2]}}] :
      x \in {<<e.dst, e.rel>> : e \in Broken}}

\* The largest groups, as many as are listed; which of equals is any choice.
TopDangling ==
  {top \in SUBSET Groups :
     /\ Cardinality(top) = Min({TopLimit, Cardinality(Groups)})
     /\ \A g \in top, h \in Groups \ top : Cardinality(g.sources) >= Cardinality(h.sources)}

EdgeHealth ==
  \E top \in TopDangling :
    LET sources == UNION {g.sources : g \in top} IN
    Answer([bodies |-> {}, titles |-> sources, quotes |-> sources,
            counts |-> reader.got[1], byRel |-> reader.got[2], top |-> top])
-----------------------------------------------------------------------------
(* SuggestLinks: the linked pairs, the sources, and the matches of each. *)

CandidatesPerSource == 5

LinkedPairs == Got({{e.src, e.dst} : e \in {x \in Edges : x.dst \in Memories}})
Sources     == Got([todo |-> Readable(reader.scope, <<>>), best |-> {}])

\* faulty variant: what is linked already is suggested again
Match_Linked ==
  /\ \E i \in reader.got[2].todo :
       \E found \in SUBSET (Readable(reader.scope, <<>>) \ {i}) :
         /\ Cardinality(found) <= CandidatesPerSource
         /\ reader' = [reader EXCEPT
              !.got[2].todo = @ \ {i},
              !.got[2].best = @ \cup {{i, j} : j \in found}]
  /\ UNCHANGED <<corpus, writes, seen, answer>>
Match ==
  /\ \E i \in reader.got[2].todo :
       \E found \in SUBSET (Readable(reader.scope, <<>>) \ {i}) :
         /\ Cardinality(found) <= CandidatesPerSource
         /\ reader' = [reader EXCEPT
              !.got[2].todo = @ \ {i},
              !.got[2].best = @ \cup ({{i, j} : j \in found} \ reader.got[1])]
  /\ UNCHANGED <<corpus, writes, seen, answer>>

SuggestLinks ==
  /\ reader.got[2].todo = {}
  /\ Answer([bodies |-> UNION reader.got[2].best, titles |-> {},
                           pairs |-> reader.got[2].best])
-----------------------------------------------------------------------------
\* The handlers pass on a taxonomy, numbers that are not negative, and an id.
HandleSearch(s) == \E p \in Branches : Begin("search", s, [under |-> p])
HandleScope(s)  == \E p \in Taxonomies : Begin("scope", s, [under |-> p])
HandleDeletedMemories(s) == \E p \in Branches : Begin("deleted", s, [under |-> p])
HandleListMemories(s) ==
  \E p \in Branches, page \in Pages :
    Begin("list", s, [under |-> p, limit |-> page[1], offset |-> page[2]])
HandleCatalog(s) ==
  \E p \in Branches, d \in Depths : Begin("catalog", s, [under |-> p, depth |-> d])
HandleGetMemory(s) == \E i \in Memories : Begin("get", s, [center |-> i])
HandleMemoryHistory(s) == \E i \in Memories : Begin("history", s, [center |-> i])
HandleReviewDue(s)    == Begin("due", s, Nothing)
HandleGraph(s) ==
  \/ \E p \in Branches : Begin("graph", s, [center |-> Nothing, under |-> p, depth |-> 0])
  \/ \E i \in Memories, d \in Depths :
       Begin("graph", s, [center |-> i, under |-> <<>>, depth |-> d])
HandleEdgeHealth(s)   == Begin("health", s, Nothing)
HandleSuggestLinks(s) == Begin("suggest", s, Nothing)

Call ==
  \E s \in Scopes :
    \/ HandleSearch(s) \/ HandleScope(s) \/ HandleDeletedMemories(s)
    \/ HandleListMemories(s) \/ HandleCatalog(s) \/ HandleGetMemory(s)
    \/ HandleMemoryHistory(s) \/ HandleReviewDue(s)
    \/ HandleGraph(s) \/ HandleEdgeHealth(s) \/ HandleSuggestLinks(s)

Statement ==
  \/ At("search", 0) /\ Search
  \/ At("scope", 0) /\ BrowseScope
  \/ At("list", 0) /\ ListCount
  \/ At("list", 1) /\ ListPage
  \/ At("deleted", 0) /\ DeletedMemories
  \/ At("catalog", 0) /\ Catalog
  \/ At("get", 0) /\ GetRow
  \/ At("get", 1) /\ GetBacklinks
  \/ At("history", 0) /\ GetRow
  \/ At("history", 1) /\ Revisions
  \/ At("due", 0) /\ DueReviews
  \/ At("graph", 0) /\ GraphNodeMeta
  \/ At("graph", 1) /\ AllEdges
  \/ At("graph", 2) /\ Graph
  \/ At("health", 0) /\ HealthCounts
  \/ At("health", 1) /\ HealthByRel
  \/ At("health", 2) /\ EdgeHealth
  \/ At("suggest", 0) /\ LinkedPairs
  \/ At("suggest", 1) /\ Sources
  \/ At("suggest", 2) /\ (Match \/ SuggestLinks)

Next == Call \/ Statement \/ \E i \in Memories : Write(i) \/ Delete(i)

Spec == Init /\ [][Next]_vars
-----------------------------------------------------------------------------
(* Properties. *)

Answered(op) == answer # Nothing /\ reader.op = op

\* Whatever is written between its statements, a read gives contents only of
\* memories that its scope took at some moment of it, and titles, backlinks, graph
\* leaves and broken links only of those whose titles the scope took: none of what
\* is hidden, tombstones and bridges in the graph included (scope.go "default deny").
\* What a scope takes is what CanRead takes where the code asks that, and what SQL's
\* LIKE takes elsewhere, which is more.  A deleted memory asked for by its id is told
\* of regardless; the review deck and Search's counts of links know no scope.
AnswersStayInScope ==
  answer # Nothing /\ reader.op # "due" =>
    LET asked == {"get", "history"} IN
    /\ answer.bodies \subseteq IF reader.op \in asked \cup {"graph"} THEN seen.bodies ELSE seen.rows
    /\ answer.titles \subseteq
         seen.titles \cup (IF reader.op \in asked THEN {reader.arg.center} ELSE {})
    /\ reader.op = "graph" => answer.quotes \subseteq seen.bodies
    /\ reader.op \in {"get", "health"} => answer.quotes \subseteq seen.titles

\* Two memories one hop apart, in either direction.
Adjacent(es, i, j) == \E e \in es : {e.src, e.dst} = {i, j}

\* A chain of readable memories of at most n hops.
Near(es, full, n, i, j) ==
  \E k \in 0..n : \E f \in [0..k -> full] :
    f[0] = i /\ f[k] = j /\ \A m \in 1..k : Adjacent(es, f[m - 1], f[m])

\* The ego graph holds the memories within the depth asked for along readable ones,
\* no other; and every edge drawn has both ends among the nodes, although nodes,
\* edges and tombstones are read at three moments (includedNodes: no node the
\* caller cannot read may bridge two clusters).
GraphIsTheNeighbourhood ==
  Answered("graph") /\ answer # NotFound =>
    LET meta == reader.got[1]
        full == {i \in DOMAIN meta : CanRead(reader.scope, meta[i])}
        c == reader.arg.center
    IN  /\ c # Nothing =>
             answer.bodies = {i \in full : Near(reader.got[2], full, Hops(reader.arg.depth), c, i)}
        /\ \A e \in answer.links :
             /\ e.src \in answer.bodies
             /\ e.dst \in answer.bodies \cup answer.titles \cup answer.dangling

Total(entries) == SumFunction([x \in entries |-> x.count])

\* However deep the fold, a catalog counts every memory under the prefix whose
\* title may be seen, once; and an entry that can be expanded opens, when asked
\* for by its path, into as many memories over more than itself.
CatalogAddsUp ==
  Answered("catalog") =>
    LET s == reader.scope
        p == reader.arg.under
        d == reader.arg.depth
    IN  /\ Total(answer.entries)
             = Cardinality({i \in Titled(s, <<>>) : IsPrefix(p, place[i].at)})
        /\ d = 0 \/ d > Len(p) =>
             \A x \in answer.entries : x.expandable =>
               LET opened == RollupCatalog(Leaves(s), x.path, 0)
               IN  Total(opened) = x.count /\ \E y \in opened : y.path # x.path

\* A read of several statements that no write comes between agrees with itself and
\* with the corpus: a page with the total, the broken links by relation with their
\* number, the list of broken targets with both unless it is cut short, and
\* suggestions with the links there are.
QuietReadsAgree ==
  writes = 0 =>
    /\ Answered("list") =>
         LET k == reader.arg
             rest == IF k.offset < answer.total THEN answer.total - k.offset ELSE 0
         IN  Cardinality(answer.bodies)
               = IF k.limit = 0 THEN answer.total ELSE Min({k.limit, rest})
    /\ Answered("health") =>
         LET n == answer.counts
             listed == SumFunction([g \in answer.top |-> Cardinality(g.sources)])
             targets == Cardinality({g.target : g \in answer.top})
         IN
         /\ n.total = n.resolved + n.dangling
         /\ n.dangling = SumFunction(answer.byRel)
         /\ IF Cardinality(answer.top) < TopLimit
            THEN listed = n.dangling /\ targets = n.targets
            ELSE /\ Cardinality(answer.top) = TopLimit
                 /\ listed <= n.dangling /\ targets <= n.targets
    /\ Answered("suggest") =>
         \A pair \in answer.pairs :
           /\ Cardinality(pair) = 2 /\ pair \subseteq Readable(reader.scope, <<>>)
           /\ \A e \in Edges : {e.src, e.dst} # pair
=============================================================================
