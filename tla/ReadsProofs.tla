------------------------------ MODULE ReadsProofs ------------------------------
(***************************************************************************)
(* Proofs about Reads: every answer stays in the scope it was asked with,   *)
(* whatever is written between the statements of a read; the ego graph is   *)
(* the neighbourhood of its center; a catalog adds up; and so does a read   *)
(* of several statements that no write comes between.  The first section is *)
(* about the operators of the link graph; then the invariant RInv, one      *)
(* lemma for each kind of step, and its theorems; then what the catalog and *)
(* the counts add up, and the invariant QInv that rests on it.              *)
(***************************************************************************)
EXTENDS Reads, FiniteSetTheorems, SequenceTheorems, TLAPS

-----------------------------------------------------------------------------
(* The link graph, as far as its depth reaches. *)

Around(hop, S) ==
  S \cup {e.src : e \in {x \in hop : x.dst \in S}} \cup {e.dst : e \in {x \in hop : x.src \in S}}

Hop(full, es) == {e \in es : e.src \in full /\ e.dst \in full}

LEMMA HopsAreFew == ASSUME NEW depth \in Nat PROVE Hops(depth) \in 0..4
<1>1. CASE depth > 4
  <2>1. 4 \in {depth, 4} /\ \A y \in {depth, 4} : 4 <= y
    BY <1>1
  <2>2. \A x \in {depth, 4} : (\A y \in {depth, 4} : x <= y) => x = 4
    BY <1>1
  <2> QED  BY <1>1, <2>1, <2>2 DEF Hops, Min, MaxGraphDepth
<1>2. CASE depth \in 0..4
  <2>1. depth \in {depth, 4} /\ \A y \in {depth, 4} : depth <= y
    BY <1>2
  <2>2. \A x \in {depth, 4} : (\A y \in {depth, 4} : x <= y) => x = depth
    BY <1>2
  <2> QED  BY <1>2, <2>1, <2>2 DEF Hops, Min, MaxGraphDepth
<1> QED  BY <1>1, <1>2

\* r[d] is what is reached in d hops, as far as the depth goes.
Reached(r, center, depth, full, es) ==
  /\ r[0] = {center}
  /\ \A d \in 1..Hops(depth) : r[d] = Around(Hop(full, es), r[d - 1])
  /\ EgoGraph(center, depth, full, es) = r[Hops(depth)]

\* A function that is defined by recursion over so few hops is there.
LEMMA ReachIs ==
  ASSUME NEW center, NEW full, NEW es, NEW depth \in Nat
  PROVE  \E r : Reached(r, center, depth, full, es)
<1> DEFINE hop == {e \in es : e.src \in full /\ e.dst \in full}
           reach[d \in 0..Hops(depth)] ==
             IF d = 0 THEN {center}
             ELSE reach[d - 1] \cup {e.src : e \in {x \in hop : x.dst \in reach[d - 1]}}
                               \cup {e.dst : e \in {x \in hop : x.src \in reach[d - 1]}}
<1>1. EgoGraph(center, depth, full, es) = reach[Hops(depth)]
  BY DEF EgoGraph
<1> DEFINE H == Hops(depth)
           r0 == {center}
           r1 == Around(hop, r0)
           r2 == Around(hop, r1)
           r3 == Around(hop, r2)
           r4 == Around(hop, r3)
           f == [d \in 0..H |-> IF d = 0 THEN r0 ELSE IF d = 1 THEN r1 ELSE IF d = 2 THEN r2
                                ELSE IF d = 3 THEN r3 ELSE r4]
           Steps(r) == [d \in 0..H |-> IF d = 0 THEN {center} ELSE Around(hop, r[d - 1])]
<1>2. H \in 0..4
  BY HopsAreFew
<1>3. f = Steps(f)
  <2> HIDE DEF r1, r2, r3, r4, hop, H
  <2>1. ASSUME NEW d \in 0..H, d # 0 PROVE f[d] = Around(hop, f[d - 1])
    <3>1. d - 1 \in 0..H /\ d \in 1..4
      BY <1>2, <2>1
    <3>2. CASE d = 1
      BY <3>1, <3>2 DEF r1
    <3>3. CASE d = 2
      BY <3>1, <3>3 DEF r2
    <3>4. CASE d = 3
      BY <3>1, <3>4 DEF r3
    <3>5. CASE d = 4
      BY <3>1, <3>5 DEF r4
    <3> QED  BY <3>1, <3>2, <3>3, <3>4, <3>5
  <2>2. \A d \in 0..H : f[d] = IF d = 0 THEN {center} ELSE Around(hop, f[d - 1])
    BY <2>1
  <2> HIDE DEF r0
  <2> QED  BY <2>2
<1>4. reach = CHOOSE r : r = Steps(r)
  BY DEF reach, Around
<1>5. reach = Steps(reach)
  BY <1>3, <1>4
<1> HIDE DEF reach, f
<1>6. 0 \in 0..H /\ H \in 0..H /\ \A d \in 1..H : d \in 0..H /\ d # 0
  BY <1>2
<1>7. reach[0] = {center} /\ \A d \in 1..H : reach[d] = Around(hop, reach[d - 1])
  BY <1>5, <1>6
<1>8. hop = Hop(full, es)
  BY DEF Hop
<1>9. Reached(reach, center, depth, full, es)
  BY <1>1, <1>7, <1>8 DEF Reached
<1> QED  BY <1>9

\* The readable memories within n hops of c.
Close(es, full, n, c) == {i \in full : Near(es, full, n, c, i)}

LEMMA NearZero ==
  ASSUME NEW es, NEW full, NEW c \in full
  PROVE  Close(es, full, 0, c) = {c}
<1>1. Near(es, full, 0, c, c)
  <2> DEFINE f == [m \in 0..0 |-> c]
  <2>1. f \in [0..0 -> full] /\ f[0] = c /\ \A m \in 1..0 : Adjacent(es, f[m - 1], f[m])
    OBVIOUS
  <2> HIDE DEF f
  <2>2. 0 \in 0..0
    OBVIOUS
  <2> QED  BY <2>1, <2>2 DEF Near
<1>2. \A i \in full : Near(es, full, 0, c, i) => i = c
  BY DEF Near
<1> QED  BY <1>1, <1>2 DEF Close

LEMMA NearLonger ==
  ASSUME NEW es, NEW full, NEW n \in Nat, NEW c \in full, NEW i \in full, NEW j \in full,
         Near(es, full, n, c, i), Adjacent(es, i, j)
  PROVE  Near(es, full, n + 1, c, j)
<1>0. PICK k \in 0..n : \E f \in [0..k -> full] :
        f[0] = c /\ f[k] = i /\ \A m \in 1..k : Adjacent(es, f[m - 1], f[m])
  BY DEF Near
<1>1. PICK f \in [0..k -> full] :
        f[0] = c /\ f[k] = i /\ \A m \in 1..k : Adjacent(es, f[m - 1], f[m])
  BY <1>0
<1> DEFINE g == [m \in 0..(k + 1) |-> IF m = k + 1 THEN j ELSE f[m]]
<1>2. g \in [0..(k + 1) -> full] /\ k + 1 \in 0..(n + 1)
  BY <1>1
<1>3. g[0] = c /\ g[k + 1] = j /\ g[k] = i
  BY <1>1
<1>4. ASSUME NEW m \in 1..(k + 1) PROVE Adjacent(es, g[m - 1], g[m])
  <2>1. CASE m = k + 1
    <3>1. m - 1 = k
      BY <2>1
    <3> QED  BY <1>3, <2>1, <3>1
  <2>2. CASE m \in 1..k
    <3>1. g[m] = f[m] /\ g[m - 1] = f[m - 1]
      BY <2>2
    <3> QED  BY <1>1, <2>2, <3>1
  <2> QED  BY <2>1, <2>2
<1> HIDE DEF g
<1> QED  BY <1>2, <1>3, <1>4 DEF Near

LEMMA NearNext ==
  ASSUME NEW es, NEW full, NEW n \in Nat, NEW c \in full
  PROVE  Close(es, full, n + 1, c) = Around(Hop(full, es), Close(es, full, n, c))
<1> DEFINE C == Close(es, full, n, c)
<1>1. ASSUME NEW i \in Around(Hop(full, es), C) PROVE i \in Close(es, full, n + 1, c)
  <2>1. CASE i \in C
    <3>1. i \in full /\ Near(es, full, n, c, i)
      BY <2>1 DEF Close
    <3>2. PICK k \in 0..n : \E f \in [0..k -> full] :
            f[0] = c /\ f[k] = i /\ \A m \in 1..k : Adjacent(es, f[m - 1], f[m])
      BY <3>1 DEF Near
    <3>3. k \in 0..(n + 1)
      OBVIOUS
    <3> QED  BY <3>1, <3>2, <3>3 DEF Close, Near
  <2>2. CASE \E e \in Hop(full, es) : (e.src = i /\ e.dst \in C) \/ (e.dst = i /\ e.src \in C)
    <3>1. PICK e \in Hop(full, es) : (e.src = i /\ e.dst \in C) \/ (e.dst = i /\ e.src \in C)
      BY <2>2
    <3>2. e \in es /\ e.src \in full /\ e.dst \in full /\ i \in full
      BY <3>1 DEF Hop
    <3>3. PICK j \in C : {e.src, e.dst} = {j, i}
      BY <3>1
    <3>4. j \in full /\ Near(es, full, n, c, j) /\ Adjacent(es, j, i)
      BY <3>2, <3>3 DEF Close, Adjacent
    <3> QED  BY <3>2, <3>4, NearLonger DEF Close
  <2> QED  BY <2>1, <2>2 DEF Around
<1>2. ASSUME NEW i \in Close(es, full, n + 1, c) PROVE i \in Around(Hop(full, es), C)
  <2>0. PICK k \in 0..(n + 1) : \E f \in [0..k -> full] :
          f[0] = c /\ f[k] = i /\ \A m \in 1..k : Adjacent(es, f[m - 1], f[m])
    BY DEF Close, Near
  <2>1. PICK f \in [0..k -> full] :
          f[0] = c /\ f[k] = i /\ \A m \in 1..k : Adjacent(es, f[m - 1], f[m])
    BY <2>0
  <2>2. i \in full
    BY DEF Close
  <2>3. CASE k \in 0..n
    <3>1. i \in C
      BY <2>1, <2>2, <2>3 DEF Close, Near
    <3> QED  BY <3>1 DEF Around
  <2>4. CASE k = n + 1
    <3> DEFINE g == [m \in 0..n |-> f[m]]
    <3>1. g \in [0..n -> full] /\ g[0] = c /\ g[n] = f[n] /\ n \in 0..n
      BY <2>1, <2>4
    <3>2. ASSUME NEW m \in 1..n PROVE Adjacent(es, g[m - 1], g[m])
      <4>1. g[m - 1] = f[m - 1] /\ g[m] = f[m] /\ m \in 1..k
        BY <2>4
      <4> QED  BY <2>1, <4>1
    <3>3. Near(es, full, n, c, f[n])
      <4> HIDE DEF g
      <4> QED  BY <3>1, <3>2 DEF Near
    <3>4. f[n] \in full
      BY <3>1
    <3>5. f[n] \in C
      BY <3>3, <3>4 DEF Close
    <3>6. Adjacent(es, f[n], i)
      <4>1. k \in 1..k /\ k - 1 = n
        BY <2>4
      <4> QED  BY <2>1, <4>1
    <3>7. PICK e \in es : {e.src, e.dst} = {f[n], i}
      BY <3>6 DEF Adjacent
    <3>10. e.src \in {f[n], i} /\ e.dst \in {f[n], i}
      BY <3>7
    <3>8. e \in Hop(full, es)
      BY <2>2, <3>4, <3>10 DEF Hop
    <3>9. i = f[n] \/ (e.src = i /\ e.dst = f[n]) \/ (e.dst = i /\ e.src = f[n])
      BY <3>7
    <3> HIDE DEF C
    <3> QED  BY <3>5, <3>8, <3>9 DEF Around
  <2> QED  BY <2>1, <2>3, <2>4
<1> QED  BY <1>1, <1>2

\* includedNodes finds the neighbourhood.
LEMMA EgoGraphIsClose ==
  ASSUME NEW es, NEW full, NEW c \in full, NEW depth \in Nat
  PROVE  EgoGraph(c, depth, full, es) = Close(es, full, Hops(depth), c)
<1>0. PICK r : Reached(r, c, depth, full, es)
  BY ReachIs
<1>1. /\ r[0] = {c}
      /\ \A d \in 1..Hops(depth) : r[d] = Around(Hop(full, es), r[d - 1])
      /\ EgoGraph(c, depth, full, es) = r[Hops(depth)]
  BY <1>0 DEF Reached
<1> DEFINE H == Hops(depth)
<1>2. H \in 0..4
  BY HopsAreFew
<1> HIDE DEF H
<1>3. r[0] = Close(es, full, 0, c)
  <2>1. Close(es, full, 0, c) = {c}
    BY NearZero, Zenon
  <2> QED  BY <1>1, <2>1, Zenon
<1>4. ASSUME NEW d \in 1..H, r[d - 1] = Close(es, full, d - 1, c)
      PROVE  r[d] = Close(es, full, d, c)
  <2>1. d - 1 \in Nat /\ (d - 1) + 1 = d
    BY <1>2
  <2>2. Close(es, full, d, c) = Around(Hop(full, es), Close(es, full, d - 1, c))
    BY <2>1, NearNext
  <2>3. d \in 1..Hops(depth)
    BY DEF H
  <2> QED  BY <1>1, <1>4, <2>2, <2>3
<1>5. 1 <= H => r[1] = Close(es, full, 1, c)
  BY <1>2, <1>3, <1>4
<1>6. 2 <= H => r[2] = Close(es, full, 2, c)
  BY <1>2, <1>4, <1>5
<1>7. 3 <= H => r[3] = Close(es, full, 3, c)
  BY <1>2, <1>4, <1>6
<1>8. 4 <= H => r[4] = Close(es, full, 4, c)
  BY <1>2, <1>4, <1>7
<1>9. r[H] = Close(es, full, H, c)
  BY <1>2, <1>3, <1>5, <1>6, <1>7, <1>8
<1> QED  BY <1>1, <1>9 DEF H

-----------------------------------------------------------------------------
(* The invariant: while a read is under way, what the reader may see has been *)
(* seen, and so has all that its statements have given it so far.             *)

\* What Graph's first statement gave: it is sorted out by scope at the end.
MetaSeen(s, meta, sn) ==
  \A i \in DOMAIN meta : /\ CanRead(s, meta[i]) => i \in sn.bodies
                         /\ TitleVisible(s, meta[i]) => i \in sn.titles

\* The sources and the pairs of SuggestLinks.
BestSeen(b, sn) ==
  /\ b = [todo |-> b.todo, best |-> b.best]
  /\ b.todo \subseteq sn.rows /\ UNION b.best \subseteq sn.rows

ReaderSeen(r, sn) ==
  /\ r = [op |-> r.op, scope |-> r.scope, arg |-> r.arg, got |-> r.got]
  /\ r.got = <<>> \/ r.got = <<r.got[1]>> \/ r.got = <<r.got[1], r.got[2]>>
  /\ r.op = "graph" => r.arg.depth \in Nat
  /\ r.op \in {"get", "history"} /\ Len(r.got) = 1 => r.arg.center \in sn.bodies
  /\ r.op = "graph" /\ Len(r.got) >= 1 => MetaSeen(r.scope, r.got[1], sn)
  /\ r.op = "suggest" /\ Len(r.got) = 2 => BestSeen(r.got[2], sn)

SeenAll(s) ==
  /\ Visible(s).bodies \subseteq seen.bodies
  /\ Visible(s).rows \subseteq seen.rows
  /\ Visible(s).titles \subseteq seen.titles

RInv ==
  /\ place \in [Memories -> Row \cup {Nothing}]
  /\ reader = Nothing => answer = Nothing
  /\ Reading => ReaderSeen(reader, seen) /\ SeenAll(reader.scope)
  /\ AnswersStayInScope
  /\ GraphIsTheNeighbourhood

\* Every SELECT gives what the reader may see at the moment.
LEMMA SelectsSeen ==
  ASSUME RInv, Reading, NEW p
  PROVE  /\ Readable(reader.scope, p) \subseteq seen.rows
         /\ Titled(reader.scope, p) \subseteq seen.titles
         /\ Tombstones(reader.scope, p) \subseteq seen.titles
         /\ \A e \in Edges : TitleClause(reader.scope, place[e.src].at) => e.src \in seen.titles
<1>1. SeenAll(reader.scope)
  BY DEF RInv
<1>2. Readable(reader.scope, p) \subseteq Visible(reader.scope).rows
  BY DEF Readable, Visible
<1>3. Titled(reader.scope, p) \subseteq Visible(reader.scope).titles
  BY DEF Titled, Visible
<1>4. Tombstones(reader.scope, p) \subseteq Visible(reader.scope).titles
  BY DEF Tombstones, Visible
<1>5. \A e \in Edges : TitleClause(reader.scope, place[e.src].at)
                         => e.src \in Visible(reader.scope).titles
  <2>1. \A e \in Edges : e.src \in Live
    BY DEF Edges
  <2> QED  BY <2>1 DEF Visible
<1> QED  BY <1>1, <1>2, <1>3, <1>4, <1>5 DEF SeenAll

LEMMA InitReads == Init => RInv
BY DEF Init, RInv, Reading, AnswersStayInScope, GraphIsTheNeighbourhood, Answered

LEMMA SeenGrows ==
  ASSUME NEW r, NEW sn, NEW sm, ReaderSeen(r, sn),
         sn.bodies \subseteq sm.bodies, sn.rows \subseteq sm.rows, sn.titles \subseteq sm.titles
  PROVE  ReaderSeen(r, sm)
BY DEF ReaderSeen, MetaSeen, BestSeen

-----------------------------------------------------------------------------
(* The calls and the writes. *)

Begun(s) == \E op, arg : Begin(op, s, arg) /\ (op = "graph" => arg.depth \in Nat)

LEMMA Begins ==
  ASSUME NEW s, NEW op, op # "graph", NEW arg, Begin(op, s, arg)
  PROVE  Begun(s)
BY DEF Begun

LEMMA CallReads == ASSUME RInv, Call PROVE RInv'
<1>0. PICK s \in Scopes : Begun(s)
  <2>1. PICK s \in Scopes :
          \/ HandleSearch(s) \/ HandleScope(s) \/ HandleDeletedMemories(s)
          \/ HandleListMemories(s) \/ HandleCatalog(s) \/ HandleGetMemory(s)
          \/ HandleMemoryHistory(s) \/ HandleReviewDue(s)
          \/ HandleGraph(s) \/ HandleEdgeHealth(s) \/ HandleSuggestLinks(s)
    BY DEF Call
  <2>2. CASE HandleGraph(s)
    <3>1. CASE \E p \in Branches : Begin("graph", s, [center |-> Nothing, under |-> p, depth |-> 0])
      BY <3>1 DEF Begun
    <3>2. CASE \E i \in Memories, d \in Depths :
                 Begin("graph", s, [center |-> i, under |-> <<>>, depth |-> d])
      BY <3>2, DepthsAssumption DEF Begun
    <3> QED  BY <2>2, <3>1, <3>2 DEF HandleGraph
  <2>4. CASE HandleSearch(s) \/ HandleScope(s) \/ HandleDeletedMemories(s)
    BY <2>4, Begins DEF HandleSearch, HandleScope, HandleDeletedMemories
  <2>5. CASE HandleListMemories(s) \/ HandleCatalog(s) \/ HandleGetMemory(s)
    BY <2>5, Begins DEF HandleListMemories, HandleCatalog, HandleGetMemory
  <2>6. CASE HandleEdgeHealth(s) \/ HandleSuggestLinks(s)
    BY <2>6, Begins DEF HandleEdgeHealth, HandleSuggestLinks
  <2>7. CASE HandleMemoryHistory(s) \/ HandleReviewDue(s)
    BY <2>7, Begins DEF HandleMemoryHistory, HandleReviewDue
  <2> QED  BY <2>1, <2>2, <2>4, <2>5, <2>6, <2>7
<1>1. PICK op, arg : Begin(op, s, arg) /\ (op = "graph" => arg.depth \in Nat)
  BY <1>0 DEF Begun
<1>2. /\ reader = Nothing /\ answer = Nothing /\ answer' = Nothing /\ place' = place
      /\ reader' = [op |-> op, scope |-> s, arg |-> arg, got |-> <<>>]
      /\ seen' = Visible(s)
  BY <1>1 DEF Begin, RInv, corpus
<1>3. ReaderSeen(reader', seen')
  BY <1>1, <1>2 DEF ReaderSeen
<1>4. SeenAll(reader.scope)'
  BY <1>2 DEF SeenAll, Visible, Live, Deleted
<1> QED  BY <1>2, <1>3, <1>4 DEF RInv, AnswersStayInScope, GraphIsTheNeighbourhood, Answered

LEMMA WriteReads ==
  ASSUME RInv, NEW i \in Memories, Write(i) \/ Delete(i)
  PROVE  RInv'
<1>1. /\ Reading /\ reader' = reader /\ answer' = answer /\ Written
  BY DEF Write, Delete, Written
<1>2. place' \in [Memories -> Row \cup {Nothing}]
  <2>1. CASE Write(i)
    BY <2>1 DEF Write, RInv, Row
  <2>2. CASE Delete(i)
    <3>1. place[i] \in Row
      BY <2>2 DEF Delete, Live, RInv
    <3>2. [place[i] EXCEPT !.live = FALSE] \in Row
      BY <3>1 DEF Row
    <3> QED  BY <2>2, <3>2 DEF Delete, RInv
  <2> QED  BY <2>1, <2>2
<1>3. /\ seen'.bodies = seen.bodies \cup Visible(reader.scope)'.bodies
      /\ seen'.rows = seen.rows \cup Visible(reader.scope)'.rows
      /\ seen'.titles = seen.titles \cup Visible(reader.scope)'.titles
  BY <1>1 DEF Written
<1>4. ReaderSeen(reader', seen') /\ SeenAll(reader.scope)'
  <2>1. ReaderSeen(reader, seen)
    BY <1>1 DEF RInv
  <2>2. ReaderSeen(reader, seen')
    BY <1>3, <2>1, SeenGrows
  <2> QED  BY <1>1, <1>3, <2>2 DEF SeenAll
<1>5. answer' = Nothing /\ reader' # Nothing
  BY <1>1 DEF Reading
<1> QED
  BY <1>2, <1>4, <1>5 DEF RInv, AnswersStayInScope, GraphIsTheNeighbourhood, Answered

-----------------------------------------------------------------------------
(* The statements: an answer, or a result and another statement to come. *)

\* What GraphIsTheNeighbourhood says of the read r and its answer a.
Neighbourhood(r, a) ==
  LET meta == r.got[1]
      full == {i \in DOMAIN meta : CanRead(r.scope, meta[i])}
      c == r.arg.center
  IN  /\ c # Nothing =>
           a.bodies = {i \in full : Near(r.got[2], full, Hops(r.arg.depth), c, i)}
      /\ \A e \in a.links :
           /\ e.src \in a.bodies
           /\ e.dst \in a.bodies \cup a.titles \cup a.dangling

\* What AnswersStayInScope says of an answer a to the read r.
InScope(r, a, sn) ==
  LET asked == {"get", "history"} IN
  /\ a.bodies \subseteq IF r.op \in asked \cup {"graph"} THEN sn.bodies ELSE sn.rows
  /\ a.titles \subseteq sn.titles \cup (IF r.op \in asked THEN {r.arg.center} ELSE {})
  /\ r.op = "graph" => a.quotes \subseteq sn.bodies
  /\ r.op \in {"get", "health"} => a.quotes \subseteq sn.titles

LEMMA AnswerReads ==
  ASSUME RInv, Reading, NEW a, Answer(a),
         reader.op = "graph" /\ a # NotFound => Neighbourhood(reader, a),
         reader.op # "due" => InScope(reader, a, seen)
  PROVE  RInv'
<1>1. /\ place' = place /\ reader' = reader /\ seen' = seen /\ answer' = a
      /\ reader # Nothing /\ answer = Nothing
  BY DEF Answer, corpus, Reading
<1>2. AnswersStayInScope'
  BY <1>1, Zenon DEF AnswersStayInScope, InScope
<1>3. GraphIsTheNeighbourhood'
  <2>1. Answered("graph")' /\ answer' # NotFound => Neighbourhood(reader, a)
    BY <1>1 DEF Answered
  <2>2. Neighbourhood(reader, a) => Neighbourhood(reader, answer)'
    BY <1>1 DEF Neighbourhood
  <2> QED  BY <2>1, <2>2 DEF GraphIsTheNeighbourhood, Neighbourhood
<1>4. Reading' => ReaderSeen(reader, seen)' /\ SeenAll(reader.scope)'
  BY <1>1 DEF RInv, ReaderSeen, MetaSeen, BestSeen, SeenAll, Visible, Live, Deleted
<1> QED  BY <1>1, <1>2, <1>3, <1>4 DEF RInv

\* A second result after a first.
LEMMA SecondOne ==
  ASSUME NEW g, NEW x
  PROVE  /\ Append(<<g>>, x) = <<g, x>> /\ Len(<<g, x>>) = 2
         /\ <<g, x>>[1] = g /\ <<g, x>>[2] = x
<1> DEFINE s == Append(<<g>>, x)
<1>1. <<g>> \in Seq({g, x}) /\ Len(<<g>>) = 1 /\ <<g>>[1] = g
  OBVIOUS
<1>2. s \in Seq({g, x}) /\ Len(s) = 2
  BY <1>1
<1>3. s[1] = g /\ s[2] = x
  BY <1>1
<1>4. DOMAIN s = 1..2
  BY <1>2
<1>5. <<g, x>> = [n \in 1..2 |-> <<g, x>>[n]]
  OBVIOUS
<1>6. Len(<<g, x>>) = 2 /\ <<g, x>>[1] = g /\ <<g, x>>[2] = x
  OBVIOUS
<1> HIDE DEF s
<1>7. s = [n \in 1..2 |-> s[n]]
  BY <1>2, <1>4
<1>8. \A n \in 1..2 : <<g, x>>[n] = s[n]
  BY <1>3
<1>9. s = <<g, x>>
  BY <1>5, <1>7, <1>8, Zenon
<1> QED  BY <1>6, <1>9 DEF s

\* What a result does to the read.
LEMMA GotIs ==
  ASSUME RInv, Reading, NEW x, Got(x), reader.got = <<>> \/ Len(reader.got) = 1
  PROVE  /\ reader'.op = reader.op /\ reader'.scope = reader.scope /\ reader'.arg = reader.arg
         /\ reader' = [op |-> reader'.op, scope |-> reader'.scope, arg |-> reader'.arg,
                       got |-> reader'.got]
         /\ reader.got = <<>> => /\ reader'.got = <<x>> /\ Len(reader'.got) = 1
                                 /\ reader'.got[1] = x
         /\ reader.got # <<>> => /\ reader'.got = <<reader.got[1], x>> /\ Len(reader'.got) = 2
                                 /\ reader'.got[1] = reader.got[1] /\ reader'.got[2] = x
<1>1. reader' = [reader EXCEPT !.got = Append(@, x)]
  BY DEF Got
<1>2. ReaderSeen(reader, seen)
  BY DEF RInv
<1>3. /\ reader'.op = reader.op /\ reader'.scope = reader.scope /\ reader'.arg = reader.arg
      /\ reader'.got = Append(reader.got, x)
      /\ reader' = [op |-> reader'.op, scope |-> reader'.scope, arg |-> reader'.arg,
                    got |-> reader'.got]
  BY <1>1, <1>2 DEF ReaderSeen
<1>4. CASE reader.got = <<>>
  <2>1. reader'.got = <<x>> /\ Len(reader'.got) = 1 /\ reader'.got[1] = x
    BY <1>3, <1>4
  <2> QED  BY <1>3, <1>4, <2>1
<1>5. CASE reader.got = <<reader.got[1]>> /\ Len(reader.got) = 1
  <2>1. reader'.got = Append(<<reader.got[1]>>, x)
    BY <1>3, <1>5, Zenon
  <2>2. Append(<<reader.got[1]>>, x) = <<reader.got[1], x>>
    BY SecondOne, Zenon
  <2>3. /\ Len(<<reader.got[1], x>>) = 2
        /\ <<reader.got[1], x>>[1] = reader.got[1] /\ <<reader.got[1], x>>[2] = x
    BY SecondOne, Zenon
  <2>4. reader'.got = <<reader.got[1], x>>
    BY <2>1, <2>2, Zenon
  <2>5. reader.got # <<>>
    BY <1>5
  <2> QED  BY <1>3, <2>3, <2>4, <2>5, Zenon
<1>6. reader.got = <<>> \/ (reader.got = <<reader.got[1]>> /\ Len(reader.got) = 1)
  BY <1>2 DEF ReaderSeen
<1> QED  BY <1>4, <1>5, <1>6

\* The first statement of a read, and the second, with what is wanted of them.
LEMMA GotReads ==
  ASSUME RInv, Reading, NEW x, Got(x), reader.got = <<>> \/ Len(reader.got) = 1,
         reader.got = <<>> =>
           /\ reader.op \in {"get", "history"} => reader.arg.center \in seen.bodies
           /\ reader.op = "graph" => MetaSeen(reader.scope, x, seen),
         Len(reader.got) = 1 /\ reader.op = "suggest" => BestSeen(x, seen)
  PROVE  RInv'
<1>1. /\ place' = place /\ seen' = seen /\ answer' = Nothing /\ reader # Nothing
  BY DEF Got, corpus, Reading
<1>2. ReaderSeen(reader, seen)
  BY DEF RInv
<1>3. /\ reader'.op = reader.op /\ reader'.scope = reader.scope /\ reader'.arg = reader.arg
      /\ reader' = [op |-> reader'.op, scope |-> reader'.scope, arg |-> reader'.arg,
                    got |-> reader'.got]
  BY GotIs
<1>4. ReaderSeen(reader', seen)
  <2>1. CASE reader.got = <<>>
    <3>1. reader'.got = <<x>> /\ Len(reader'.got) = 1 /\ reader'.got[1] = x
      BY <2>1, GotIs
    <3> QED  BY <1>2, <1>3, <2>1, <3>1 DEF ReaderSeen
  <2>2. CASE reader.got # <<>>
    <3>1. /\ reader'.got = <<reader.got[1], x>> /\ Len(reader'.got) = 2
          /\ reader'.got[1] = reader.got[1] /\ reader'.got[2] = x /\ Len(reader.got) = 1
      BY <2>2, GotIs
    <3> QED  BY <1>2, <1>3, <2>2, <3>1 DEF ReaderSeen
  <2> QED  BY <2>1, <2>2
<1>5. ReaderSeen(reader, seen)' /\ SeenAll(reader.scope)'
  BY <1>1, <1>3, <1>4 DEF RInv, SeenAll, Visible, Live, Deleted
<1> QED
  BY <1>1, <1>5 DEF RInv, AnswersStayInScope, GraphIsTheNeighbourhood, Answered

\* The rows of a statement are those of the set it selects.
LEMMA RowsAreOf ==
  ASSUME NEW S, NEW rows \in SetToSeqs(S), NEW D, D \subseteq DOMAIN rows
  PROVE  {rows[n] : n \in D} \subseteq S
BY DEF SetToSeqs

LEMMA FlatReads ==
  ASSUME RInv,
         \/ At("search", 0) /\ Search
         \/ At("scope", 0) /\ BrowseScope
         \/ At("list", 1) /\ ListPage
         \/ At("deleted", 0) /\ DeletedMemories
         \/ At("catalog", 0) /\ Catalog
         \/ At("health", 2) /\ EdgeHealth
         \/ At("due", 0) /\ DueReviews
  PROVE  RInv'
<1>1. Reading /\ reader.op \notin {"get", "history", "graph"}
  BY DEF At
<1>2. ASSUME NEW a, Answer(a), a.bodies \subseteq seen.rows, a.titles \subseteq seen.titles,
             reader.op = "health" => a.quotes \subseteq seen.titles
      PROVE  RInv'
  <2>1. InScope(reader, a, seen)
    BY <1>1, <1>2 DEF InScope
  <2> QED  BY <1>1, <1>2, <2>1, AnswerReads
<1>3. CASE At("search", 0) /\ Search
  <2>0. reader.op # "health"
    BY <1>3 DEF At
  <2> DEFINE Given(rows, took) ==
               \E a : Answer(a) /\ a.bodies = {rows[n] : n \in took} /\ a.titles = {}
  <2>1. PICK matching \in SUBSET Readable(reader.scope, reader.arg.under) :
          \E rows \in SetToSeqs(matching) : \E took \in SUBSET DOMAIN rows : Given(rows, took)
    BY <1>3 DEF Search, Taken
  <2>2. PICK rows \in SetToSeqs(matching) : \E took \in SUBSET DOMAIN rows : Given(rows, took)
    BY <2>1
  <2>3. PICK took \in SUBSET DOMAIN rows : Given(rows, took)
    BY <2>2
  <2>4. {rows[n] : n \in took} \subseteq matching
    BY RowsAreOf
  <2>5. {rows[n] : n \in took} \subseteq seen.rows
    BY <1>1, <2>4, SelectsSeen
  <2>6. PICK a : Answer(a) /\ a.bodies = {rows[n] : n \in took} /\ a.titles = {}
    BY <2>3
  <2> QED  BY <1>2, <2>0, <2>5, <2>6
<1>4. CASE At("scope", 0) /\ BrowseScope
  <2> DEFINE titled == Titled(reader.scope, reader.arg.under)
  <2>0. reader.op # "health"
    BY <1>4 DEF At
  <2>1. PICK rows \in SetToSeqs(titled) : \E took \in SUBSET DOMAIN rows :
          Answer([bodies |-> {}, titles |-> {rows[n] : n \in took},
                  omitted |-> Cardinality(titled) - Cardinality(took)])
    BY <1>4 DEF BrowseScope, Taken
  <2>2. PICK took \in SUBSET DOMAIN rows :
          Answer([bodies |-> {}, titles |-> {rows[n] : n \in took},
                  omitted |-> Cardinality(titled) - Cardinality(took)])
    BY <2>1
  <2>3. {rows[n] : n \in took} \subseteq seen.titles
    BY <1>1, SelectsSeen, RowsAreOf
  <2> QED  BY <1>2, <2>0, <2>2, <2>3
<1>5. CASE At("list", 1) /\ ListPage
  <2>0. reader.op # "health"
    BY <1>5 DEF At
  <2>1. PICK rows \in SetToSeqs(Readable(reader.scope, reader.arg.under)) :
          \E page \in SUBSET DOMAIN rows :
            Answer([bodies |-> {rows[n] : n \in page}, titles |-> {}, total |-> reader.got[1]])
    BY <1>5 DEF ListPage
  <2>2. PICK page \in SUBSET DOMAIN rows :
          Answer([bodies |-> {rows[n] : n \in page}, titles |-> {}, total |-> reader.got[1]])
    BY <2>1
  <2>3. {rows[n] : n \in page} \subseteq seen.rows
    BY <1>1, SelectsSeen, RowsAreOf
  <2> QED  BY <1>2, <2>0, <2>2, <2>3
<1>6. CASE At("deleted", 0) /\ DeletedMemories
  <2>1. Tombstones(reader.scope, reader.arg.under) \subseteq seen.titles
    BY <1>1, SelectsSeen
  <2> QED  BY <1>2, <1>6, <2>1 DEF DeletedMemories, Named
<1>7. CASE At("catalog", 0) /\ Catalog
  <2>0. reader.op # "health"
    BY <1>7 DEF At
  <2> QED  BY <1>2, <1>7, <2>0 DEF Catalog
<1>8. CASE At("health", 2) /\ EdgeHealth
  <2>1. PICK top \in SUBSET Groups :
          LET sources == UNION {g.sources : g \in top} IN
          Answer([bodies |-> {}, titles |-> sources, quotes |-> sources,
                  counts |-> reader.got[1], byRel |-> reader.got[2], top |-> top])
    BY <1>8 DEF EdgeHealth, TopDangling
  <2>2. UNION {g.sources : g \in top} \subseteq seen.titles
    <3>1. \A e \in Broken : e.src \in seen.titles
      BY <1>1, SelectsSeen DEF Broken, ScopedEdges
    <3>2. \A g \in Groups : g.sources \subseteq seen.titles
      BY <3>1 DEF Groups
    <3> QED  BY <3>2
  <2> QED  BY <1>2, <2>1, <2>2
<1>9. CASE At("due", 0) /\ DueReviews
  <2>1. reader.op = "due"
    BY <1>9 DEF At
  <2> QED  BY <1>1, <1>9, <2>1, AnswerReads DEF DueReviews
<1> QED  BY <1>3, <1>4, <1>5, <1>6, <1>7, <1>8, <1>9

\* Of the first statements, GetRow goes on with a row the reader may read only.
LEMMA FirstReads ==
  ASSUME RInv,
         \/ At("list", 0) /\ ListCount
         \/ At("get", 0) /\ GetRow
         \/ At("history", 0) /\ GetRow
         \/ At("graph", 0) /\ GraphNodeMeta
         \/ At("health", 0) /\ HealthCounts
         \/ At("suggest", 0) /\ LinkedPairs
  PROVE  RInv'
<1>1. Reading /\ Len(reader.got) = 0
  BY DEF At
<1>2. reader.got = <<>>
  BY <1>1 DEF RInv, ReaderSeen
<1>3. ASSUME NEW x, Got(x), reader.op \notin {"get", "history", "graph"} PROVE RInv'
  BY <1>1, <1>2, <1>3, GotReads
<1>4. CASE (At("list", 0) /\ ListCount) \/ (At("health", 0) /\ HealthCounts)
             \/ (At("suggest", 0) /\ LinkedPairs)
  BY <1>3, <1>4 DEF At, ListCount, HealthCounts, LinkedPairs
<1>5. CASE (At("get", 0) \/ At("history", 0)) /\ GetRow
  <2> DEFINE i == reader.arg.center
  <2>0. reader.op \in {"get", "history"}
    BY <1>5 DEF At
  <2>1. CASE i \in Live /\ CanRead(reader.scope, place[i].at) /\ Got(i)
    <3>1. i \in seen.bodies
      BY <1>1, <2>1 DEF RInv, SeenAll, Visible
    <3> QED  BY <1>1, <1>2, <2>0, <2>1, <3>1, GotReads
  <2>2. CASE Answer(Named({}, Deleted \cap {i}, {}))
    <3>1. InScope(reader, Named({}, Deleted \cap {i}, {}), seen)
      BY <2>0 DEF InScope, Named
    <3> QED  BY <1>1, <2>0, <2>2, <3>1, AnswerReads
  <2> QED  BY <1>5, <2>1, <2>2 DEF GetRow
<1>6. CASE At("graph", 0) /\ GraphNodeMeta
  <2> DEFINE meta == [i \in Live |-> place[i].at]
  <2>1. MetaSeen(reader.scope, meta, seen)
    BY <1>1 DEF MetaSeen, RInv, SeenAll, Visible
  <2>2. Got(meta) /\ reader.op = "graph"
    BY <1>6 DEF At, GraphNodeMeta
  <2> HIDE DEF meta
  <2> QED  BY <1>1, <1>2, <2>1, <2>2, GotReads
<1> QED  BY <1>4, <1>5, <1>6

\* Of the second, Sources takes the memories the reader may read.
LEMMA SecondReads ==
  ASSUME RInv,
         \/ At("get", 1) /\ GetBacklinks
         \/ At("history", 1) /\ Revisions
         \/ At("graph", 1) /\ AllEdges
         \/ At("health", 1) /\ HealthByRel
         \/ At("suggest", 1) /\ Sources
  PROVE  RInv'
<1>1. Reading /\ Len(reader.got) = 1
  BY DEF At
<1>2. reader.got # <<>>
  BY <1>1
<1> DEFINE i == reader.arg.center
<1>3. CASE (At("graph", 1) /\ AllEdges) \/ (At("health", 1) /\ HealthByRel)
  <2>1. ASSUME NEW x, Got(x), reader.op # "suggest" PROVE RInv'
    BY <1>1, <1>2, <2>1, GotReads
  <2> QED  BY <1>3, <2>1 DEF At, AllEdges, HealthByRel
<1>4. CASE At("get", 1) /\ GetBacklinks
  <2>0. reader.op = "get"
    BY <1>4 DEF At
  <2>1. i \in seen.bodies
    BY <1>1, <2>0 DEF RInv, ReaderSeen
  <2>2. {e.src : e \in Backlinks(reader.scope, i)} \subseteq seen.titles
    BY <1>1, SelectsSeen DEF Backlinks
  <2>3. PICK links \in {{}, Backlinks(reader.scope, i)} :
          Answer(Named({i}, {e.src : e \in links}, {e.src : e \in links}))
    BY <1>4 DEF GetBacklinks
  <2>4. {e.src : e \in links} \subseteq seen.titles
    BY <2>2
  <2>5. InScope(reader, Named({i}, {e.src : e \in links}, {e.src : e \in links}), seen)
    BY <2>0, <2>1, <2>4 DEF InScope, Named
  <2> QED  BY <1>1, <2>0, <2>3, <2>5, AnswerReads
<1>5. CASE At("history", 1) /\ Revisions
  <2>0. reader.op = "history"
    BY <1>5 DEF At
  <2>1. i \in seen.bodies
    BY <1>1, <2>0 DEF RInv, ReaderSeen
  <2>2. InScope(reader, Named(Live \cap {i}, {}, {}), seen)
    BY <2>0, <2>1 DEF InScope, Named
  <2> QED  BY <1>1, <1>5, <2>0, <2>2, AnswerReads DEF Revisions
<1>6. CASE At("suggest", 1) /\ Sources
  <2> DEFINE x == [todo |-> Readable(reader.scope, <<>>), best |-> {}]
  <2>1. BestSeen(x, seen)
    BY <1>1, SelectsSeen DEF BestSeen
  <2>2. Got(x) /\ reader.op = "suggest"
    BY <1>6 DEF At, Sources
  <2> HIDE DEF x
  <2> QED  BY <1>1, <1>2, <2>1, <2>2, GotReads
<1> QED  BY <1>3, <1>4, <1>5, <1>6

\* What one source is matched with is added to the second result.
Matched(r, i, T) == [r EXCEPT !.got[2].todo = @ \ {i}, !.got[2].best = @ \cup T]

LEMMA SecondIs ==
  ASSUME NEW r, NEW a, NEW b, NEW i, NEW T,
         r = [op |-> r.op, scope |-> r.scope, arg |-> r.arg, got |-> r.got],
         r.got = <<a, b>>, b = [todo |-> b.todo, best |-> b.best]
  PROVE  Matched(r, i, T)
           = [op |-> r.op, scope |-> r.scope, arg |-> r.arg,
              got |-> <<a, [todo |-> b.todo \ {i}, best |-> b.best \cup T]>>]
<1> DEFINE q == [r EXCEPT !.got[2].todo = @ \ {i}]
           p == [r EXCEPT !.got[2].todo = @ \ {i}, !.got[2].best = @ \cup T]
           h == <<a, [todo |-> b.todo \ {i}, best |-> b.best]>>
           f == <<a, [todo |-> b.todo \ {i}, best |-> b.best \cup T]>>
<1>0. <<a, b>>[2] = b
  OBVIOUS
<1>1. q = [op |-> r.op, scope |-> r.scope, arg |-> r.arg, got |-> q.got]
  OBVIOUS
<1>2. q.got = [<<a, b>> EXCEPT ![2] = [b EXCEPT !.todo = b.todo \ {i}]]
  BY <1>0
<1>3. [b EXCEPT !.todo = b.todo \ {i}] = [todo |-> b.todo \ {i}, best |-> b.best]
  <2> DEFINE t == b.todo
             u == b.best
             less == [todo |-> t \ {i}, best |-> u]
  <2>1. b = [todo |-> t, best |-> u]
    OBVIOUS
  <2> HIDE DEF t, u
  <2>2. [[todo |-> t, best |-> u] EXCEPT !.todo = t \ {i}] = less
    OBVIOUS
  <2>3. [b EXCEPT !.todo = t \ {i}] = less
    BY <2>1, <2>2
  <2> QED  BY <2>3 DEF t, u
<1>4. ASSUME NEW x PROVE [<<a, b>> EXCEPT ![2] = x] = <<a, x>>
  OBVIOUS
<1>5. q.got = h
  BY <1>2, <1>3, <1>4
<1> DEFINE rec == [todo |-> b.todo \ {i}, best |-> b.best]
<1>6. [rec EXCEPT !.best = b.best \cup T] = [todo |-> b.todo \ {i}, best |-> b.best \cup T]
  OBVIOUS
<1>7. h[2] = rec /\ rec.best = b.best
  OBVIOUS
<1>8. p = [q EXCEPT !.got = [q.got EXCEPT ![2] = [q.got[2] EXCEPT !.best = @ \cup T]]]
  OBVIOUS
<1>9. [q.got[2] EXCEPT !.best = @ \cup T] = [rec EXCEPT !.best = rec.best \cup T]
  <2> HIDE DEF q, h, rec
  <2> QED  BY <1>5, <1>7
<1> HIDE DEF q, p
<1>10. [q.got EXCEPT ![2] = [todo |-> b.todo \ {i}, best |-> b.best \cup T]] = f
  <2>1. [q.got EXCEPT ![2] = f[2]] = [<<a, rec>> EXCEPT ![2] = f[2]]
    BY <1>5
  <2>2. f[2] = [todo |-> b.todo \ {i}, best |-> b.best \cup T]
    OBVIOUS
  <2> QED  BY <1>4, <2>1, <2>2
<1>11. p = [q EXCEPT !.got = f]
  <2> HIDE DEF f, h, rec
  <2> QED  BY <1>6, <1>7, <1>8, <1>9, <1>10
<1>12. p = [op |-> r.op, scope |-> r.scope, arg |-> r.arg, got |-> f]
  <2> HIDE DEF f
  <2> QED  BY <1>1, <1>11
<1> QED  BY <1>12 DEF p, Matched

\* What a source's matches do to the read.
MatchesOf(i, found) == {{i, j} : j \in found} \ reader.got[1]

LEMMA MatchIs ==
  ASSUME RInv, At("suggest", 2), Match
  PROVE  \E i \in reader.got[2].todo : \E found \in SUBSET (Readable(reader.scope, <<>>) \ {i}) :
           reader' = [op |-> reader.op, scope |-> reader.scope, arg |-> reader.arg,
                      got |-> <<reader.got[1], [todo |-> reader.got[2].todo \ {i},
                                best |-> reader.got[2].best \cup MatchesOf(i, found)]>>]
<1>1. Reading /\ reader.op = "suggest" /\ Len(reader.got) = 2
  BY DEF At
<1>2. ReaderSeen(reader, seen) /\ BestSeen(reader.got[2], seen)
  BY <1>1 DEF RInv, ReaderSeen
<1> DEFINE g == reader.got[1]
           b == reader.got[2]
<1>3. reader.got = <<g, b>> /\ b = [todo |-> b.todo, best |-> b.best]
  BY <1>1, <1>2 DEF ReaderSeen, BestSeen
<1>4. PICK i \in b.todo : \E found \in SUBSET (Readable(reader.scope, <<>>) \ {i}) :
        reader' = [reader EXCEPT
              !.got[2].todo = @ \ {i},
              !.got[2].best = @ \cup ({{i, j} : j \in found} \ g)]
  BY DEF Match
<1>5. PICK found \in SUBSET (Readable(reader.scope, <<>>) \ {i}) :
        reader' = [reader EXCEPT
              !.got[2].todo = @ \ {i},
              !.got[2].best = @ \cup ({{i, j} : j \in found} \ g)]
  BY <1>4
<1> DEFINE new == MatchesOf(i, found)
<1>6. reader = [op |-> reader.op, scope |-> reader.scope, arg |-> reader.arg,
                got |-> reader.got]
  BY <1>2 DEF ReaderSeen
<1>7. reader' = Matched(reader, i, new)
  BY <1>5 DEF Matched, MatchesOf
<1>8. reader' = [op |-> reader.op, scope |-> reader.scope, arg |-> reader.arg,
                 got |-> <<g, [todo |-> b.todo \ {i}, best |-> b.best \cup new]>>]
  <2> HIDE DEF g, b, new
  <2>1. Matched(reader, i, new)
          = [op |-> reader.op, scope |-> reader.scope, arg |-> reader.arg,
             got |-> <<g, [todo |-> b.todo \ {i}, best |-> b.best \cup new]>>]
    BY <1>3, <1>6, SecondIs
  <2> QED  BY <1>7, <2>1, Zenon
<1> QED  BY <1>8

LEMMA MatchReads ==
  ASSUME RInv, At("suggest", 2), Match
  PROVE  RInv'
<1>1. Reading /\ reader.op = "suggest" /\ Len(reader.got) = 2
  BY DEF At
<1>2. ReaderSeen(reader, seen) /\ BestSeen(reader.got[2], seen)
  BY <1>1 DEF RInv, ReaderSeen
<1> DEFINE g == reader.got[1]
           b == reader.got[2]
<1>3. b = [todo |-> b.todo, best |-> b.best]
  BY <1>1, <1>2 DEF ReaderSeen, BestSeen
<1>4. PICK i \in b.todo : \E found \in SUBSET (Readable(reader.scope, <<>>) \ {i}) :
        reader' = [op |-> reader.op, scope |-> reader.scope, arg |-> reader.arg,
                   got |-> <<g, [todo |-> b.todo \ {i}, best |-> b.best \cup MatchesOf(i, found)]>>]
  BY MatchIs
<1>5. PICK found \in SUBSET (Readable(reader.scope, <<>>) \ {i}) :
        reader' = [op |-> reader.op, scope |-> reader.scope, arg |-> reader.arg,
                   got |-> <<g, [todo |-> b.todo \ {i}, best |-> b.best \cup MatchesOf(i, found)]>>]
  BY <1>4
<1> DEFINE new == MatchesOf(i, found)
           d == b.todo \ {i}
           e == b.best \cup new
<1>6. reader' = [op |-> reader.op, scope |-> reader.scope, arg |-> reader.arg,
                 got |-> <<g, [todo |-> d, best |-> e]>>]
  BY <1>5
<1>7. BestSeen([todo |-> d, best |-> e], seen)
  <2>1. d \subseteq seen.rows /\ UNION e \subseteq seen.rows
    <3>1. i \in seen.rows /\ found \subseteq seen.rows
      BY <1>1, <1>2, SelectsSeen DEF BestSeen
    <3> QED  BY <1>2, <3>1 DEF BestSeen, MatchesOf
  <2> HIDE DEF d, e
  <2> QED  BY <2>1 DEF BestSeen
<1>8. ReaderSeen(reader', seen)
  <2> HIDE DEF d, e, g
  <2> QED  BY <1>1, <1>6, <1>7 DEF ReaderSeen
<1>9. place' = place /\ seen' = seen /\ answer' = Nothing /\ reader.scope = reader'.scope
      /\ reader # Nothing
  <2> HIDE DEF d, e, g
  <2> QED  BY <1>1, <1>6 DEF Match, corpus, Reading
<1>10. (Reading => ReaderSeen(reader, seen) /\ SeenAll(reader.scope))'
  BY <1>1, <1>8, <1>9 DEF RInv, SeenAll, Visible, Live, Deleted
<1>11. place' \in [Memories -> Row \cup {Nothing}]
  BY <1>9 DEF RInv
<1> QED
  BY <1>9, <1>10, <1>11 DEF RInv, AnswersStayInScope, GraphIsTheNeighbourhood, Answered

LEMMA SuggestReads ==
  ASSUME RInv, At("suggest", 2), SuggestLinks
  PROVE  RInv'
<1>1. Reading /\ reader.op = "suggest" /\ Len(reader.got) = 2
  BY DEF At
<1>2. BestSeen(reader.got[2], seen)
  BY <1>1 DEF RInv, ReaderSeen
<1> DEFINE a == [bodies |-> UNION reader.got[2].best, titles |-> {},
                 pairs |-> reader.got[2].best]
<1>3. InScope(reader, a, seen)
  BY <1>1, <1>2 DEF BestSeen, InScope
<1>4. Answer(a)
  BY DEF SuggestLinks
<1> QED  BY <1>1, <1>3, <1>4, AnswerReads

-----------------------------------------------------------------------------
(* The link graph, and the whole read. *)

LEMMA GraphReads ==
  ASSUME RInv, At("graph", 2), Graph
  PROVE  RInv'
<1>1. Reading /\ reader.op = "graph" /\ Len(reader.got) = 2 /\ reader.arg.depth \in Nat
  BY DEF At, RInv, ReaderSeen
<1> DEFINE s == reader.scope
           k == reader.arg
           meta == reader.got[1]
           es == reader.got[2]
           full == {i \in DOMAIN meta : CanRead(s, meta[i])}
           hidden == {i \in DOMAIN meta \ full : TitleVisible(s, meta[i])}
           leaves == Tombstones(s, <<>>) \cup hidden
           included == IF k.center = Nothing THEN {i \in full : IsPrefix(k.under, meta[i])}
                       ELSE EgoGraph(k.center, k.depth, full, es)
           drawn == {e \in es : e.src \in included /\ e.dst \in leaves \cup included \cup Targets}
           ghosts == {e.dst : e \in drawn} \cap (leaves \cup Targets)
           a == [bodies |-> included, titles |-> ghosts \cap leaves,
                 quotes |-> {e.src : e \in drawn},
                 dangling |-> ghosts \cap Targets, links |-> drawn]
<1>2. MetaSeen(s, meta, seen)
  BY <1>1 DEF RInv, ReaderSeen
<1>3. full \subseteq seen.bodies /\ hidden \subseteq seen.titles
  BY <1>2 DEF MetaSeen
<1>4. leaves \subseteq seen.titles
  BY <1>1, <1>3, SelectsSeen
<1>5. \/ k.center \in full \cup {Nothing} /\ Answer(a)
      \/ Answer(NotFound)
  BY DEF Graph
<1>6. ASSUME k.center \in full, k.center # Nothing
      PROVE  included = Close(es, full, Hops(k.depth), k.center)
  <2>1. included = EgoGraph(k.center, k.depth, full, es)
    BY <1>6
  <2> HIDE DEF full, es, included, meta
  <2> QED  BY <1>1, <1>6, <2>1, EgoGraphIsClose
<1>7. ASSUME k.center \in full \cup {Nothing} PROVE included \subseteq full
  <2>1. CASE k.center = Nothing
    BY <2>1
  <2>2. CASE k.center # Nothing
    <3>1. Close(es, full, Hops(k.depth), k.center) \subseteq full
      BY DEF Close
    <3> QED  BY <1>6, <1>7, <2>2, <3>1
  <2> QED  BY <2>1, <2>2
<1>8. ASSUME k.center \in full \cup {Nothing} PROVE Neighbourhood(reader, a)
  <2>1. k.center # Nothing =>
          a.bodies = {i \in full : Near(es, full, Hops(k.depth), k.center, i)}
    BY <1>6, <1>8 DEF Close
  <2>2. \A e \in a.links : /\ e.src \in a.bodies
                           /\ e.dst \in a.bodies \cup a.titles \cup a.dangling
    <3> HIDE DEF included, leaves, es
    <3> QED  OBVIOUS
  <2> HIDE DEF a
  <2> QED  BY <2>1, <2>2 DEF Neighbourhood
<1>9. CASE k.center \in full \cup {Nothing} /\ Answer(a)
  <2>1. InScope(reader, a, seen)
    <3>1. {e.src : e \in drawn} \subseteq included
      OBVIOUS
    <3> HIDE DEF included, leaves, full, drawn
    <3> QED  BY <1>1, <1>3, <1>4, <1>7, <1>9, <3>1 DEF InScope
  <2>2. Neighbourhood(reader, a) /\ Answer(a)
    BY <1>8, <1>9
  <2> HIDE DEF a
  <2> QED  BY <1>1, <2>1, <2>2, AnswerReads
<1>10. CASE Answer(NotFound)
  <2>1. InScope(reader, NotFound, seen)
    BY <1>1 DEF InScope, NotFound, Named
  <2> QED  BY <1>1, <1>10, <2>1, AnswerReads
<1> QED  BY <1>5, <1>9, <1>10

LEMMA StepReads == ASSUME RInv, [Next]_vars PROVE RInv'
<1>1. CASE Call
  BY <1>1, CallReads
<1>2. CASE Statement
  <2>1. CASE \/ At("search", 0) /\ Search
             \/ At("scope", 0) /\ BrowseScope
             \/ At("list", 1) /\ ListPage
             \/ At("deleted", 0) /\ DeletedMemories
             \/ At("catalog", 0) /\ Catalog
             \/ At("health", 2) /\ EdgeHealth
             \/ At("due", 0) /\ DueReviews
    BY <2>1, FlatReads
  <2>2. CASE \/ At("list", 0) /\ ListCount
             \/ At("get", 0) /\ GetRow
             \/ At("history", 0) /\ GetRow
             \/ At("graph", 0) /\ GraphNodeMeta
             \/ At("health", 0) /\ HealthCounts
             \/ At("suggest", 0) /\ LinkedPairs
    BY <2>2, FirstReads
  <2>3. CASE \/ At("get", 1) /\ GetBacklinks
             \/ At("history", 1) /\ Revisions
             \/ At("graph", 1) /\ AllEdges
             \/ At("health", 1) /\ HealthByRel
             \/ At("suggest", 1) /\ Sources
    BY <2>3, SecondReads
  <2>4. CASE At("suggest", 2) /\ Match
    BY <2>4, MatchReads
  <2>5. CASE At("suggest", 2) /\ SuggestLinks
    BY <2>5, SuggestReads
  <2>6. CASE At("graph", 2) /\ Graph
    BY <2>6, GraphReads
  <2> QED  BY <1>2, <2>1, <2>2, <2>3, <2>4, <2>5, <2>6, Zenon DEF Statement
<1>3. CASE \E i \in Memories : Write(i) \/ Delete(i)
  BY <1>3, WriteReads
<1>4. CASE UNCHANGED vars
  <2>1. /\ place' = place /\ reader' = reader /\ seen' = seen /\ answer' = answer
    BY <1>4 DEF vars, corpus
  <2> QED
    BY <2>1 DEF RInv, ReaderSeen, MetaSeen, BestSeen, SeenAll, Visible, Live, Deleted, Reading,
                AnswersStayInScope, GraphIsTheNeighbourhood, Answered
<1> QED  BY <1>1, <1>2, <1>3, <1>4 DEF Next

\* Every read keeps the invariant, and every write that races with it.
LEMMA ReadsInv == Spec => []RInv
<1>1. RInv /\ [Next]_vars => RInv'
  BY StepReads
<1> QED  BY <1>1, InitReads, PTL DEF Spec

\* Whatever is written between its statements, for every corpus, scope and LIKE, a
\* read of the engine gives contents only of what the scope took while it was under
\* way, in Go or in SQL as the read asks, and titles and links only of memories whose
\* titles the scope took; the review deck, which has no scope, apart.
THEOREM ReadsStayInScope == Spec => []AnswersStayInScope
<1>1. RInv => AnswersStayInScope
  BY DEF RInv
<1> QED  BY <1>1, ReadsInv, PTL

\* graph.go's includedNodes finds the memories within the depth asked for along
\* readable ones, and no other, for every corpus and every depth; and Graph draws
\* no edge to what is not among its nodes, ghosts and dangling targets.
THEOREM GraphIsNear == Spec => []GraphIsTheNeighbourhood
<1>1. RInv => GraphIsTheNeighbourhood
  BY DEF RInv
<1> QED  BY <1>1, ReadsInv, PTL
-----------------------------------------------------------------------------
(* Sums.  What the reads add up are the sizes of the classes into which a   *)
(* set falls: h takes each member of A to its class in S.  Then the sum is  *)
(* the size of A.  That is an induction over the subsets of S, and done by  *)
(* their smallest counterexample (WFMin), the induction theorems of the     *)
(* library being about operators.                                           *)

\* f is the sum of weights over the subsets of S, as the folds define it.
SumsUp(f, w, S) ==
  f = [s \in SUBSET S |-> IF s = {} THEN 0
         ELSE w[CHOOSE x \in s : TRUE] + f[s \ {CHOOSE x \in s : TRUE}]]

Fibres(h, w, S, A) ==
  /\ IsFiniteSet(S) /\ IsFiniteSet(A) /\ h \in [A -> S]
  /\ \A x \in S : w[x] = Cardinality({a \in A : h[a] = x})

Over(h, A, s) == {a \in A : h[a] \in s}

LEMMA OneMoreFibre ==
  ASSUME NEW h, NEW w, NEW S, NEW A, Fibres(h, w, S, A), NEW s \in SUBSET S, NEW x \in s
  PROVE  Cardinality(Over(h, A, s)) = w[x] + Cardinality(Over(h, A, s \ {x}))
<1> DEFINE F == {a \in A : h[a] = x}
           R == Over(h, A, s \ {x})
<1>1. IsFiniteSet(F) /\ IsFiniteSet(R)
  BY FS_Subset DEF Fibres, Over
<1>2. F \cap R = {} /\ F \cup R = Over(h, A, s)
  BY DEF Over
<1>3. Cardinality(F) \in Nat /\ Cardinality(R) \in Nat /\ Cardinality(F \cap R) = 0
  BY <1>1, <1>2, FS_CardinalityType, FS_EmptySet
<1>4. Cardinality(F \cup R) = Cardinality(F) + Cardinality(R) - Cardinality(F \cap R)
  BY <1>1, FS_Union
<1>5. w[x] = Cardinality(F)
  BY DEF Fibres
<1>6. R = Over(h, A, s \ {x})
  OBVIOUS
<1>7. Cardinality(Over(h, A, s)) = Cardinality(F \cup R) /\ Cardinality(R) = Cardinality(Over(h, A, s \ {x}))
  BY <1>2
<1> HIDE DEF F, R
<1> QED  BY <1>3, <1>4, <1>5, <1>7

LEMMA FibresSum ==
  ASSUME NEW h, NEW w, NEW S, NEW A, Fibres(h, w, S, A)
  PROVE  SumsUp([s \in SUBSET S |-> Cardinality(Over(h, A, s))], w, S)
<1> DEFINE g == [s \in SUBSET S |-> Cardinality(Over(h, A, s))]
<1>1. ASSUME NEW s \in SUBSET S
      PROVE  g[s] = IF s = {} THEN 0
                    ELSE w[CHOOSE x \in s : TRUE] + g[s \ {CHOOSE x \in s : TRUE}]
  <2>1. CASE s = {}
    <3>1. Over(h, A, s) = {}
      BY <2>1 DEF Over
    <3> QED  BY <2>1, <3>1, FS_EmptySet
  <2>2. CASE s # {}
    <3> DEFINE c == CHOOSE x \in s : TRUE
    <3>1. c \in s
      BY <2>2
    <3> HIDE DEF c
    <3>2. g[s] = w[c] + g[s \ {c}]
      BY <3>1, OneMoreFibre
    <3> QED  BY <2>2, <3>2 DEF c
  <2> QED  BY <2>1, <2>2
<1> HIDE DEF g
<1>2. g = [s \in SUBSET S |-> g[s]]
  BY DEF g
<1> QED  BY <1>1, <1>2 DEF SumsUp, g

\* By induction on s: a smallest set on which f and the count of fibres differed
\* would not be empty, and would still have them differ without one element.
LEMMA FibresAddUp ==
  ASSUME NEW h, NEW w, NEW S, NEW A, Fibres(h, w, S, A), NEW f, SumsUp(f, w, S)
  PROVE  f[S] = Cardinality(A)
<1> DEFINE Bad == {s \in SUBSET S : f[s] # Cardinality(Over(h, A, s))}
           R == StrictSubsetOrdering(S)
<1>1. IsWellFoundedOn(R, SUBSET S)
  BY FS_StrictSubsetOrderingWellFounded, FS_FiniteSubsetsOfFinite DEF Fibres
<1>2. ASSUME NEW s \in SUBSET S, s \in Bad PROVE \E r \in Bad : <<r, s>> \in R
  <2> DEFINE c == CHOOSE x \in s : TRUE
  <2>1. s # {}
    <3>1. ASSUME s = {} PROVE FALSE
      <4>1. Over(h, A, s) = {} /\ f[s] = 0
        BY <3>1 DEF Over, SumsUp
      <4> QED  BY <1>2, <4>1, FS_EmptySet
    <3> QED  BY <3>1
  <2>2. c \in s
    BY <2>1
  <2>3. f[s] = w[c] + f[s \ {c}]
    BY <2>1 DEF SumsUp
  <2> HIDE DEF c
  <2>4. Cardinality(Over(h, A, s)) = w[c] + Cardinality(Over(h, A, s \ {c}))
    BY <2>2, OneMoreFibre
  <2>5. s \ {c} \in Bad
    BY <1>2, <2>3, <2>4
  <2>6. <<s \ {c}, s>> \in R
    BY <2>2 DEF StrictSubsetOrdering
  <2> QED  BY <2>5, <2>6
<1>3. Bad = {}
  <2> SUFFICES ASSUME Bad # {} PROVE FALSE
    OBVIOUS
  <2> HIDE DEF R
  <2>1. Bad \subseteq SUBSET S
    OBVIOUS
  <2> HIDE DEF Bad
  <2>2. \E s \in Bad : \A r \in Bad : ~ (<<r, s>> \in R)
    BY <1>1, <2>1, WFMin
  <2> QED  BY <1>2, <2>1, <2>2
<1>4. Over(h, A, S) = A
  BY DEF Over, Fibres
<1> QED  BY <1>3, <1>4

LEMMA SumIs ==
  ASSUME NEW h, NEW w, NEW S, NEW A, Fibres(h, w, S, A)
  PROVE  SumFunctionOnSet(w, S) = Cardinality(A)
<1> DEFINE f == CHOOSE iter : SumsUp(iter, w, S)
<1>1. SumsUp(f, w, S)
  BY FibresSum
<1>2. SumFunctionOnSet(w, S) = f[S]
  BY DEF SumFunctionOnSet, FoldFunctionOnSet, MapThenFoldSet, SumsUp
<1> HIDE DEF f
<1> QED  BY <1>1, <1>2, FibresAddUp

\* The image of a finite set is finite.
LEMMA ClassesFinite ==
  ASSUME NEW A, IsFiniteSet(A), NEW S, NEW h \in [A -> S], \A x \in S : \E a \in A : h[a] = x
  PROVE  IsFiniteSet(S)
<1>1. h \in Surjection(A, S)
  BY DEF Surjection
<1> QED  BY <1>1, FS_Surjection

-----------------------------------------------------------------------------
(* The catalog.  An entry stands for the memories under the prefix that     *)
(* share its key, and counts them; keys tell entries apart.                 *)

Fold(p, d)  == IF d > 0 THEN d ELSE IF p = <<>> THEN 1 ELSE Len(p) + 1
Key(t, n)   == SubSeq(t, 1, IF Len(t) > n THEN n ELSE Len(t))
Under(s, p) == {i \in Titled(s, <<>>) : IsPrefix(p, place[i].at)}
Keyed(s, p, n, k) == {i \in Under(s, p) : Key(place[i].at, n) = k}

EntryOf(s, p, n, k) ==
  [path |-> k, count |-> Cardinality(Keyed(s, p, n, k)),
   expandable |-> \E i \in Keyed(s, p, n, k) : Len(place[i].at) > n]

\* The leaves under a prefix whose keys are k.
LeavesOf(s, p, n, k) ==
  {t \in {place[i].at : i \in Titled(s, <<>>)} : IsPrefix(p, t) /\ Key(t, n) = k}

LEMMA EntryCounts ==
  ASSUME NEW s, NEW p, NEW n, NEW k
  PROVE  SumFunctionOnSet(Leaves(s), LeavesOf(s, p, n, k)) = Cardinality(Keyed(s, p, n, k))
<1> DEFINE A == Keyed(s, p, n, k)
           S == LeavesOf(s, p, n, k)
           h == [i \in A |-> place[i].at]
<1>1. IsFiniteSet(A)
  BY FiniteAssumption, FS_Subset DEF Keyed, Under, Titled, Live
<1>2. h \in [A -> S]
  BY DEF Keyed, LeavesOf, Under
<1>3. IsFiniteSet(S)
  <2>1. \A x \in S : \E a \in A : h[a] = x
    BY DEF Keyed, LeavesOf, Under
  <2> HIDE DEF h, A, S
  <2> QED  BY <1>1, <1>2, <2>1, ClassesFinite
<1>4. ASSUME NEW x \in S PROVE Leaves(s)[x] = Cardinality({i \in A : h[i] = x})
  <2>1. Leaves(s)[x] = Cardinality({i \in Titled(s, <<>>) : place[i].at = x})
    BY DEF Leaves, LeavesOf
  <2>2. {i \in Titled(s, <<>>) : place[i].at = x} = {i \in A : h[i] = x}
    BY DEF Keyed, LeavesOf, Under
  <2> HIDE DEF h, A, S
  <2> QED  BY <2>1, <2>2
<1>5. Fibres(h, Leaves(s), S, A)
  <2> HIDE DEF h, A, S
  <2> QED  BY <1>1, <1>2, <1>3, <1>4 DEF Fibres
<1> HIDE DEF h
<1> QED  BY <1>5, SumIs

LEMMA CatalogIs ==
  ASSUME NEW s, NEW p, NEW d
  PROVE  RollupCatalog(Leaves(s), p, d)
           = {EntryOf(s, p, Fold(p, d), k) : k \in {Key(place[i].at, Fold(p, d)) : i \in Under(s, p)}}
<1> DEFINE n == Fold(p, d)
           leaves == Leaves(s)
           under == {t \in DOMAIN leaves : IsPrefix(p, t)}
           K == {Key(t, n) : t \in under}
           entry(k) ==
             [path |-> k,
              count |-> SumFunctionOnSet(leaves, {t \in under : Key(t, n) = k}),
              expandable |-> \E t \in under : Key(t, n) = k /\ Len(t) > n]
<1>1. RollupCatalog(leaves, p, d) = {entry(k) : k \in K}
  BY DEF RollupCatalog, Key, Fold
<1>2. DOMAIN leaves = {place[i].at : i \in Titled(s, <<>>)}
  BY DEF Leaves
<1>3. K = {Key(place[i].at, n) : i \in Under(s, p)}
  BY <1>2 DEF Under
<1>4. ASSUME NEW k PROVE entry(k) = EntryOf(s, p, n, k)
  <2>1. {t \in under : Key(t, n) = k} = LeavesOf(s, p, n, k)
    BY <1>2 DEF LeavesOf
  <2>2. (\E t \in under : Key(t, n) = k /\ Len(t) > n)
          <=> \E i \in Keyed(s, p, n, k) : Len(place[i].at) > n
    BY <1>2 DEF Keyed, Under
  <2>3. SumFunctionOnSet(leaves, {t \in under : Key(t, n) = k}) = Cardinality(Keyed(s, p, n, k))
    BY <2>1, EntryCounts
  <2> QED  BY <2>2, <2>3 DEF EntryOf
<1> HIDE DEF n, leaves, K, entry
<1>5. RollupCatalog(leaves, p, d) = {EntryOf(s, p, n, k) : k \in K}
  BY <1>1, <1>4
<1> QED  BY <1>3, <1>5 DEF n, leaves

LEMMA EntriesCount ==
  ASSUME NEW s, NEW p, NEW d
  PROVE  Total(RollupCatalog(Leaves(s), p, d)) = Cardinality(Under(s, p))
<1> DEFINE n == Fold(p, d)
           A == Under(s, p)
           S == RollupCatalog(Leaves(s), p, d)
           w == [x \in S |-> x.count]
           h == [i \in A |-> EntryOf(s, p, n, Key(place[i].at, n))]
<1>0. S = {EntryOf(s, p, n, k) : k \in {Key(place[i].at, n) : i \in A}}
  BY CatalogIs
<1>1. IsFiniteSet(A)
  BY FiniteAssumption, FS_Subset DEF Under, Titled, Live
<1> HIDE DEF A, S, n
<1>2. h \in [A -> S] /\ \A x \in S : \E a \in A : h[a] = x
  BY <1>0
<1>3. IsFiniteSet(S)
  <2> HIDE DEF h
  <2> QED  BY <1>1, <1>2, ClassesFinite
<1>4. ASSUME NEW x \in S PROVE w[x] = Cardinality({i \in A : h[i] = x})
  <2>1. PICK k \in {Key(place[i].at, n) : i \in A} : x = EntryOf(s, p, n, k)
    BY <1>0
  <2>2. \A i \in A : h[i] = x <=> Key(place[i].at, n) = k
    BY <2>1 DEF EntryOf
  <2>3. {i \in A : h[i] = x} = Keyed(s, p, n, k)
    BY <2>2 DEF Keyed, A
  <2>4. w[x] = Cardinality(Keyed(s, p, n, k))
    BY <2>1 DEF EntryOf
  <2> HIDE DEF w, h
  <2> QED  BY <2>3, <2>4
<1>5. Fibres(h, w, S, A)
  <2> HIDE DEF h, w
  <2> QED  BY <1>1, <1>2, <1>3, <1>4 DEF Fibres
<1>6. SumFunctionOnSet(w, S) = Cardinality(A)
  <2> HIDE DEF h, w
  <2> QED  BY <1>5, SumIs
<1>7. Total(S) = SumFunctionOnSet(w, S)
  BY DEF Total, SumFunction
<1> QED  BY <1>6, <1>7 DEF S, A

\* A taxonomy is a sequence of segments, and so is a branch.
Segments == UNION {Range(t) : t \in Taxonomies}

LEMMA BranchIsSeq == \A t \in Branches : t \in Seq(Segments)
<1>1. ASSUME NEW t \in Taxonomies PROVE t \in Seq(Segments)
  <2>1. t \in Seq(Range(t)) /\ Range(t) \subseteq Segments
    BY <1>1, TaxonomiesAssumption DEF Segments
  <2> QED  BY <2>1, SeqMonotonic
<1>2. <<>> \in Seq(Segments)
  OBVIOUS
<1> HIDE DEF Segments
<1> QED  BY <1>1, <1>2 DEF Branches

\* What is under the key of t is what is under p and has that key, if the key is
\* longer than p.
LEMMA UnderKey ==
  ASSUME NEW S, NEW p \in Seq(S), NEW t \in Seq(S), NEW u \in Seq(S), NEW n \in Nat,
         Len(p) < n, n < Len(t), IsPrefix(p, t)
  PROVE  /\ Key(t, n) \in Seq(S) /\ Len(Key(t, n)) = n
         /\ IsPrefix(Key(t, n), u) <=> IsPrefix(p, u) /\ Key(u, n) = Key(t, n)
<1>1. Key(t, n) = SubSeq(t, 1, n)
  BY DEF Key
<1>2. Key(t, n) \in Seq(S) /\ Len(Key(t, n)) = n /\ \A m \in 1..n : Key(t, n)[m] = t[m]
  BY <1>1
<1>3. ASSUME NEW q \in Seq(S), NEW r \in Seq(S)
      PROVE  IsPrefix(q, r) <=> Len(q) <= Len(r) /\ \A m \in 1..Len(q) : q[m] = r[m]
  <2>1. CASE Len(q) <= Len(r)
    <3>1. SubSeq(q, 1, Len(q)) \in Seq(S) /\ SubSeq(r, 1, Len(q)) \in Seq(S)
      BY <2>1
    <3>2. Len(SubSeq(q, 1, Len(q))) = Len(q) /\ Len(SubSeq(r, 1, Len(q))) = Len(q)
      BY <2>1
    <3>3. \A m \in 1..Len(q) : SubSeq(q, 1, Len(q))[m] = q[m] /\ SubSeq(r, 1, Len(q))[m] = r[m]
      BY <2>1
    <3>4. SubSeq(q, 1, Len(q)) = SubSeq(r, 1, Len(q))
            <=> \A m \in 1..Len(q) : q[m] = r[m]
      BY <3>1, <3>2, <3>3, SeqEqual
    <3> QED  BY <2>1, <3>4 DEF IsPrefix
  <2>2. CASE ~(Len(q) <= Len(r))
    BY <2>2 DEF IsPrefix
  <2> QED  BY <2>1, <2>2
<1>4. \A m \in 1..Len(p) : p[m] = t[m]
  BY <1>3
<1>5. IsPrefix(p, u) <=> Len(p) <= Len(u) /\ \A m \in 1..Len(p) : p[m] = u[m]
  BY <1>3
<1>6. IsPrefix(Key(t, n), u) <=> n <= Len(u) /\ \A m \in 1..n : t[m] = u[m]
  BY <1>2, <1>3
<1>7. Key(u, n) = Key(t, n) <=> n <= Len(u) /\ \A m \in 1..n : t[m] = u[m]
  <2>1. CASE n <= Len(u)
    <3>1. Key(u, n) \in Seq(S) /\ Len(Key(u, n)) = n /\ \A m \in 1..n : Key(u, n)[m] = u[m]
      BY <2>1 DEF Key
    <3> QED  BY <1>2, <2>1, <3>1, SeqEqual
  <2>2. CASE ~(n <= Len(u))
    <3>1. Len(Key(u, n)) = Len(u)
      BY <2>2 DEF Key
    <3> QED  BY <1>2, <2>2, <3>1
  <2> QED  BY <2>1, <2>2
<1> QED  BY <1>2, <1>4, <1>5, <1>6, <1>7

\* What an entry opens into.
LEMMA EntryOpens ==
  ASSUME place \in [Memories -> Row \cup {Nothing}], NEW s, NEW p \in Branches, NEW d \in Nat,
         d = 0 \/ d > Len(p), NEW x \in RollupCatalog(Leaves(s), p, d), x.expandable
  PROVE  LET opened == RollupCatalog(Leaves(s), x.path, 0)
         IN  Total(opened) = x.count /\ \E y \in opened : y.path # x.path
<1> DEFINE n == Fold(p, d)
           opened == RollupCatalog(Leaves(s), x.path, 0)
<1>1. PICK k : x = EntryOf(s, p, n, k)
  BY CatalogIs
<1>2. PICK i \in Keyed(s, p, n, k) : Len(place[i].at) > n
  BY <1>1 DEF EntryOf
<1>3. \A j \in Titled(s, <<>>) : place[j].at \in Seq(Segments)
  BY BranchIsSeq DEF Titled, Live, Row, Branches
<1>4. p \in Seq(Segments) /\ i \in Under(s, p) /\ i \in Titled(s, <<>>)
  BY <1>2, BranchIsSeq DEF Keyed, Under
<1>5. n \in Nat /\ Len(p) < n /\ n >= 1
  BY <1>4 DEF Fold
<1>6. k = Key(place[i].at, n) /\ IsPrefix(p, place[i].at) /\ x.path = k
  BY <1>1, <1>2 DEF Keyed, Under, EntryOf
<1> HIDE DEF n
<1>7. k \in Seq(Segments) /\ Len(k) = n
  BY <1>2, <1>3, <1>4, <1>5, <1>6, UnderKey
<1>8. \A j \in Titled(s, <<>>) :
         IsPrefix(k, place[j].at) <=> IsPrefix(p, place[j].at) /\ Key(place[j].at, n) = k
  BY <1>2, <1>3, <1>4, <1>5, <1>6, UnderKey
<1>9. Under(s, k) = Keyed(s, p, n, k)
  BY <1>8 DEF Under, Keyed
<1>10. Total(opened) = x.count
  BY <1>1, <1>6, <1>9, EntriesCount DEF EntryOf
<1>11. \E y \in opened : y.path # x.path
  <2> DEFINE y == EntryOf(s, k, n + 1, Key(place[i].at, n + 1))
  <2>1. Fold(k, 0) = n + 1
    BY <1>5, <1>7 DEF Fold
  <2>2. i \in Under(s, k)
    BY <1>2, <1>9
  <2>3. y \in opened
    BY <1>6, <2>1, <2>2, CatalogIs
  <2>4. Len(Key(place[i].at, n + 1)) = n + 1
    BY <1>2, <1>3, <1>4, <1>5 DEF Key
  <2>5. y.path = Key(place[i].at, n + 1)
    BY DEF EntryOf
  <2>6. y.path # k
    BY <1>5, <1>7, <2>4, <2>5
  <2> QED  BY <1>6, <2>3, <2>6
<1> QED  BY <1>10, <1>11

-----------------------------------------------------------------------------
(* Reads that no write comes between: each result is still what its SELECT  *)
(* would give, and the answer made of them adds up.                         *)

ClassOf(x, y) ==
  [target |-> x, rel |-> y,
   sources |-> {e.src : e \in {z \in Broken : z.dst = x /\ z.rel = y}}]
BrokenBy(r) == Cardinality({e \in Broken : e.rel = r})

EdgesTyped ==
  \A i \in Memories : \A l \in out[i] : /\ l = [dst |-> l.dst, rel |-> l.rel]
                                        /\ l.dst \in Memories \cup Targets /\ l.rel \in Rels

LEMMA EdgesFinite ==
  ASSUME EdgesTyped
  PROVE  /\ IsFiniteSet(Edges)
         /\ \A e \in Edges : e = [src |-> e.src, dst |-> e.dst, rel |-> e.rel] /\ e.rel \in Rels
<1> DEFINE A == Memories \X ((Memories \cup Targets) \X Rels)
           S == [src : Memories, dst : Memories \cup Targets, rel : Rels]
           h == [a \in A |-> [src |-> a[1], dst |-> a[2][1], rel |-> a[2][2]]]
<1>1. IsFiniteSet(A)
  <2>1. IsFiniteSet(Memories \cup Targets)
    BY FiniteAssumption, FS_Union
  <2>2. IsFiniteSet((Memories \cup Targets) \X Rels)
    BY <2>1, FiniteAssumption, FS_Product
  <2> QED  BY <2>2, FiniteAssumption, FS_Product
<1>2. h \in [A -> S]
  OBVIOUS
<1>3. \A x \in S : \E a \in A : h[a] = x
  <2>1. ASSUME NEW x \in S PROVE \E a \in A : h[a] = x
    <3> DEFINE a == <<x.src, <<x.dst, x.rel>>>>
    <3>1. a \in A /\ x = [src |-> x.src, dst |-> x.dst, rel |-> x.rel]
      OBVIOUS
    <3>2. h[a] = [src |-> x.src, dst |-> x.dst, rel |-> x.rel]
      BY <3>1
    <3> QED  BY <3>1, <3>2
  <2> QED  BY <2>1
<1>4. IsFiniteSet(S)
  <2> HIDE DEF A, S, h
  <2> QED  BY <1>1, <1>2, <1>3, ClassesFinite
<1>5. \A e \in Edges : e = [src |-> e.src, dst |-> e.dst, rel |-> e.rel] /\ e \in S
  BY DEF Edges, EdgesTyped, Live
<1>6. Edges \subseteq S
  BY <1>5
<1> QED  BY <1>4, <1>5, <1>6, FS_Subset

LEMMA BrokenAddUp ==
  ASSUME EdgesTyped
  PROVE  /\ Cardinality(ScopedEdges)
              = Cardinality(ScopedEdges \ Broken) + Cardinality(Broken)
         /\ SumFunction([r \in {e.rel : e \in Broken} |-> BrokenBy(r)]) = Cardinality(Broken)
<1>1. Broken \subseteq ScopedEdges /\ ScopedEdges \subseteq Edges
  BY DEF Broken, ScopedEdges
<1>2. IsFiniteSet(ScopedEdges) /\ IsFiniteSet(Broken)
  BY <1>1, EdgesFinite, FS_Subset
<1>3. Cardinality(ScopedEdges) = Cardinality(ScopedEdges \ Broken) + Cardinality(Broken)
  <2>1. ScopedEdges \cap Broken = Broken
    BY <1>1
  <2>2. Cardinality(ScopedEdges \ Broken) = Cardinality(ScopedEdges) - Cardinality(Broken)
    BY <1>2, <2>1, FS_Difference
  <2>3. Cardinality(ScopedEdges) \in Nat /\ Cardinality(Broken) \in Nat
    BY <1>2, FS_CardinalityType
  <2> QED  BY <2>2, <2>3
<1>4. SumFunction([r \in {e.rel : e \in Broken} |-> BrokenBy(r)]) = Cardinality(Broken)
  <2> DEFINE S == {e.rel : e \in Broken}
             w == [r \in S |-> BrokenBy(r)]
             h == [e \in Broken |-> e.rel]
  <2>1. h \in [Broken -> S] /\ \A x \in S : \E a \in Broken : h[a] = x
    OBVIOUS
  <2>2. ASSUME NEW x \in S PROVE w[x] = Cardinality({a \in Broken : h[a] = x})
    <3>1. {a \in Broken : h[a] = x} = {e \in Broken : e.rel = x}
      OBVIOUS
    <3> HIDE DEF h
    <3> QED  BY <3>1 DEF BrokenBy
  <2>3. SumFunction(w) = SumFunctionOnSet(w, S)
    BY DEF SumFunction
  <2> HIDE DEF S, w, h
  <2>4. IsFiniteSet(S)
    BY <1>2, <2>1, ClassesFinite
  <2>5. Fibres(h, w, S, Broken)
    BY <1>2, <2>1, <2>2, <2>4 DEF Fibres
  <2>6. SumFunction(w) = Cardinality(Broken)
    BY <2>3, <2>5, SumIs
  <2> QED  BY <2>6 DEF w, S
<1> QED  BY <1>3, <1>4

LEMMA GroupsAre == Groups = {ClassOf(e.dst, e.rel) : e \in Broken}
<1>1. Groups = {ClassOf(x[1], x[2]) : x \in {<<e.dst, e.rel>> : e \in Broken}}
  BY DEF Groups, ClassOf
<1>2. ASSUME NEW c PROVE c \in Groups <=> \E e \in Broken : c = ClassOf(e.dst, e.rel)
  <2>1. c \in Groups <=> \E x \in {<<e.dst, e.rel>> : e \in Broken} : c = ClassOf(x[1], x[2])
    BY <1>1, Zenon
  <2>2. \A e \in Broken : <<e.dst, e.rel>>[1] = e.dst /\ <<e.dst, e.rel>>[2] = e.rel
    OBVIOUS
  <2> QED  BY <2>1, <2>2
<1> QED  BY <1>2

\* The broken links of some groups, and how many they are.
In(top) == {e \in Broken : ClassOf(e.dst, e.rel) \in top}

LEMMA ListedIs ==
  ASSUME EdgesTyped, NEW top \in SUBSET Groups
  PROVE  /\ SumFunction([g \in top |-> Cardinality(g.sources)]) = Cardinality(In(top))
         /\ {g.target : g \in top} = {e.dst : e \in In(top)}
         /\ IsFiniteSet(Broken)
<1>1. Broken \subseteq Edges
  BY DEF Broken, ScopedEdges
<1>2. IsFiniteSet(Broken) /\ IsFiniteSet(In(top))
  BY <1>1, EdgesFinite, FS_Subset DEF In
<1>3. \A g \in top : \E e \in Broken : g = ClassOf(e.dst, e.rel)
  BY GroupsAre
<1>4. SumFunction([g \in top |-> Cardinality(g.sources)]) = Cardinality(In(top))
  <2> DEFINE T == In(top)
             w == [g \in top |-> Cardinality(g.sources)]
             h == [e \in T |-> ClassOf(e.dst, e.rel)]
  <2>1. h \in [T -> top] /\ \A g \in top : \E a \in T : h[a] = g
    BY <1>3 DEF In
  <2>2. ASSUME NEW g \in top PROVE w[g] = Cardinality({a \in T : h[a] = g})
    <3>1. PICK c \in Broken : g = ClassOf(c.dst, c.rel)
      BY <1>3
    <3> DEFINE F == {e \in Broken : e.dst = c.dst /\ e.rel = c.rel}
               src == [e \in F |-> e.src]
    <3>2. {a \in T : h[a] = g} = F
      BY <3>1 DEF ClassOf, In
    <3>3. g.sources = {e.src : e \in F}
      BY <3>1 DEF ClassOf
    <3>4. IsFiniteSet(F)
      BY <1>2, FS_Subset
    <3>5. \A d, e \in F : d.src = e.src => d = e
      BY <1>1, EdgesFinite
    <3>6. src \in Bijection(F, g.sources)
      BY <3>3, <3>5 DEF Bijection, Injection, Surjection, IsInjective
    <3> HIDE DEF F, src
    <3>7. Cardinality(g.sources) = Cardinality(F)
      BY <3>4, <3>6, FS_Bijection DEF ExistsBijection
    <3> HIDE DEF h
    <3> QED  BY <3>2, <3>7
  <2>3. SumFunction(w) = SumFunctionOnSet(w, top)
    BY DEF SumFunction
  <2>4. IsFiniteSet(T)
    BY <1>2
  <2> HIDE DEF w, h, T
  <2>5. IsFiniteSet(top)
    BY <2>1, <2>4, ClassesFinite
  <2>6. Fibres(h, w, top, T)
    BY <2>1, <2>2, <2>4, <2>5 DEF Fibres
  <2>7. SumFunction(w) = Cardinality(T)
    BY <2>3, <2>6, SumIs
  <2> QED  BY <2>7 DEF w, T
<1>5. {g.target : g \in top} = {e.dst : e \in In(top)}
  <2>1. \A e \in Broken : ClassOf(e.dst, e.rel).target = e.dst
    BY DEF ClassOf
  <2>2. ASSUME NEW t \in {g.target : g \in top} PROVE t \in {e.dst : e \in In(top)}
    BY <1>3, <2>1 DEF In
  <2>3. ASSUME NEW t \in {e.dst : e \in In(top)} PROVE t \in {g.target : g \in top}
    BY <2>1 DEF In
  <2> QED  BY <2>2, <2>3
<1> QED  BY <1>2, <1>4, <1>5

\* What is listed is all there is, or as much as is listed at most.
Listed(top, dangling, targets) ==
  LET sum == SumFunction([g \in top |-> Cardinality(g.sources)])
      named == Cardinality({g.target : g \in top})
  IN  IF Cardinality(top) < TopLimit
      THEN sum = dangling /\ named = targets
      ELSE /\ Cardinality(top) = TopLimit
           /\ sum <= dangling /\ named <= targets

LEMMA TopAddsUp ==
  ASSUME EdgesTyped, NEW top \in TopDangling
  PROVE  Listed(top, Cardinality(Broken), Cardinality({e.dst : e \in Broken}))
<1> DEFINE G == Cardinality(Groups)
           m == Min({TopLimit, G})
<1>1. top \in SUBSET Groups /\ Cardinality(top) = m
  BY DEF TopDangling
<1>2. IsFiniteSet(Broken)
  BY <1>1, ListedIs
<1>3. IsFiniteSet(Groups)
  <2> DEFINE h == [e \in Broken |-> ClassOf(e.dst, e.rel)]
  <2>1. h \in [Broken -> Groups] /\ \A g \in Groups : \E a \in Broken : h[a] = g
    BY GroupsAre
  <2> HIDE DEF h
  <2> QED  BY <1>2, <2>1, ClassesFinite
<1>4. G \in Nat /\ TopLimit \in Nat
  BY <1>3, FS_CardinalityType, TopLimitAssumption
<1>5. m \in {TopLimit, G} /\ m <= TopLimit /\ m <= G
  <2>1. \E x \in {TopLimit, G} : \A y \in {TopLimit, G} : x <= y
    BY <1>4
  <2> QED  BY <1>4, <2>1 DEF Min
<1> HIDE DEF m
<1>6. In(top) \subseteq Broken
  BY DEF In
<1>7. CASE Cardinality(top) < TopLimit
  <2>1. Cardinality(top) = G
    BY <1>1, <1>4, <1>5, <1>7
  <2>2. top = Groups
    BY <1>1, <1>3, <2>1, FS_Subset
  <2>3. In(top) = Broken
    BY <2>2, GroupsAre DEF In
  <2> QED  BY <1>1, <1>7, <2>3, ListedIs DEF Listed
<1>8. CASE ~(Cardinality(top) < TopLimit)
  <2>1. Cardinality(top) = TopLimit
    BY <1>1, <1>4, <1>5, <1>8
  <2>2. Cardinality(In(top)) <= Cardinality(Broken)
    BY <1>2, <1>6, FS_Subset
  <2>3. {e.dst : e \in In(top)} \subseteq {e.dst : e \in Broken}
    BY <1>6
  <2>4. IsFiniteSet({e.dst : e \in Broken})
    <3> DEFINE S == {e.dst : e \in Broken}
               h == [e \in Broken |-> e.dst]
    <3>1. h \in [Broken -> S] /\ \A x \in S : \E a \in Broken : h[a] = x
      OBVIOUS
    <3> HIDE DEF S, h
    <3>2. IsFiniteSet(S)
      BY <1>2, <3>1, ClassesFinite
    <3> QED  BY <3>2 DEF S
  <2>5. Cardinality({e.dst : e \in In(top)}) <= Cardinality({e.dst : e \in Broken})
    BY <2>3, <2>4, FS_Subset
  <2> QED  BY <1>1, <1>8, <2>1, <2>2, <2>5, ListedIs DEF Listed
<1> QED  BY <1>7, <1>8

\* A page of N rows is as long as it says.
PageLength(N, limit, offset) ==
  LET rest == IF offset < N THEN N - offset ELSE 0
  IN  IF limit = 0 THEN N ELSE Min({limit, rest})

LEMMA PageIsFull ==
  ASSUME NEW S, IsFiniteSet(S), NEW rows \in SetToSeqs(S), NEW limit \in Nat, NEW offset \in Nat,
         NEW page,
         page = {n \in DOMAIN rows : limit > 0 => n \in offset + 1 .. offset + limit}
  PROVE  Cardinality({rows[n] : n \in page}) = PageLength(Cardinality(S), limit, offset)
<1> DEFINE N == Cardinality(S)
           rest == IF offset < N THEN N - offset ELSE 0
           T == {rows[n] : n \in page}
           m == IF offset + limit <= N THEN offset + limit ELSE N
<1>1. N \in Nat /\ DOMAIN rows = 1..N /\ \A i, j \in 1..N : i # j => rows[i] # rows[j]
  BY FS_CardinalityType DEF SetToSeqs
<1> HIDE DEF N
<1>2. page \subseteq 1..N
  BY <1>1
<1>3. IsFiniteSet(page)
  BY <1>1, <1>2, FS_Interval, FS_Subset
<1>4. Cardinality(T) = Cardinality(page)
  <2> DEFINE f == [n \in page |-> rows[n]]
  <2>1. f \in Bijection(page, T)
    BY <1>1, <1>2 DEF Bijection, Injection, Surjection, IsInjective
  <2> HIDE DEF f, T
  <2> QED  BY <1>3, <2>1, FS_Bijection DEF ExistsBijection
<1>5. CASE limit = 0
  <2>1. page = 1..N
    BY <1>1, <1>5
  <2>2. Cardinality(1..N) = IF 1 > N THEN 0 ELSE N - 1 + 1
    BY <1>1, FS_Interval
  <2>3. Cardinality(page) = N
    <3>1. (IF 1 > N THEN 0 ELSE N - 1 + 1) = N
      BY <1>1
    <3> QED  BY <2>1, <2>2, <3>1
  <2> QED  BY <1>4, <1>5, <2>3 DEF N, PageLength
<1>6. CASE limit > 0
  <2>1. page = (offset + 1) .. m
    BY <1>1, <1>6
  <2>2. m \in Nat
    BY <1>1
  <2> HIDE DEF m
  <2>3. Cardinality((offset + 1) .. m) = IF offset + 1 > m THEN 0 ELSE m - (offset + 1) + 1
    BY <2>2, FS_Interval
  <2>4. Cardinality(page) \in {limit, rest} /\ Cardinality(page) <= limit
          /\ Cardinality(page) <= rest
    <3> DEFINE c == IF offset + 1 > m THEN 0 ELSE m - (offset + 1) + 1
    <3>1. c \in {limit, rest} /\ c <= limit /\ c <= rest
      BY <1>1, <1>6 DEF m
    <3>2. Cardinality(page) = c
      BY <2>1, <2>3
    <3> HIDE DEF c, rest
    <3> QED  BY <3>1, <3>2
  <2> HIDE DEF rest
  <2>5. Min({limit, rest}) \in {limit, rest} /\ \A y \in {limit, rest} : Min({limit, rest}) <= y
    <3>1. \E x \in {limit, rest} : \A y \in {limit, rest} : x <= y
      BY <2>4
    <3> QED  BY <3>1 DEF Min
  <2>6. Cardinality(page) = Min({limit, rest})
    <3>1. Cardinality(page) \in Nat /\ rest \in Nat
      BY <1>1, <1>3, FS_CardinalityType DEF rest
    <3> QED  BY <2>4, <2>5, <3>1
  <2> QED  BY <1>4, <1>6, <2>6 DEF N, rest, PageLength
<1> QED  BY <1>5, <1>6

-----------------------------------------------------------------------------
(* The invariant of the catalog and of the quiet reads. *)

HealthNow ==
  [total |-> Cardinality(ScopedEdges), resolved |-> Cardinality(ScopedEdges \ Broken),
   dangling |-> Cardinality(Broken), targets |-> Cardinality({e.dst : e \in Broken})]
ByRelNow  == [r \in {e.rel : e \in Broken} |-> BrokenBy(r)]
LinkedNow == {{e.src, e.dst} : e \in {x \in Edges : x.dst \in Memories}}
SuggestNow(b) ==
  /\ b.todo \subseteq Readable(reader.scope, <<>>)
  /\ \A pair \in b.best : /\ Cardinality(pair) = 2 /\ pair \subseteq Readable(reader.scope, <<>>)
                          /\ pair \notin LinkedNow

ArgTyped ==
  /\ reader.op = "list" => reader.arg.limit \in Nat /\ reader.arg.offset \in Nat
  /\ reader.op = "catalog" => reader.arg.depth \in Nat /\ reader.arg.under \in Branches

\* The results so far are what the SELECTs would give again.
FirstNow(x) ==
  /\ reader.op = "list" => x = Cardinality(Readable(reader.scope, reader.arg.under))
  /\ reader.op = "health" => x = HealthNow
  /\ reader.op = "suggest" => x = LinkedNow
SecondNow(x) ==
  /\ reader.op = "health" => x = ByRelNow
  /\ reader.op = "suggest" => SuggestNow(x)
SoFarNow ==
  /\ Len(reader.got) >= 1 => FirstNow(reader.got[1])
  /\ Len(reader.got) = 2 => SecondNow(reader.got[2])

QInv ==
  /\ EdgesTyped
  /\ writes \in Nat
  /\ Reading => ArgTyped
  /\ Reading /\ writes = 0 => SoFarNow
  /\ CatalogAddsUp
  /\ QuietReadsAgree

LEMMA InitQuiet == Init => QInv
<1> SUFFICES ASSUME Init PROVE QInv
  OBVIOUS
<1>1. EdgesTyped
  BY DEF Init, EdgesTyped, Links
<1> QED
  BY <1>1 DEF Init, QInv, Reading, CatalogAddsUp, QuietReadsAgree, Answered

\* What the SELECTs give of a corpus that stays as it is, within the same scope.
LEMMA SameNow ==
  ASSUME corpus' = corpus, reader'.scope = reader.scope, reader'.op = reader.op,
         reader'.arg = reader.arg
  PROVE  /\ EdgesTyped' <=> EdgesTyped
         /\ ArgTyped' <=> ArgTyped
         /\ FirstNow(reader.got[1])' <=> FirstNow(reader'.got[1])
         /\ SecondNow(reader.got[2])' <=> SecondNow(reader'.got[2])
<1>1. place' = place /\ out' = out
  BY DEF corpus
<1>2. (EdgesTyped' <=> EdgesTyped) /\ (ArgTyped' <=> ArgTyped)
  BY <1>1 DEF EdgesTyped, ArgTyped
<1>3. FirstNow(reader.got[1])' <=> FirstNow(reader'.got[1])
  BY <1>1 DEF FirstNow, HealthNow, LinkedNow, Readable, ScopedEdges, Broken, Edges, Live
<1>4. SecondNow(reader.got[2])' <=> SecondNow(reader'.got[2])
  BY <1>1 DEF SecondNow, SuggestNow, ByRelNow, BrokenBy, LinkedNow, Readable, ScopedEdges,
              Broken, Edges, Live
<1> QED  BY <1>2, <1>3, <1>4

Calls(op, arg) ==
  /\ op = "list" => arg.limit \in Nat /\ arg.offset \in Nat
  /\ op = "catalog" => arg.depth \in Nat /\ arg.under \in Branches

LEMMA BeginQuiet ==
  ASSUME RInv, QInv, NEW op, NEW s, NEW arg, Begin(op, s, arg), Calls(op, arg)
  PROVE  QInv'
<1>1. /\ corpus' = corpus /\ writes' = writes /\ answer' = Nothing
      /\ reader' = [op |-> op, scope |-> s, arg |-> arg, got |-> <<>>]
  BY DEF Begin, RInv, corpus
<1>2. EdgesTyped'
  BY <1>1 DEF QInv, EdgesTyped, corpus
<1>3. ArgTyped'
  BY <1>1 DEF ArgTyped, Calls
<1>4. SoFarNow'
  <2>1. Len(reader'.got) = 0
    BY <1>1
  <2> QED  BY <2>1 DEF SoFarNow
<1> QED
  BY <1>1, <1>2, <1>3, <1>4 DEF QInv, CatalogAddsUp, QuietReadsAgree, Answered

LEMMA CallQuiet == ASSUME RInv, QInv, Call PROVE QInv'
<1>0. ASSUME NEW op, NEW s, NEW arg, op # "list", op # "catalog", Begin(op, s, arg)
      PROVE  QInv'
  BY <1>0, BeginQuiet DEF Calls
<1>1. PICK s \in Scopes :
        \/ HandleSearch(s) \/ HandleScope(s) \/ HandleDeletedMemories(s)
        \/ HandleListMemories(s) \/ HandleCatalog(s) \/ HandleGetMemory(s)
        \/ HandleMemoryHistory(s) \/ HandleReviewDue(s)
        \/ HandleGraph(s) \/ HandleEdgeHealth(s) \/ HandleSuggestLinks(s)
  BY DEF Call
<1>2. CASE HandleListMemories(s)
  <2>1. PICK p \in Branches, page \in Pages :
          Begin("list", s, [under |-> p, limit |-> page[1], offset |-> page[2]])
    BY <1>2 DEF HandleListMemories
  <2>2. page[1] \in Nat /\ page[2] \in Nat
    BY PagesAssumption
  <2> QED  BY <2>1, <2>2, BeginQuiet DEF Calls
<1>3. CASE HandleCatalog(s)
  <2>1. PICK p \in Branches, d \in Depths : Begin("catalog", s, [under |-> p, depth |-> d])
    BY <1>3 DEF HandleCatalog
  <2> QED  BY <2>1, DepthsAssumption, BeginQuiet DEF Calls
<1>4. CASE HandleSearch(s)
  BY <1>0, <1>4 DEF HandleSearch
<1>5. CASE HandleScope(s)
  BY <1>0, <1>5 DEF HandleScope
<1>6. CASE HandleDeletedMemories(s)
  BY <1>0, <1>6 DEF HandleDeletedMemories
<1>7. CASE HandleGetMemory(s)
  BY <1>0, <1>7 DEF HandleGetMemory
<1>8. CASE HandleGraph(s)
  BY <1>0, <1>8 DEF HandleGraph
<1>9. CASE HandleEdgeHealth(s) \/ HandleSuggestLinks(s)
  BY <1>0, <1>9 DEF HandleEdgeHealth, HandleSuggestLinks
<1>10. CASE HandleMemoryHistory(s) \/ HandleReviewDue(s)
  BY <1>0, <1>10 DEF HandleMemoryHistory, HandleReviewDue
<1> QED  BY <1>1, <1>2, <1>3, <1>4, <1>5, <1>6, <1>7, <1>8, <1>9, <1>10

\* After a write nothing is promised of the read.
LEMMA WriteQuiet ==
  ASSUME QInv, NEW i \in Memories, Write(i) \/ Delete(i)
  PROVE  QInv'
<1>1. Reading /\ reader' = reader /\ answer' = answer /\ writes' = writes + 1
  BY DEF Write, Delete, Written
<1>2. writes' \in Nat /\ writes' # 0 /\ answer' = Nothing
  BY <1>1 DEF QInv, Reading
<1>3. EdgesTyped'
  <2>1. CASE Write(i)
    <3>1. PICK t \in Taxonomies, L \in Links(i), waited \in Targets \cup {Nothing} :
            out' = [j \in Memories |->
                     IF j = i THEN L
                     ELSE {IF l.dst = waited THEN [l EXCEPT !.dst = i] ELSE l : l \in out[j]}]
      BY <2>1 DEF Write
    <3>2. ASSUME NEW j \in Memories, NEW l \in out'[j]
          PROVE  /\ l = [dst |-> l.dst, rel |-> l.rel]
                 /\ l.dst \in Memories \cup Targets /\ l.rel \in Rels
      <4>1. CASE j = i
        BY <3>1, <4>1 DEF Links
      <4>2. CASE j # i
        <5>1. PICK m \in out[j] : l = IF m.dst = waited THEN [m EXCEPT !.dst = i] ELSE m
          BY <3>1, <4>2
        <5>2. /\ m = [dst |-> m.dst, rel |-> m.rel]
              /\ m.dst \in Memories \cup Targets /\ m.rel \in Rels
          BY DEF QInv, EdgesTyped
        <5>3. [m EXCEPT !.dst = i] = [dst |-> i, rel |-> m.rel]
          BY <5>2
        <5>4. l = m \/ l = [dst |-> i, rel |-> m.rel]
          BY <5>1, <5>3
        <5> QED  BY <5>2, <5>4
      <4> QED  BY <4>1, <4>2
    <3> QED  BY <3>2 DEF EdgesTyped
  <2>2. CASE Delete(i)
    BY <2>2 DEF Delete, QInv, EdgesTyped
  <2> QED  BY <2>1, <2>2
<1>4. ArgTyped'
  BY <1>1 DEF QInv, ArgTyped
<1> QED  BY <1>2, <1>3, <1>4 DEF QInv, CatalogAddsUp, QuietReadsAgree, Answered

\* A result.
LEMMA GotQuiet ==
  ASSUME RInv, QInv, Reading, NEW x, Got(x), reader.got = <<>> \/ Len(reader.got) = 1,
         writes = 0 => /\ reader.got = <<>> => FirstNow(x)
                       /\ Len(reader.got) = 1 => SecondNow(x)
  PROVE  QInv'
<1>1. corpus' = corpus /\ writes' = writes /\ answer' = Nothing
  BY DEF Got, Reading
<1>2. reader'.op = reader.op /\ reader'.scope = reader.scope /\ reader'.arg = reader.arg
  BY GotIs
<1>3. EdgesTyped' /\ ArgTyped'
  BY <1>1, <1>2, SameNow DEF QInv
<1>4. writes = 0 => SoFarNow'
  <2> SUFFICES ASSUME writes = 0 PROVE SoFarNow'
    OBVIOUS
  <2>1. CASE reader.got = <<>>
    <3>1. Len(reader'.got) = 1 /\ reader'.got[1] = x
      BY <2>1, GotIs
    <3>2. FirstNow(reader.got[1])'
      BY <1>1, <1>2, <2>1, <3>1, SameNow
    <3> QED  BY <3>1, <3>2 DEF SoFarNow
  <2>2. CASE reader.got # <<>>
    <3>1. Len(reader'.got) = 2 /\ reader'.got[1] = reader.got[1] /\ reader'.got[2] = x
      BY <2>2, GotIs
    <3>2. FirstNow(reader.got[1]) /\ SecondNow(x)
      BY <2>2 DEF QInv, SoFarNow
    <3>3. FirstNow(reader.got[1])' /\ SecondNow(reader.got[2])'
      BY <1>1, <1>2, <3>1, <3>2, SameNow
    <3> QED  BY <3>3 DEF SoFarNow
  <2> QED  BY <2>1, <2>2
<1> QED
  BY <1>1, <1>3, <1>4 DEF QInv, CatalogAddsUp, QuietReadsAgree, Answered

LEMMA ResultsQuiet ==
  ASSUME RInv, QInv,
         \/ At("list", 0) /\ ListCount
         \/ At("graph", 0) /\ GraphNodeMeta
         \/ At("graph", 1) /\ AllEdges
         \/ At("health", 0) /\ HealthCounts
         \/ At("health", 1) /\ HealthByRel
         \/ At("suggest", 0) /\ LinkedPairs
         \/ At("suggest", 1) /\ Sources
  PROVE  QInv'
<1>1. Reading /\ (Len(reader.got) = 0 => reader.got = <<>>)
  BY DEF At, RInv, ReaderSeen
<1>2. ASSUME NEW x, Got(x), Len(reader.got) = 0, FirstNow(x) PROVE QInv'
  BY <1>1, <1>2, GotQuiet
<1>3. ASSUME NEW x, Got(x), Len(reader.got) = 1, SecondNow(x) PROVE QInv'
  <2>1. reader.got # <<>>
    BY <1>3
  <2> QED  BY <1>1, <1>3, <2>1, GotQuiet
<1>4. CASE At("list", 0) /\ ListCount
  <2>1. FirstNow(Cardinality(Readable(reader.scope, reader.arg.under)))
    BY <1>4 DEF At, FirstNow
  <2> QED  BY <1>2, <1>4, <2>1 DEF At, ListCount
<1>5. CASE At("graph", 0) /\ GraphNodeMeta
  <2>1. \A x : FirstNow(x)
    BY <1>5 DEF At, FirstNow
  <2> QED  BY <1>2, <1>5, <2>1 DEF At, GraphNodeMeta
<1>6. CASE At("graph", 1) /\ AllEdges
  <2>1. \A x : SecondNow(x)
    BY <1>6 DEF At, SecondNow
  <2> QED  BY <1>3, <1>6, <2>1 DEF At, AllEdges
<1>7. CASE At("health", 0) /\ HealthCounts
  <2>1. FirstNow(HealthNow)
    BY <1>7 DEF At, FirstNow
  <2>2. Got(HealthNow)
    BY <1>7 DEF HealthCounts, HealthNow
  <2> QED  BY <1>2, <1>7, <2>1, <2>2 DEF At
<1>8. CASE At("health", 1) /\ HealthByRel
  <2>1. SecondNow(ByRelNow)
    BY <1>8 DEF At, SecondNow
  <2>2. Got(ByRelNow)
    BY <1>8 DEF HealthByRel, ByRelNow, BrokenBy
  <2> QED  BY <1>3, <1>8, <2>1, <2>2 DEF At
<1>9. CASE At("suggest", 0) /\ LinkedPairs
  <2>1. FirstNow(LinkedNow)
    BY <1>9 DEF At, FirstNow
  <2>2. Got(LinkedNow)
    BY <1>9 DEF LinkedPairs, LinkedNow
  <2> QED  BY <1>2, <1>9, <2>1, <2>2 DEF At
<1>10. CASE At("suggest", 1) /\ Sources
  <2> DEFINE x == [todo |-> Readable(reader.scope, <<>>), best |-> {}]
  <2>1. SecondNow(x)
    BY <1>10 DEF At, SecondNow, SuggestNow
  <2>2. Got(x)
    BY <1>10 DEF Sources
  <2> HIDE DEF x
  <2> QED  BY <1>3, <1>10, <2>1, <2>2 DEF At
<1> QED  BY <1>4, <1>5, <1>6, <1>7, <1>8, <1>9, <1>10

LEMMA PairsAreTwo == ASSUME NEW i, NEW j, i # j PROVE Cardinality({i, j}) = 2
<1> DEFINE S == {i}
<1>1. IsFiniteSet(S) /\ Cardinality(S) = 1 /\ j \notin S /\ {i, j} = S \cup {j}
  BY FS_Singleton
<1> HIDE DEF S
<1>2. Cardinality(S \cup {j}) = Cardinality(S) + 1
  BY <1>1, FS_AddElement
<1>3. Cardinality(S \cup {j}) = 2
  BY <1>1, <1>2
<1> QED  BY <1>1, <1>3

\* A pair a source is matched with is new.
LEMMA MatchQuiet ==
  ASSUME RInv, QInv, At("suggest", 2), Match
  PROVE  QInv'
<1>1. Reading /\ reader.op = "suggest" /\ Len(reader.got) = 2
  BY DEF At
<1> DEFINE g == reader.got[1]
           b == reader.got[2]
<1>2. PICK i \in b.todo : \E found \in SUBSET (Readable(reader.scope, <<>>) \ {i}) :
        reader' = [op |-> reader.op, scope |-> reader.scope, arg |-> reader.arg,
                   got |-> <<g, [todo |-> b.todo \ {i}, best |-> b.best \cup MatchesOf(i, found)]>>]
  BY MatchIs
<1>3. PICK found \in SUBSET (Readable(reader.scope, <<>>) \ {i}) :
        reader' = [op |-> reader.op, scope |-> reader.scope, arg |-> reader.arg,
                   got |-> <<g, [todo |-> b.todo \ {i}, best |-> b.best \cup MatchesOf(i, found)]>>]
  BY <1>2
<1> DEFINE c == [todo |-> b.todo \ {i}, best |-> b.best \cup MatchesOf(i, found)]
<1>4. /\ reader'.op = reader.op /\ reader'.scope = reader.scope /\ reader'.arg = reader.arg
      /\ Len(reader'.got) = 2 /\ reader'.got[1] = g /\ reader'.got[2] = c
  <2> HIDE DEF g, c
  <2> QED  BY <1>3 DEF c
<1>5. corpus' = corpus /\ writes' = writes /\ answer' = Nothing
  BY <1>1 DEF Match, Reading
<1>6. EdgesTyped' /\ ArgTyped'
  BY <1>1, <1>4, <1>5, SameNow DEF QInv
<1>7. ASSUME writes = 0 PROVE SoFarNow'
  <2>1. FirstNow(g) /\ SuggestNow(b) /\ g = LinkedNow
    BY <1>1, <1>7 DEF QInv, SoFarNow, FirstNow, SecondNow
  <2>2. SuggestNow(c)
    <3>1. ASSUME NEW pair \in MatchesOf(i, found)
          PROVE  /\ Cardinality(pair) = 2 /\ pair \subseteq Readable(reader.scope, <<>>)
                 /\ pair \notin LinkedNow
      <4>1. PICK j \in found : pair = {i, j}
        BY DEF MatchesOf
      <4>2. i # j /\ i \in Readable(reader.scope, <<>>) /\ j \in Readable(reader.scope, <<>>)
        BY <2>1 DEF SuggestNow
      <4>3. Cardinality({i, j}) = 2
        BY <4>2, PairsAreTwo
      <4>4. pair \notin LinkedNow
        BY <2>1 DEF MatchesOf
      <4> QED  BY <4>1, <4>2, <4>3, <4>4
    <3>2. c.todo \subseteq b.todo /\ c.best = b.best \cup MatchesOf(i, found)
      OBVIOUS
    <3> HIDE DEF b, c
    <3> QED  BY <2>1, <3>1, <3>2 DEF SuggestNow
  <2>3. SecondNow(c)
    <3> HIDE DEF c
    <3> QED  BY <1>1, <2>2 DEF SecondNow
  <2>4. FirstNow(reader.got[1])' /\ SecondNow(reader.got[2])'
    <3> HIDE DEF c, g
    <3> QED  BY <1>4, <1>5, <2>1, <2>3, SameNow
  <2> QED  BY <2>4 DEF SoFarNow
<1> QED
  BY <1>5, <1>6, <1>7 DEF QInv, CatalogAddsUp, QuietReadsAgree, Answered

-----------------------------------------------------------------------------
(* The answers. *)

\* What CatalogAddsUp and QuietReadsAgree say of an answer of the read under way.
WholeCatalog(a) ==
  LET s == reader.scope
      p == reader.arg.under
      d == reader.arg.depth
  IN  /\ Total(a.entries) = Cardinality({i \in Titled(s, <<>>) : IsPrefix(p, place[i].at)})
      /\ d = 0 \/ d > Len(p) =>
           \A x \in a.entries : x.expandable =>
             LET opened == RollupCatalog(Leaves(s), x.path, 0)
             IN  Total(opened) = x.count /\ \E y \in opened : y.path # x.path
FullPage(a) ==
  LET k == reader.arg
      rest == IF k.offset < a.total THEN a.total - k.offset ELSE 0
  IN  Cardinality(a.bodies) = IF k.limit = 0 THEN a.total ELSE Min({k.limit, rest})
HealthAgrees(a) ==
  LET n == a.counts IN
  /\ n.total = n.resolved + n.dangling
  /\ n.dangling = SumFunction(a.byRel)
  /\ Listed(a.top, n.dangling, n.targets)
NewPairs(a) ==
  \A pair \in a.pairs :
    /\ Cardinality(pair) = 2 /\ pair \subseteq Readable(reader.scope, <<>>)
    /\ \A e \in Edges : {e.src, e.dst} # pair

LEMMA AnswerQuiet ==
  ASSUME QInv, Reading, NEW a, Answer(a),
         reader.op = "catalog" => WholeCatalog(a),
         writes = 0 => /\ reader.op = "list" => FullPage(a)
                       /\ reader.op = "health" => HealthAgrees(a)
                       /\ reader.op = "suggest" => NewPairs(a)
  PROVE  QInv'
<1>1. /\ place' = place /\ out' = out /\ reader' = reader /\ answer' = a /\ writes' = writes
      /\ reader # Nothing /\ answer = Nothing
  BY DEF Answer, corpus, Reading
<1>2. EdgesTyped' /\ (Reading' => ArgTyped' /\ (writes' = 0 => SoFarNow'))
  <2>1. Reading' => ArgTyped'
    BY <1>1 DEF QInv, ArgTyped
  <2>2. EdgesTyped'
    BY <1>1 DEF QInv, EdgesTyped
  <2>3. writes' = 0 => SoFarNow'
    <3> SUFFICES ASSUME writes' = 0 PROVE SoFarNow'
      OBVIOUS
    <3>1. SoFarNow
      BY <1>1 DEF QInv
    <3>2. FirstNow(reader.got[1])' <=> FirstNow(reader.got[1])
      BY <1>1, SameNow DEF corpus
    <3>3. SecondNow(reader.got[2])' <=> SecondNow(reader.got[2])
      BY <1>1, SameNow DEF corpus
    <3> QED  BY <1>1, <3>1, <3>2, <3>3 DEF SoFarNow
  <2> QED  BY <2>1, <2>2, <2>3
<1>3. CatalogAddsUp'
  <2>1. Answered("catalog")' => WholeCatalog(a)
    BY <1>1 DEF Answered
  <2>2. WholeCatalog(a) => WholeCatalog(answer)'
    <3>1. Titled(reader.scope, <<>>)' = Titled(reader.scope, <<>>)
      BY <1>1 DEF Titled, Live
    <3>2. Leaves(reader.scope)' = Leaves(reader.scope)
      BY <1>1 DEF Leaves, Titled, Live
    <3>3. {i \in Titled(reader.scope, <<>>) : IsPrefix(reader.arg.under, place[i].at)}'
            = {i \in Titled(reader.scope, <<>>) : IsPrefix(reader.arg.under, place[i].at)}
      BY <1>1, <3>1
    <3> QED  BY <1>1, <3>2, <3>3 DEF WholeCatalog
  <2> QED  BY <2>1, <2>2 DEF CatalogAddsUp, WholeCatalog
<1>4. QuietReadsAgree'
  <2>1. writes' = 0 => /\ Answered("list")' => FullPage(a)
                       /\ Answered("health")' => HealthAgrees(a)
                       /\ Answered("suggest")' => NewPairs(a)
    BY <1>1 DEF Answered
  <2>2. FullPage(a) => FullPage(answer)'
    BY <1>1 DEF FullPage
  <2>3. HealthAgrees(a) => HealthAgrees(answer)'
    BY <1>1 DEF HealthAgrees, Listed
  <2>4. NewPairs(a) => NewPairs(answer)'
    BY <1>1 DEF NewPairs, Readable, Edges, Live
  <2> QED  BY <2>1, <2>2, <2>3, <2>4 DEF QuietReadsAgree, FullPage, HealthAgrees, Listed, NewPairs
<1> QED  BY <1>1, <1>2, <1>3, <1>4 DEF QInv

\* The answers nothing is promised of.
LEMMA OtherAnswers ==
  ASSUME RInv, QInv,
         \/ At("search", 0) /\ Search
         \/ At("scope", 0) /\ BrowseScope
         \/ At("deleted", 0) /\ DeletedMemories
         \/ At("get", 0) /\ GetRow
         \/ At("get", 1) /\ GetBacklinks
         \/ At("history", 0) /\ GetRow
         \/ At("history", 1) /\ Revisions
         \/ At("due", 0) /\ DueReviews
         \/ At("graph", 2) /\ Graph
  PROVE  QInv'
<1>1. ASSUME NEW a, Answer(a), Reading, reader.op \notin {"catalog", "list", "health", "suggest"}
      PROVE  QInv'
  BY <1>1, AnswerQuiet
<1>2. CASE At("search", 0) /\ Search
  BY <1>1, <1>2 DEF At, Search
<1>3. CASE At("scope", 0) /\ BrowseScope
  BY <1>1, <1>3 DEF At, BrowseScope
<1>4. CASE At("deleted", 0) /\ DeletedMemories
  BY <1>1, <1>4 DEF At, DeletedMemories
<1>5. CASE (At("get", 0) \/ At("history", 0)) /\ GetRow
  <2>1. Reading /\ reader.op \in {"get", "history"} /\ reader.got = <<>>
    BY <1>5 DEF At, RInv, ReaderSeen
  <2>2. \A x : FirstNow(x)
    BY <2>1 DEF FirstNow
  <2>3. Len(reader.got) # 1
    BY <2>1
  <2>4. ASSUME NEW x, Got(x) PROVE QInv'
    BY <2>1, <2>2, <2>3, <2>4, GotQuiet
  <2> QED  BY <1>1, <1>5, <2>1, <2>4 DEF GetRow
<1>6. CASE At("get", 1) /\ GetBacklinks
  BY <1>1, <1>6 DEF At, GetBacklinks
<1>7. CASE At("graph", 2) /\ Graph
  BY <1>1, <1>7 DEF At, Graph
<1>8. CASE (At("history", 1) /\ Revisions) \/ (At("due", 0) /\ DueReviews)
  BY <1>1, <1>8 DEF At, Revisions, DueReviews
<1> QED  BY <1>2, <1>3, <1>4, <1>5, <1>6, <1>7, <1>8

LEMMA CatalogQuiet ==
  ASSUME RInv, QInv, At("catalog", 0), Catalog
  PROVE  QInv'
<1> DEFINE s == reader.scope
           p == reader.arg.under
           d == reader.arg.depth
           a == [bodies |-> {}, titles |-> {}, entries |-> RollupCatalog(Leaves(s), p, d)]
<1>1. Reading /\ reader.op = "catalog" /\ p \in Branches /\ d \in Nat
  BY DEF At, QInv, ArgTyped
<1>2. place \in [Memories -> Row \cup {Nothing}]
  BY DEF RInv
<1>3. Total(a.entries) = Cardinality({i \in Titled(s, <<>>) : IsPrefix(p, place[i].at)})
  BY EntriesCount DEF Under
<1>4. d = 0 \/ d > Len(p) =>
        \A x \in a.entries : x.expandable =>
          LET opened == RollupCatalog(Leaves(s), x.path, 0)
          IN  Total(opened) = x.count /\ \E y \in opened : y.path # x.path
  <2> SUFFICES ASSUME d = 0 \/ d > Len(p), NEW x \in RollupCatalog(Leaves(s), p, d), x.expandable
               PROVE  LET opened == RollupCatalog(Leaves(s), x.path, 0)
                      IN  Total(opened) = x.count /\ \E y \in opened : y.path # x.path
    OBVIOUS
  <2> HIDE DEF s, p, d
  <2> QED  BY <1>1, <1>2, EntryOpens
<1>5. WholeCatalog(a)
  BY <1>3, <1>4 DEF WholeCatalog
<1>6. Answer(a)
  BY DEF Catalog
<1> HIDE DEF a
<1> QED  BY <1>1, <1>5, <1>6, AnswerQuiet

LEMMA ListQuiet ==
  ASSUME RInv, QInv, At("list", 1), ListPage
  PROVE  QInv'
<1> DEFINE S == Readable(reader.scope, reader.arg.under)
           k == reader.arg
<1>1. /\ Reading /\ reader.op = "list" /\ Len(reader.got) = 1
      /\ k.limit \in Nat /\ k.offset \in Nat
  BY DEF At, QInv, ArgTyped
<1>2. writes = 0 => reader.got[1] = Cardinality(S)
  BY <1>1 DEF QInv, SoFarNow, FirstNow
<1>3. IsFiniteSet(S)
  BY FiniteAssumption, FS_Subset DEF Readable, Live
<1>4. PICK rows \in SetToSeqs(S) :
        LET page == {n \in DOMAIN rows : k.limit > 0 => n \in k.offset + 1 .. k.offset + k.limit}
        IN  Answer([bodies |-> {rows[n] : n \in page}, titles |-> {}, total |-> reader.got[1]])
  BY DEF ListPage
<1> DEFINE page == {n \in DOMAIN rows : k.limit > 0 => n \in k.offset + 1 .. k.offset + k.limit}
           a == [bodies |-> {rows[n] : n \in page}, titles |-> {}, total |-> reader.got[1]]
<1>5. Answer(a)
  BY <1>4
<1>6. Cardinality({rows[n] : n \in page}) = PageLength(Cardinality(S), k.limit, k.offset)
  <2>1. page = {n \in DOMAIN rows : k.limit > 0 => n \in k.offset + 1 .. k.offset + k.limit}
    OBVIOUS
  <2> HIDE DEF S, k, page
  <2> QED  BY <1>1, <1>3, <2>1, PageIsFull
<1>7. writes = 0 => FullPage(a)
  <2> HIDE DEF S, page
  <2> QED  BY <1>2, <1>6 DEF FullPage, PageLength
<1> HIDE DEF a
<1> QED  BY <1>1, <1>5, <1>7, AnswerQuiet

LEMMA HealthQuiet ==
  ASSUME RInv, QInv, At("health", 2), EdgeHealth
  PROVE  QInv'
<1>1. Reading /\ reader.op = "health" /\ Len(reader.got) = 2 /\ EdgesTyped
  BY DEF At, QInv
<1>2. PICK top \in TopDangling :
        LET sources == UNION {g.sources : g \in top} IN
        Answer([bodies |-> {}, titles |-> sources, quotes |-> sources,
                counts |-> reader.got[1], byRel |-> reader.got[2], top |-> top])
  BY DEF EdgeHealth
<1> DEFINE sources == UNION {g.sources : g \in top}
           a == [bodies |-> {}, titles |-> sources, quotes |-> sources,
                 counts |-> reader.got[1], byRel |-> reader.got[2], top |-> top]
<1>3. ASSUME writes = 0 PROVE HealthAgrees(a)
  <2>1. a.counts = HealthNow /\ a.byRel = ByRelNow /\ a.top = top
    BY <1>1, <1>3 DEF QInv, SoFarNow, FirstNow, SecondNow
  <2>2. /\ HealthNow.total = Cardinality(ScopedEdges)
        /\ HealthNow.resolved = Cardinality(ScopedEdges \ Broken)
        /\ HealthNow.dangling = Cardinality(Broken)
        /\ HealthNow.targets = Cardinality({e.dst : e \in Broken})
    BY DEF HealthNow
  <2>3. HealthNow.total = HealthNow.resolved + HealthNow.dangling
    BY <1>1, <2>2, BrokenAddUp
  <2>4. HealthNow.dangling = SumFunction(ByRelNow)
    BY <1>1, <2>2, BrokenAddUp DEF ByRelNow
  <2>5. Listed(top, HealthNow.dangling, HealthNow.targets)
    BY <1>1, <2>2, TopAddsUp
  <2> HIDE DEF a
  <2> QED  BY <2>1, <2>3, <2>4, <2>5 DEF HealthAgrees
<1>4. Answer(a)
  BY <1>2
<1> HIDE DEF a
<1> QED  BY <1>1, <1>3, <1>4, AnswerQuiet

LEMMA SuggestQuiet ==
  ASSUME RInv, QInv, At("suggest", 2), SuggestLinks
  PROVE  QInv'
<1> DEFINE b == reader.got[2].best
           a == [bodies |-> UNION b, titles |-> {}, pairs |-> b]
<1>1. Reading /\ reader.op = "suggest" /\ Len(reader.got) = 2
  BY DEF At
<1>2. Answer(a)
  BY DEF SuggestLinks
<1>3. ASSUME writes = 0 PROVE NewPairs(a)
  <2>1. SuggestNow(reader.got[2])
    BY <1>1, <1>3 DEF QInv, SoFarNow, SecondNow
  <2>2. ASSUME NEW pair \in b, NEW e \in Edges, {e.src, e.dst} = pair PROVE FALSE
    <3>1. pair \subseteq Readable(reader.scope, <<>>) /\ pair \notin LinkedNow
      BY <2>1 DEF SuggestNow
    <3>2. e.dst \in Memories
      BY <2>2, <3>1 DEF Readable, Live
    <3> QED  BY <2>2, <3>1, <3>2 DEF LinkedNow
  <2>3. a.pairs = b
    OBVIOUS
  <2> HIDE DEF a
  <2> QED  BY <2>1, <2>2, <2>3 DEF SuggestNow, NewPairs
<1> HIDE DEF a
<1> QED  BY <1>1, <1>2, <1>3, AnswerQuiet

LEMMA StepQuiet == ASSUME RInv, QInv, [Next]_vars PROVE QInv'
<1>1. CASE Call
  BY <1>1, CallQuiet
<1>2. CASE Statement
  <2>1. CASE \/ At("search", 0) /\ Search
             \/ At("scope", 0) /\ BrowseScope
             \/ At("deleted", 0) /\ DeletedMemories
             \/ At("get", 0) /\ GetRow
             \/ At("get", 1) /\ GetBacklinks
             \/ At("history", 0) /\ GetRow
             \/ At("history", 1) /\ Revisions
             \/ At("due", 0) /\ DueReviews
             \/ At("graph", 2) /\ Graph
    BY <2>1, OtherAnswers
  <2>2. CASE \/ At("list", 0) /\ ListCount
             \/ At("graph", 0) /\ GraphNodeMeta
             \/ At("graph", 1) /\ AllEdges
             \/ At("health", 0) /\ HealthCounts
             \/ At("health", 1) /\ HealthByRel
             \/ At("suggest", 0) /\ LinkedPairs
             \/ At("suggest", 1) /\ Sources
    BY <2>2, ResultsQuiet
  <2>3. CASE At("catalog", 0) /\ Catalog
    BY <2>3, CatalogQuiet
  <2>4. CASE At("list", 1) /\ ListPage
    BY <2>4, ListQuiet
  <2>5. CASE At("health", 2) /\ EdgeHealth
    BY <2>5, HealthQuiet
  <2>6. CASE At("suggest", 2) /\ Match
    BY <2>6, MatchQuiet
  <2>7. CASE At("suggest", 2) /\ SuggestLinks
    BY <2>7, SuggestQuiet
  <2> QED  BY <1>2, <2>1, <2>2, <2>3, <2>4, <2>5, <2>6, <2>7, Zenon DEF Statement
<1>3. CASE \E i \in Memories : Write(i) \/ Delete(i)
  BY <1>3, WriteQuiet
<1>4. CASE UNCHANGED vars
  <2>1. /\ place' = place /\ out' = out /\ reader' = reader /\ writes' = writes
        /\ answer' = answer
    BY <1>4 DEF vars, corpus
  <2>2. FirstNow(reader.got[1])' <=> FirstNow(reader.got[1])
    BY <2>1, SameNow DEF corpus
  <2>3. SecondNow(reader.got[2])' <=> SecondNow(reader.got[2])
    BY <2>1, SameNow DEF corpus
  <2>4. EdgesTyped' /\ writes' \in Nat /\ (Reading => ArgTyped)'
          /\ (Reading /\ writes = 0 => SoFarNow)'
    BY <2>1, <2>2, <2>3 DEF QInv, EdgesTyped, Reading, ArgTyped, SoFarNow
  <2>5. CatalogAddsUp'
    <3>1. Titled(reader.scope, <<>>)' = Titled(reader.scope, <<>>)
      BY <2>1 DEF Titled, Live
    <3>2. Leaves(reader.scope)' = Leaves(reader.scope)
      BY <2>1 DEF Leaves, Titled, Live
    <3>3. {i \in Titled(reader.scope, <<>>) : IsPrefix(reader.arg.under, place[i].at)}'
            = {i \in Titled(reader.scope, <<>>) : IsPrefix(reader.arg.under, place[i].at)}
      BY <2>1, <3>1
    <3> QED  BY <2>1, <3>2, <3>3 DEF QInv, CatalogAddsUp, Answered
  <2>6. QuietReadsAgree'
    BY <2>1 DEF QInv, QuietReadsAgree, Answered, Readable, Edges, Live
  <2> QED  BY <2>4, <2>5, <2>6 DEF QInv
<1> QED  BY <1>1, <1>2, <1>3, <1>4 DEF Next

LEMMA QuietInv == Spec => []QInv
<1>1. RInv /\ QInv /\ [Next]_vars => QInv'
  BY StepQuiet
<1> QED  BY <1>1, InitQuiet, ReadsInv, PTL DEF Spec

\* db/memory.go's rollup adds up: for every corpus, scope, prefix and depth, the
\* entries of a catalog count each memory under the prefix whose title may be seen
\* once, and the path of an entry marked expandable opens into as many memories over
\* more than one entry.
THEOREM CatalogIsWhole == Spec => []CatalogAddsUp
<1>1. QInv => CatalogAddsUp
  BY DEF QInv
<1> QED  BY <1>1, QuietInv, PTL

\* A read of several SELECTs that no write comes between agrees with itself and with
\* the corpus, however large: ListCount with the page ListMemories fetches, the three
\* statements of EdgeHealth with each other, and what SuggestLinks proposes with the
\* links there are.
THEOREM QuietReadsAreOne == Spec => []QuietReadsAgree
<1>1. QInv => QuietReadsAgree
  BY DEF QInv
<1> QED  BY <1>1, QuietInv, PTL
=============================================================================
