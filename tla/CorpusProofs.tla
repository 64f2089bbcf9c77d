----------------------------- MODULE CorpusProofs -----------------------------
(***************************************************************************)
(* Proofs about Corpus, for every set of clients, addresses, titles and    *)
(* contents: its type invariant, the completeness of history, the exact    *)
(* correspondence of edges and content, unique titles and healed links,    *)
(* the permanence of deletion, that no edit is lost, and that each address *)
(* implements VersionedStore.                                              *)
(***************************************************************************)
EXTENDS Corpus, TLAPS

\* What every transaction preserves of the four tables.
TablesInv ==
  /\ TablesTypeOK
  /\ HistoryIsComplete
  /\ LiveOrBurned
  /\ EdgesMirrorContent
  /\ EdgesHaveTargets

\* The inductive invariant.
IInv == TablesInv /\ CallsTypeOK

USE IdsAssumption, ContentsAssumption, GrantsAssumption, VersionAssumption,
    BranchesAssumption

\* The missing body is not a body, and only a missing row has it.
LEMMA NoBodyIsNone == NoBody \notin Bodies
BY DEF NoBody, Bodies

\* A query of a link names another live memory or nothing.
LEMMA ResolveType ==
  ASSUME NEW m, NEW s, NEW l
  PROVE  Resolve(m, s, l) \in (Live(m) \ {s}) \cup {Dangling}
BY DEF Resolve

\* So does a link after a rebuild, which has a row exactly for the content.
LEMMA RebuiltType ==
  ASSUME NEW order, NEW m, NEW s, NEW l, NoEdge \notin Live(m)
  PROVE  /\ Rebuilt(order, m, s, l) \in (Live(m) \ {s}) \cup {Dangling, NoEdge}
         /\ Rebuilt(order, m, s, l) # NoEdge <=> l \in m[s].body.links
<1> DEFINE H == FirstAfter(order, m, s, l)
<1>1. H \subseteq Live(m) \ {s}
  BY DEF FirstAfter, Matching
<1>2. H # {} => (CHOOSE i \in H : TRUE) \in H
  OBVIOUS
<1>3. Resolve(m, s, l) \in (Live(m) \ {s}) \cup {Dangling}
  BY ResolveType
<1>4. NoEdge # Dangling
  BY DEF NoEdge, Dangling
<1> QED BY <1>1, <1>2, <1>3, <1>4 DEF Rebuilt

\* A live memory has a version and a body.
LEMMA LiveRow ==
  ASSUME TablesTypeOK, NEW i \in Live(mem)
  PROVE  mem[i].version \in 1..MaxVersion /\ mem[i].body \in Bodies
<1>1. i \in Ids /\ mem[i].version > 0
  BY DEF Live
<1>2. mem[i] # Absent
  BY <1>1 DEF Absent
<1> QED BY <1>1, <1>2 DEF TablesTypeOK

\* Live addresses are addresses.
LEMMA LiveIds == ASSUME NEW m PROVE Live(m) \subseteq Ids
BY DEF Live

\* Writing version n of i, its next one, keeps the tables in order.
LEMMA WriteRowInv ==
  ASSUME TablesInv, NEW i \in Ids, NEW b \in Bodies, NEW n \in 1..MaxVersion,
         i \notin Burned, n = mem[i].version + 1, WriteRow(i, n, b)
  PROVE  TablesInv'
<1> USE DEF TablesInv, WriteRow
<1>1. TablesTypeOK
  OBVIOUS
<1>2. /\ mem' = [mem EXCEPT ![i] = [version |-> n, body |-> b]]
      /\ revs' = [revs EXCEPT ![i][n] = b]
      /\ tomb' = tomb
  OBVIOUS
<1>3. mem'[i] = [version |-> n, body |-> b] /\ \A j \in Ids \ {i} : mem'[j] = mem[j]
  BY <1>1, <1>2 DEF TablesTypeOK
<1>4. Live(mem') = Live(mem) \cup {i}
  BY <1>3 DEF Live
<1>5. Burned' = Burned
  BY <1>2 DEF Burned
<1>6. \A l \in Links : Resolve(mem', i, l) \in (Live(mem) \ {i}) \cup {Dangling}
  BY <1>4, ResolveType
<1>7. /\ \A s \in Ids \ {i}, l \in Links :
             edges'[s][l] = IF Heals(i, b.title, s, l) THEN i ELSE edges[s][l]
      /\ \A l \in Links : edges'[i][l] =
             IF l \notin b.links THEN NoEdge
             ELSE IF edges[i][l] \in Burned THEN edges[i][l]
             ELSE Resolve(mem', i, l)
  BY DEF SyncEdges
<1>8. TablesTypeOK'
  <2>1. mem' \in [Ids -> [version : 1..MaxVersion, body : Bodies] \cup {Absent}]
    BY <1>1, <1>2 DEF TablesTypeOK
  <2>2. revs' \in [Ids -> [1..MaxVersion -> Bodies \cup {NoBody}]]
    BY <1>1, <1>2 DEF TablesTypeOK
  <2>3. edges' \in [Ids -> [Links -> Ids \cup {Dangling, NoEdge}]]
    <3>1. edges' = [s \in Ids |-> [l \in Links |-> edges'[s][l]]]
      BY DEF SyncEdges
    <3>2. \A s \in Ids, l \in Links : edges'[s][l] \in Ids \cup {Dangling, NoEdge}
      <4>1. Live(mem) \subseteq Ids /\ Burned \subseteq Ids
        BY LiveIds DEF Burned
      <4>2. \A s \in Ids, l \in Links : edges[s][l] \in Ids \cup {Dangling, NoEdge}
        BY <1>1 DEF TablesTypeOK
      <4>3. \A s \in Ids \ {i}, l \in Links : edges'[s][l] \in Ids \cup {Dangling, NoEdge}
        BY <1>7, <4>2
      <4>4. \A l \in Links : edges'[i][l] \in Ids \cup {Dangling, NoEdge}
        <5> SUFFICES ASSUME NEW l \in Links
                     PROVE  edges'[i][l] \in Ids \cup {Dangling, NoEdge}
          OBVIOUS
        <5>1. edges'[i][l] \in {NoEdge} \cup Burned \cup {Resolve(mem', i, l)}
          BY <1>7
        <5>2. Resolve(mem', i, l) \in Live(mem) \cup {Dangling}
          BY <1>6
        <5> QED BY <4>1, <5>1, <5>2
      <4> QED BY <4>3, <4>4
    <3> QED BY <3>1, <3>2
  <2> QED BY <1>1, <1>2, <2>1, <2>2, <2>3 DEF TablesTypeOK
<1>9. HistoryIsComplete'
  <2>1. revs'[i] = [revs[i] EXCEPT ![n] = b] /\ \A j \in Ids \ {i} : revs'[j] = revs[j]
    BY <1>1, <1>2 DEF TablesTypeOK
  <2>2. \A v \in 1..MaxVersion : revs'[i][v] = IF v = n THEN b ELSE revs[i][v]
    BY <1>1, <2>1 DEF TablesTypeOK
  <2>3. \A v \in 1..MaxVersion : revs[i][v] # NoBody <=> v <= n - 1
    <3>1. mem[i].version \in 0..MaxVersion
      BY <1>1 DEF TablesTypeOK, Absent
    <3>2. mem[i].version = n - 1
      BY <3>1
    <3> QED BY <3>2 DEF HistoryIsComplete
  <2>4. \A v \in 1..MaxVersion : revs'[i][v] # NoBody <=> v <= n
    BY <2>2, <2>3, NoBodyIsNone
  <2>5. revs'[i][n] = b
    BY <2>2
  <2>6. \A j \in Ids \ {i} : j \in Live(mem') => j \in Live(mem)
    BY <1>4
  <2>7. \A j \in Ids \ {i} :
          /\ \A v \in 1..MaxVersion : revs'[j][v] # NoBody <=> v <= mem'[j].version
          /\ j \in Live(mem') => revs'[j][mem'[j].version] = mem'[j].body
    <3> SUFFICES ASSUME NEW j \in Ids \ {i}
                 PROVE  /\ \A v \in 1..MaxVersion : revs'[j][v] # NoBody <=> v <= mem'[j].version
                        /\ j \in Live(mem') => revs'[j][mem'[j].version] = mem'[j].body
      OBVIOUS
    <3>1. mem'[j] = mem[j] /\ revs'[j] = revs[j]
      BY <1>3, <2>1
    <3> QED BY <2>6, <3>1 DEF HistoryIsComplete
  <2>8. mem'[i].version = n /\ mem'[i].body = b
    BY <1>3
  <2> QED BY <2>4, <2>5, <2>7, <2>8 DEF HistoryIsComplete
<1>10. LiveOrBurned'
  BY <1>4, <1>5 DEF LiveOrBurned
<1>11. EdgesMirrorContent'
  <2> SUFFICES ASSUME NEW s \in Ids, NEW l \in Links
               PROVE  edges'[s][l] # NoEdge <=> s \in Live(mem') /\ l \in mem'[s].body.links
    BY DEF EdgesMirrorContent
  <2>1. NoEdge \notin Ids /\ NoEdge # Dangling /\ Burned \subseteq Ids
    BY DEF NoEdge, Dangling, Burned
  <2>2. CASE s = i
    <3>1. Live(mem) \subseteq Ids
      BY LiveIds
    <3>2. Resolve(mem', i, l) # NoEdge
      BY <1>6, <2>1, <3>1
    <3>3. edges'[i][l] # NoEdge <=> l \in b.links
      BY <1>7, <2>1, <3>2
    <3>4. mem'[i].body = b
      BY <1>3
    <3>5. i \in Live(mem')
      BY <1>4
    <3> QED BY <2>2, <3>3, <3>4, <3>5
  <2>3. CASE s # i
    <3>1. edges[s][l] # NoEdge <=> s \in Live(mem) /\ l \in mem[s].body.links
      BY DEF EdgesMirrorContent
    <3>2. edges'[s][l] # NoEdge <=> edges[s][l] # NoEdge
      BY <1>7, <2>1, <2>3 DEF Heals
    <3> QED BY <1>3, <1>4, <2>3, <3>1, <3>2
  <2> QED BY <2>2, <2>3
<1>12. EdgesHaveTargets'
  <2> SUFFICES ASSUME NEW s \in Ids, NEW l \in Links, edges'[s][l] \in Ids
               PROVE  edges'[s][l] \in (Live(mem') \cup Burned') \ {s}
    BY DEF EdgesHaveTargets
  <2>1. edges[s][l] \in Ids => edges[s][l] \in (Live(mem) \cup Burned) \ {s}
    BY DEF EdgesHaveTargets
  <2>2. CASE s = i
    <3>1. NoEdge \notin Ids /\ Dangling \notin Ids
      OBVIOUS
    <3>2. edges'[i][l] \in Burned \cup (Live(mem) \ {i})
      BY <1>6, <1>7, <2>2, <3>1
    <3> QED BY <1>4, <1>5, <2>2, <3>2
  <2>3. CASE s # i
    BY <1>4, <1>5, <1>7, <2>1, <2>3 DEF Heals
  <2> QED BY <2>2, <2>3
<1> QED BY <1>8, <1>9, <1>10, <1>11, <1>12

\* A transaction that writes writes the next version of an address not burned.
LEMMA InsertInv ==
  ASSUME TablesInv, NEW i \in Ids, NEW b \in Bodies, Insert(i, b)
  PROVE  TablesInv'
<1>1. i \notin Burned /\ mem[i].version = 0
  BY DEF Insert, TablesInv, TablesTypeOK, Live, Absent
<1> QED BY <1>1, WriteRowInv DEF Insert

LEMMA UpdateInv ==
  ASSUME TablesInv, NEW i \in Ids, NEW t, NEW b \in Bodies, NEW base, Update(i, t, b, base)
  PROVE  TablesInv'
<1>1. i \notin Burned
  BY DEF Update, TablesInv, LiveOrBurned
<1>2. mem[i].version + 1 \in 1..MaxVersion
  BY LiveRow DEF Update, TablesInv
<1> QED BY <1>1, <1>2, WriteRowInv DEF Update

\* So does a deletion.
LEMMA DeleteInv ==
  ASSUME TablesInv, NEW i \in Ids, Delete(i)
  PROVE  TablesInv'
<1> USE DEF TablesInv
<1>1. mem[i].version \in 1..MaxVersion
  BY LiveRow DEF Delete
<1>2. /\ mem' = [mem EXCEPT ![i] = Absent]
      /\ tomb' = [tomb EXCEPT ![i] = mem[i].version]
      /\ revs' = [revs EXCEPT ![i] = [v \in 1..MaxVersion |-> NoBody]]
      /\ edges' = [edges EXCEPT ![i] = [l \in Links |-> NoEdge]]
  BY DEF Delete
<1>3. TablesTypeOK'
  BY <1>1, <1>2 DEF TablesTypeOK
<1>4. mem'[i].version = 0 /\ \A j \in Ids \ {i} : mem'[j] = mem[j]
  BY <1>2 DEF TablesTypeOK, Absent
<1>5. Live(mem') = Live(mem) \ {i}
  BY <1>4 DEF Live
<1>6. Burned' = Burned \cup {i}
  BY <1>1, <1>2 DEF Burned, TablesTypeOK
<1>7. HistoryIsComplete'
  <2>1. \A v \in 1..MaxVersion : revs'[i][v] = NoBody
    BY <1>2 DEF TablesTypeOK
  <2>2. \A j \in Ids \ {i} : revs'[j] = revs[j]
    BY <1>2 DEF TablesTypeOK
  <2> QED BY <1>4, <1>5, <2>1, <2>2 DEF HistoryIsComplete
<1>8. LiveOrBurned'
  BY <1>5, <1>6 DEF LiveOrBurned
<1>9. \A s \in Ids, l \in Links : edges'[s][l] = IF s = i THEN NoEdge ELSE edges[s][l]
  BY <1>2 DEF TablesTypeOK
<1>10. EdgesMirrorContent'
  BY <1>4, <1>5, <1>9 DEF EdgesMirrorContent
<1>11. EdgesHaveTargets'
  <2>1. NoEdge \notin Ids
    OBVIOUS
  <2> QED BY <1>5, <1>6, <1>9, <2>1 DEF EdgesHaveTargets
<1> QED BY <1>3, <1>7, <1>8, <1>10, <1>11

\* So does a rebuild of the edges, whatever the order.
LEMMA RebuildInv ==
  ASSUME TablesInv, NEW c \in Clients, RebuildEdges(c)
  PROVE  TablesInv'
<1> USE DEF TablesInv
<1>1. PICK order \in [Ids -> 1..Cardinality(Ids)] :
        edges' = [s \in Ids |-> [l \in Links |->
                   IF s \in Live(mem) THEN Rebuilt(order, mem, s, l) ELSE NoEdge]]
  BY DEF RebuildEdges
<1>2. UNCHANGED <<mem, revs, tomb>>
  BY DEF RebuildEdges
<1>3. Live(mem) \subseteq Ids /\ NoEdge \notin Live(mem) /\ NoEdge \notin Ids /\ Dangling \notin Ids
  BY LiveIds
<1>4. \A s \in Ids, l \in Links :
        edges'[s][l] = IF s \in Live(mem) THEN Rebuilt(order, mem, s, l) ELSE NoEdge
  BY <1>1
<1>5. \A s \in Ids, l \in Links :
        /\ Rebuilt(order, mem, s, l) \in (Live(mem) \ {s}) \cup {Dangling, NoEdge}
        /\ Rebuilt(order, mem, s, l) # NoEdge <=> l \in mem[s].body.links
  BY <1>3, RebuiltType
<1>6. TablesTypeOK'
  <2>1. \A s \in Ids, l \in Links : edges'[s][l] \in Ids \cup {Dangling, NoEdge}
    BY <1>3, <1>4, <1>5
  <2>2. edges' = [s \in Ids |-> [l \in Links |-> edges'[s][l]]]
    BY <1>1
  <2>3. edges' \in [Ids -> [Links -> Ids \cup {Dangling, NoEdge}]]
    BY <2>1, <2>2
  <2> QED BY <1>2, <2>3 DEF TablesTypeOK
<1>7. HistoryIsComplete' /\ LiveOrBurned'
  BY <1>2 DEF HistoryIsComplete, LiveOrBurned, Burned, Live
<1>8. EdgesMirrorContent'
  BY <1>2, <1>4, <1>5 DEF EdgesMirrorContent
<1>9. EdgesHaveTargets'
  <2>1. \A s \in Ids, l \in Links : edges'[s][l] \in Ids => edges'[s][l] \in Live(mem) \ {s}
    BY <1>3, <1>4, <1>5
  <2>2. Live(mem') = Live(mem)
    BY <1>2
  <2> QED BY <2>1, <2>2 DEF EdgesHaveTargets
<1> QED BY <1>6, <1>7, <1>8, <1>9

\* What a step does to the tables: nothing, the next version of an address
\* that is not burned, a deletion, or a rebuild.
TablesKept == UNCHANGED tables
NextVersion(i, b) ==
  /\ i \notin Burned
  /\ \/ ~HasTitleConflict(mem, i, b.title)
     \/ i \in Live(mem) /\ b.title = mem[i].body.title
  /\ \E n \in 1..MaxVersion : n = mem[i].version + 1 /\ WriteRow(i, n, b)

LEMMA StepKinds ==
  ASSUME IInv, [Next]_vars
  PROVE  \/ TablesKept
         \/ \E i \in Ids, b \in Bodies : NextVersion(i, b)
         \/ \E i \in Ids : Delete(i)
         \/ \E c \in Clients : RebuildEdges(c)
<1> USE DEF IInv, TablesInv, CallsTypeOK
<1>1. CASE UNCHANGED vars
  BY <1>1 DEF vars, TablesKept
<1>2. ASSUME NEW i \in Ids, NEW b \in Bodies, Insert(i, b)  PROVE NextVersion(i, b)
  <2>1. i \notin Burned /\ mem[i].version = 0
    BY <1>2 DEF Insert, TablesTypeOK, Live, Absent
  <2>2. ~HasTitleConflict(mem, i, b.title) /\ WriteRow(i, 1, b)
    BY <1>2 DEF Insert
  <2>3. 1 = mem[i].version + 1 /\ 1 \in 1..MaxVersion
    BY <2>1
  <2> QED BY <2>1, <2>2, <2>3 DEF NextVersion
<1>3. ASSUME NEW i \in Ids, NEW t, NEW b \in Bodies, NEW base, Update(i, t, b, base),
             b.title = IF t = Keep THEN mem[i].body.title ELSE t
      PROVE  NextVersion(i, b)
  <2>1. i \notin Burned
    BY <1>3 DEF Update, LiveOrBurned
  <2>2. mem[i].version + 1 \in 1..MaxVersion
    BY <1>3, LiveRow DEF Update
  <2>3. /\ i \in Live(mem) /\ WriteRow(i, mem[i].version + 1, b)
        /\ t # Keep => ~HasTitleConflict(mem, i, t)
    BY <1>3 DEF Update
  <2>4. ~HasTitleConflict(mem, i, b.title) \/ b.title = mem[i].body.title
    <3>1. CASE t = Keep
      BY <1>3, <3>1
    <3>2. CASE t # Keep
      BY <1>3, <2>3, <3>2
    <3> QED BY <3>1, <3>2
  <2> QED BY <2>1, <2>2, <2>3, <2>4 DEF NextVersion
<1>4. ASSUME NEW c \in Clients, WriteMemory(c)
      PROVE  \E i \in Ids, b \in Bodies : NextVersion(i, b)
  BY <1>2, <1>4 DEF WriteMemory
<1>5. ASSUME NEW c \in Clients, UpdateTx(c)
      PROVE  \E i \in Ids, b \in Bodies : NextVersion(i, b)
  <2>1. at[c] \in Ids
    BY <1>5 DEF UpdateTx, PCs
  <2>2. PICK t \in Titles \cup {Keep}, b \in Bodies, base \in Bases(c) :
          /\ b.title = IF t = Keep THEN mem[at[c]].body.title ELSE t
          /\ Update(at[c], t, b, base)
    BY <1>5 DEF UpdateTx
  <2> QED BY <1>3, <2>1, <2>2
<1>6. ASSUME NEW c \in Clients, RestoreTx(c)
      PROVE  \E i \in Ids, b \in Bodies : NextVersion(i, b)
  <2>1. at[c] \in Ids /\ held[c] \in Bodies
    BY <1>6 DEF RestoreTx
  <2>2. Update(at[c], held[c].title, held[c], NoBase)
    BY <1>6 DEF RestoreTx
  <2>3. held[c].title # Keep
    <3>1. held[c].title \in Titles
      BY <2>1 DEF Bodies
    <3>2. held[c].title.form \in Forms
      BY <3>1 DEF Titles
    <3>3. NoId \notin Forms
      BY FormsAssumption DEF NoId, Plain, Upper, Accented, Wide
    <3> QED BY <3>2, <3>3 DEF Keep
  <2> QED BY <1>3, <2>1, <2>2, <2>3
<1>7. ASSUME NEW c \in Clients, DeleteTx(c)  PROVE \E i \in Ids : Delete(i)
  BY <1>7 DEF DeleteTx
<1>8. ASSUME NEW c \in Clients,
             \/ \E i \in Ids : Read(c, i)
             \/ UpdateMemory(c) \/ UpdateRefused(c)
             \/ RestoreRevision(c) \/ FetchRevision(c) \/ NoRevision(c) \/ RestoreRefused(c)
             \/ DeleteMemory(c) \/ CountLinks(c) \/ HasInboundLinks(c) \/ DeleteRefused(c)
      PROVE  TablesKept
  BY <1>8 DEF TablesKept, Read, UpdateMemory, UpdateRefused, RestoreRevision, FetchRevision,
              NoRevision, RestoreRefused, DeleteMemory, CountLinks, HasInboundLinks,
              DeleteRefused, Begin
<1> QED BY <1>1, <1>4, <1>5, <1>6, <1>7, <1>8 DEF Next, CallStep

\* What a step does to the calls keeps their types.
LEMMA CallsInv ==
  ASSUME IInv, [Next]_vars
  PROVE  CallsTypeOK'
<1> USE DEF IInv, TablesInv, CallsTypeOK
<1>1. CASE UNCHANGED vars
  BY <1>1 DEF vars, calls
<1>2. ASSUME NEW c \in Clients, Return(c)  PROVE CallsTypeOK'
  BY <1>2 DEF Return, PCs
<1>3. ASSUME NEW c \in Clients, NEW i \in Ids, Read(c, i)  PROVE CallsTypeOK'
  <2>1. mem[i].version \in 0..MaxVersion /\ mem[i].body \in Bodies \cup {NoBody}
    BY <1>3, LiveRow DEF Read, Granted
  <2>2. [id |-> i, version |-> mem[i].version, body |-> mem[i].body] \in Reads
    BY <2>1 DEF Reads
  <2> QED BY <1>3, <2>2 DEF Read, calls
<1>4. ASSUME NEW c \in Clients, NEW i \in Ids, NEW next \in PCs \ {"restore"}, Begin(c, i, next)
      PROVE  CallsTypeOK'
  BY <1>4 DEF Begin, Step
<1>5. ASSUME NEW c \in Clients, UpdateMemory(c) \/ RestoreRevision(c) \/ DeleteMemory(c)
      PROVE  CallsTypeOK'
  BY <1>4, <1>5 DEF UpdateMemory, RestoreRevision, DeleteMemory, PCs
<1>6. ASSUME NEW c \in Clients, FetchRevision(c)  PROVE CallsTypeOK'
  <2>1. pc[c] = "revision" /\ pc' = [pc EXCEPT ![c] = "restore"] /\ UNCHANGED <<at, seen>>
    BY <1>6 DEF FetchRevision, Step
  <2>2. at[c] \in Ids
    BY <2>1
  <2>3. PICK v \in 1..MaxVersion :
          revs[at[c]][v] # NoBody /\ held' = [held EXCEPT ![c] = revs[at[c]][v]]
    BY <1>6 DEF FetchRevision
  <2>4. revs[at[c]][v] \in Bodies
    BY <2>2, <2>3 DEF TablesTypeOK
  <2> QED BY <2>1, <2>2, <2>3, <2>4 DEF PCs
<1>7. ASSUME NEW c \in Clients, CountLinks(c)  PROVE CallsTypeOK'
  BY <1>7 DEF CountLinks, Step, PCs
<1>8. ASSUME NEW c \in Clients, WriteMemory(c) \/ RebuildEdges(c)  PROVE CallsTypeOK'
  BY <1>8 DEF WriteMemory, RebuildEdges, calls
<1>9. ASSUME NEW c \in Clients,
             \/ UpdateTx(c) \/ UpdateRefused(c) \/ NoRevision(c) \/ RestoreTx(c) \/ RestoreRefused(c)
             \/ HasInboundLinks(c) \/ DeleteTx(c) \/ DeleteRefused(c)
      PROVE  CallsTypeOK'
  BY <1>2, <1>9 DEF UpdateTx, UpdateRefused, NoRevision, RestoreTx, RestoreRefused,
                    HasInboundLinks, DeleteTx, DeleteRefused
<1> QED BY <1>1, <1>3, <1>5, <1>6, <1>7, <1>8, <1>9 DEF Next, CallStep

\* The invariant holds at the start and is kept by every step.
LEMMA InitInv == Init => IInv
<1> SUFFICES ASSUME Init PROVE IInv
  OBVIOUS
<1>1. Live(mem) = {} /\ Burned = {}
  BY DEF Init, Live, Burned, Absent
<1>2. NoEdge \notin Ids
  OBVIOUS
<1>3. TablesTypeOK
  BY DEF Init, TablesTypeOK
<1>4. HistoryIsComplete
  BY <1>1 DEF Init, HistoryIsComplete, Absent
<1>5. EdgesMirrorContent /\ EdgesHaveTargets /\ LiveOrBurned
  BY <1>1, <1>2 DEF Init, EdgesMirrorContent, EdgesHaveTargets, LiveOrBurned
<1>6. CallsTypeOK
  BY DEF Init, CallsTypeOK, Reads, PCs
<1> QED BY <1>3, <1>4, <1>5, <1>6 DEF IInv, TablesInv

LEMMA NextInv == IInv /\ [Next]_vars => IInv'
<1> SUFFICES ASSUME IInv, [Next]_vars PROVE IInv'
  OBVIOUS
<1>1. ASSUME TablesKept  PROVE TablesInv'
  BY <1>1 DEF TablesKept, tables, IInv, TablesInv, TablesTypeOK, HistoryIsComplete,
              LiveOrBurned, EdgesMirrorContent, EdgesHaveTargets, Live, Burned
<1>2. ASSUME NEW i \in Ids, NEW b \in Bodies, NextVersion(i, b)  PROVE TablesInv'
  BY <1>2, WriteRowInv DEF NextVersion, IInv
<1>3. TablesInv'
  BY <1>1, <1>2, DeleteInv, RebuildInv, StepKinds, CallsInv DEF IInv
<1> QED BY <1>3, CallsInv DEF IInv

\* IInv is an invariant of the corpus.
THEOREM Invariance == Spec => []IInv
BY InitInv, NextInv, PTL DEF Spec
\* Every state has the shapes of the schema and the code.
THEOREM TypeCorrect == Spec => []TypeOK
<1>1. IInv => TypeOK
  BY DEF IInv, TablesInv, TypeOK
<1> QED BY <1>1, Invariance, PTL

\* Every live memory has its complete history, no other address has any, and
\* no address is both live and deleted.
THEOREM HistoryIsKept == Spec => [](HistoryIsComplete /\ LiveOrBurned)
<1>1. IInv => HistoryIsComplete /\ LiveOrBurned
  BY DEF IInv, TablesInv
<1> QED BY <1>1, Invariance, PTL

\* The edges are those of the current contents and point at memories.
THEOREM EdgesAreExact == Spec => [](EdgesMirrorContent /\ EdgesHaveTargets)
<1>1. IInv => EdgesMirrorContent /\ EdgesHaveTargets
  BY DEF IInv, TablesInv
<1> QED BY <1>1, Invariance, PTL

\* Deletion is for ever.
THEOREM DeletionIsFinal == Spec => BurnedForever
<1> DEFINE Kept == \A i \in Burned : tomb'[i] = tomb[i] /\ mem'[i] = Absent
<1>1. ASSUME IInv, [Next]_vars  PROVE Kept
  <2>1. TablesTypeOK /\ LiveOrBurned /\ Burned \subseteq Ids
    BY <1>1 DEF IInv, TablesInv, Burned
  <2>2. \A i \in Burned : mem[i] = Absent
    BY <2>1 DEF LiveOrBurned, TablesTypeOK, Live
  <2>3. ASSUME UNCHANGED <<mem, tomb>>  PROVE Kept
    BY <2>2, <2>3
  <2>4. ASSUME NEW i \in Ids, NEW b \in Bodies, NextVersion(i, b)  PROVE Kept
    BY <2>1, <2>2, <2>4 DEF NextVersion, WriteRow, TablesTypeOK
  <2>5. ASSUME NEW i \in Ids, Delete(i)  PROVE Kept
    BY <2>1, <2>2, <2>5 DEF Delete, LiveOrBurned, TablesTypeOK
  <2> QED BY <1>1, <2>3, <2>4, <2>5, StepKinds DEF TablesKept, tables, RebuildEdges
<1>2. IInv /\ [Next]_vars => [Kept]_vars
  BY <1>1
<1> QED BY <1>2, Invariance, PTL DEF Spec, BurnedForever

\* A link bound to a deleted memory stays bound, rebuilds aside.
THEOREM TombstonesKeepTheirLinks == Spec => TombstoneBound
<1> DEFINE Kept == KeepsTombstones \/ \E c \in Clients : RebuildEdges(c)
<1>1. ASSUME IInv, [Next]_vars  PROVE Kept
  <2>1. TablesTypeOK /\ Burned \subseteq Ids /\ Live(mem) \subseteq Ids /\ Dangling \notin Ids
    BY <1>1, LiveIds DEF IInv, TablesInv, Burned
  <2>2. ASSUME UNCHANGED tables  PROVE KeepsTombstones
    BY <2>2 DEF tables, KeepsTombstones
  <2>3. ASSUME NEW i \in Ids, NEW b \in Bodies, NextVersion(i, b)  PROVE KeepsTombstones
    <3> SUFFICES ASSUME NEW s \in Live(mem), NEW l \in Links,
                        edges[s][l] \in Burned, l \in mem'[s].body.links
                 PROVE  edges'[s][l] = edges[s][l]
      BY DEF KeepsTombstones
    <3>1. SyncEdges(i, b) /\ mem' = [mem EXCEPT ![i] = [version |-> mem[i].version + 1, body |-> b]]
      BY <2>3 DEF NextVersion, WriteRow
    <3>2. CASE s = i
      <4>1. mem'[i].body = b
        BY <2>1, <3>1 DEF TablesTypeOK
      <4> QED BY <3>1, <3>2, <4>1 DEF SyncEdges
    <3>3. CASE s # i
      <4>1. ~Heals(i, b.title, s, l)
        BY <2>1 DEF Heals
      <4> QED BY <2>1, <3>1, <3>3, <4>1 DEF SyncEdges
    <3> QED BY <3>2, <3>3
  <2>4. ASSUME NEW i \in Ids, Delete(i)  PROVE KeepsTombstones
    <3>1. i \notin Live(mem')
      BY <2>1, <2>4 DEF Delete, TablesTypeOK, Live, Absent
    <3>2. \A s \in Ids \ {i} : edges'[s] = edges[s]
      BY <2>1, <2>4 DEF Delete, TablesTypeOK
    <3> QED BY <2>1, <3>1, <3>2 DEF KeepsTombstones
  <2> QED BY <1>1, <2>2, <2>3, <2>4, StepKinds DEF TablesKept
<1>2. IInv /\ [Next]_vars => [Kept]_vars
  BY <1>1
<1> QED BY <1>2, Invariance, PTL DEF Spec, TombstoneBound
-----------------------------------------------------------------------------
(* Titles and links, however titles are spelled. *)

\* What SQL folds, normalizeLink folds too.
LEMMA SqlFoldsLess ==
  ASSUME NEW t, NEW l, SqlKey(t) = Raw(l)
  PROVE  LinkKey(t) = Raw(l)
BY DEF SqlKey, LinkKey, Fold, Raw, Plain, Upper, Accented, Wide

\* A link no query resolves has no live memory a query would find.
LEMMA ResolveFails ==
  ASSUME NEW m, NEW s, NEW l, Dangling \notin Live(m), Resolve(m, s, l) = Dangling
  PROVE  \A i \in Live(m) \ {s} : SqlKey(m[i].body.title) # Raw(l)
<1>1. {i \in Live(m) \ {s} : SqlKey(m[i].body.title) = Raw(l)} = {}
  BY DEF Resolve
<1> QED BY <1>1

\* Of two live memories one at least has a title that titleConflict lets stand
\* beside the other's, and no link dangles that the query of a link would resolve:
\* through writes, renames, restores, deletions and rebuilds, of titles spelled in
\* whatever way (titleConflict, syncEdges, RebuildEdges).
THEOREM LinksResolve == Spec => [](TitlesAreUnique /\ NoMissedHeal)
<1> DEFINE Inv == TitlesAreUnique /\ NoMissedHeal
<1>1. ASSUME Init  PROVE Inv
  BY <1>1 DEF Init, TitlesAreUnique, NoMissedHeal, Live, Absent
<1>2. ASSUME IInv, IInv', Inv, [Next]_vars  PROVE Inv'
  <2>1. /\ TablesTypeOK /\ TablesTypeOK' /\ Live(mem) \subseteq Ids /\ Live(mem') \subseteq Ids
        /\ Dangling \notin Ids /\ NoEdge \notin Ids
    BY <1>2, LiveIds DEF IInv, TablesInv
  <2>3. ASSUME UNCHANGED <<mem, edges>>  PROVE Inv'
    BY <1>2, <2>3 DEF TitlesAreUnique, NoMissedHeal, Live
  <2>4. ASSUME NEW i \in Ids, NEW b \in Bodies, NextVersion(i, b)  PROVE Inv'
    <3>1. PICK n \in 1..MaxVersion : WriteRow(i, n, b)
      BY <2>4 DEF NextVersion
    <3>2. /\ mem'[i].body = b /\ mem'[i].version = n
          /\ \A j \in Ids \ {i} : mem'[j] = mem[j]
      BY <2>1, <3>1 DEF WriteRow, TablesTypeOK
    <3>3. Live(mem') = Live(mem) \cup {i}
      BY <3>2 DEF Live
    <3>4. \A j \in Live(mem) \ {i} :
            ~(SqlKey(mem[j].body.title) = GoKey(b.title) /\ SqlKey(b.title) = GoKey(mem[j].body.title))
      <4>1. CASE ~HasTitleConflict(mem, i, b.title)
        BY <4>1 DEF HasTitleConflict
      <4>2. CASE i \in Live(mem) /\ b.title = mem[i].body.title
        BY <1>2, <4>2 DEF TitlesAreUnique
      <4> QED BY <2>4, <4>1, <4>2 DEF NextVersion
    <3>5. TitlesAreUnique'
      <4> SUFFICES ASSUME NEW j \in Live(mem'), NEW k \in Live(mem'), j # k
                   PROVE  ~ /\ SqlKey(mem'[j].body.title) = GoKey(mem'[k].body.title)
                            /\ SqlKey(mem'[k].body.title) = GoKey(mem'[j].body.title)
        BY DEF TitlesAreUnique
      <4>1. CASE j = i
        BY <2>1, <3>2, <3>3, <3>4, <4>1
      <4>2. CASE k = i
        BY <2>1, <3>2, <3>3, <3>4, <4>2
      <4>3. CASE j # i /\ k # i
        BY <1>2, <2>1, <3>2, <3>3, <4>3 DEF TitlesAreUnique
      <4> QED BY <4>1, <4>2, <4>3
    <3>6. NoMissedHeal'
      <4> SUFFICES ASSUME NEW s \in Live(mem'), NEW l \in Links, edges'[s][l] = Dangling,
                          NEW j \in Live(mem') \ {s}
                   PROVE  SqlKey(mem'[j].body.title) # Raw(l)
        BY DEF NoMissedHeal
      <4>1. CASE s = i
        <5>1. edges'[i][l] = IF l \notin b.links THEN NoEdge
                             ELSE IF edges[i][l] \in Burned THEN edges[i][l]
                             ELSE Resolve(mem', i, l)
          BY <3>1 DEF WriteRow, SyncEdges
        <5>2. Resolve(mem', i, l) = Dangling
          BY <2>1, <4>1, <5>1 DEF Burned, NoEdge, Dangling
        <5>3. Dangling \notin Live(mem')
          BY <2>1
        <5> QED BY <4>1, <5>2, <5>3, ResolveFails
      <4>2. CASE s # i
        <5>1. edges'[s][l] = IF Heals(i, b.title, s, l) THEN i ELSE edges[s][l]
          BY <2>1, <3>1, <4>2 DEF WriteRow, SyncEdges
        <5>2. edges[s][l] = Dangling /\ ~Heals(i, b.title, s, l)
          BY <2>1, <5>1
        <5>3. SqlKey(b.title) # Raw(l)
          BY <4>2, <5>2, SqlFoldsLess DEF Heals
        <5>4. CASE j = i
          BY <3>2, <5>3, <5>4
        <5>5. CASE j # i
          BY <1>2, <2>1, <3>2, <3>3, <4>2, <5>2, <5>5 DEF NoMissedHeal
        <5> QED BY <5>4, <5>5
      <4> QED BY <4>1, <4>2
    <3> QED BY <3>5, <3>6
  <2>5. ASSUME NEW i \in Ids, Delete(i)  PROVE Inv'
    <3>1. mem'[i].version = 0 /\ \A j \in Ids \ {i} : mem'[j] = mem[j] /\ edges'[j] = edges[j]
      BY <2>1, <2>5 DEF Delete, TablesTypeOK, Absent
    <3>2. Live(mem') = Live(mem) \ {i}
      BY <3>1 DEF Live
    <3> QED BY <1>2, <2>1, <3>1, <3>2 DEF TitlesAreUnique, NoMissedHeal
  <2>6. ASSUME NEW c \in Clients, RebuildEdges(c)  PROVE Inv'
    <3>1. UNCHANGED mem
      BY <2>6 DEF RebuildEdges
    <3>2. TitlesAreUnique'
      BY <1>2, <3>1 DEF TitlesAreUnique, Live
    <3>3. PICK order \in [Ids -> 1..Cardinality(Ids)] :
            edges' = [s \in Ids |-> [l \in Links |->
                       IF s \in Live(mem) THEN Rebuilt(order, mem, s, l) ELSE NoEdge]]
      BY <2>6 DEF RebuildEdges
    <3>4. ASSUME NEW s \in Live(mem), NEW l \in Links, edges'[s][l] = Dangling
          PROVE  Resolve(mem, s, l) = Dangling
      <4>1. Rebuilt(order, mem, s, l) = Dangling
        BY <2>1, <3>3, <3>4
      <4> DEFINE H == FirstAfter(order, mem, s, l)
      <4>2. H # {} => (CHOOSE i \in H : TRUE) \in Ids
        BY <2>1 DEF FirstAfter, Matching
      <4>3. NoEdge # Dangling
        BY DEF NoEdge, Dangling
      <4> QED BY <2>1, <4>1, <4>2, <4>3 DEF Rebuilt
    <3>5. NoMissedHeal'
      BY <2>1, <3>1, <3>4, ResolveFails DEF NoMissedHeal
    <3> QED BY <3>2, <3>5
  <2> QED BY <1>2, <2>3, <2>4, <2>5, <2>6, StepKinds DEF TablesKept, tables
<1>3. IInv /\ Inv /\ [Next]_vars => Inv'
  BY <1>2, NextInv
<1> HIDE DEF Inv
<1>4. Init => Inv
  BY <1>1
<1>5. Spec => []Inv
  BY <1>3, <1>4, Invariance, PTL DEF Spec
<1> QED BY <1>5 DEF Inv

\* What a client has read, of a memory that is still there, is its text as long as
\* the version is the one it read, which is never ahead.
SeenTells(c) ==
  seen[c].id = NoId \/
    LET i == seen[c].id IN
    /\ i \in Live(mem) \cup Burned /\ seen[c].version \in 1..MaxVersion
    /\ i \in Live(mem) =>
         /\ seen[c].version <= mem[i].version
         /\ seen[c].version = mem[i].version => seen[c].body = mem[i].body

LEMMA SeenInv ==
  ASSUME IInv, \A c \in Clients : SeenTells(c), [Next]_vars
  PROVE  \A c \in Clients : SeenTells(c)'
<1>1. TablesTypeOK /\ LiveOrBurned /\ seen \in [Clients -> Reads] /\ Live(mem) \subseteq Ids
  BY LiveIds DEF IInv, TablesInv, CallsTypeOK
<1>2. CASE \E c \in Clients, i \in Ids : Read(c, i)
  <2>1. PICK c \in Clients, i \in Ids : Read(c, i)
    BY <1>2
  <2>2. /\ UNCHANGED <<mem, tomb>> /\ i \in Live(mem)
        /\ seen' = [seen EXCEPT ![c] = [id |-> i, version |-> mem[i].version,
                                        body |-> mem[i].body]]
    BY <2>1 DEF Read, tables, Granted
  <2>3. mem[i].version \in 1..MaxVersion
    BY <1>1, <2>2, LiveRow
  <2>4. SeenTells(c)'
    BY <1>1, <2>2, <2>3 DEF SeenTells, Burned
  <2>5. \A d \in Clients \ {c} : SeenTells(d)'
    BY <1>1, <2>2 DEF SeenTells, Burned
  <2> QED BY <2>4, <2>5
<1>3. CASE seen' = seen
  <2>1. ASSUME UNCHANGED <<mem, tomb>>  PROVE \A c \in Clients : SeenTells(c)'
    BY <1>3, <2>1 DEF SeenTells, Burned
  <2>2. ASSUME NEW i \in Ids, NEW b \in Bodies, NextVersion(i, b), NEW c \in Clients
        PROVE  SeenTells(c)'
    <3>1. PICK n \in 1..MaxVersion : n = mem[i].version + 1 /\ WriteRow(i, n, b)
      BY <2>2 DEF NextVersion
    <3>2. /\ mem'[i].version = n /\ \A j \in Ids \ {i} : mem'[j] = mem[j]
      BY <1>1, <3>1 DEF WriteRow, TablesTypeOK
    <3>3. Live(mem') = Live(mem) \cup {i} /\ Burned' = Burned
      BY <3>1, <3>2 DEF Live, WriteRow, Burned
    <3>4. i \notin Burned
      BY <2>2 DEF NextVersion
    <3>5. mem[i].version \in 0..MaxVersion
      BY <1>1 DEF TablesTypeOK, Absent
    <3>6. CASE seen[c].id = i
      <4>1. i \in Live(mem) /\ seen[c].version <= mem[i].version
            /\ seen[c].version \in 1..MaxVersion
        BY <1>1, <3>4, <3>6 DEF SeenTells
      <4>2. seen[c].version <= n /\ seen[c].version # n
        BY <3>1, <3>5, <4>1
      <4> QED BY <1>3, <3>2, <3>3, <3>6, <4>1, <4>2 DEF SeenTells
    <3>7. CASE seen[c].id # i
      <4>1. seen[c].id \in Live(mem) => mem'[seen[c].id] = mem[seen[c].id]
        BY <1>1, <3>2, <3>7
      <4> QED BY <1>3, <3>3, <3>7, <4>1 DEF SeenTells
    <3> QED BY <3>6, <3>7
  <2>3. ASSUME NEW i \in Ids, Delete(i), NEW c \in Clients  PROVE SeenTells(c)'
    <3>1. mem[i].version \in 1..MaxVersion
      BY <1>1, <2>3, LiveRow DEF Delete
    <3>2. mem'[i].version = 0 /\ \A j \in Ids \ {i} : mem'[j] = mem[j]
      BY <1>1, <2>3 DEF Delete, TablesTypeOK, Absent
    <3>3. Live(mem') = Live(mem) \ {i} /\ Burned' = Burned \cup {i}
      BY <1>1, <2>3, <3>1, <3>2 DEF Delete, Live, Burned, TablesTypeOK
    <3> QED BY <1>1, <1>3, <3>2, <3>3 DEF SeenTells
  <2> QED BY <2>1, <2>2, <2>3, StepKinds DEF TablesKept, tables, RebuildEdges
<1>4. (\E c \in Clients, i \in Ids : Read(c, i)) \/ seen' = seen
  <2>1. CASE UNCHANGED vars
    BY <2>1 DEF vars
  <2>2. CASE Next
    BY <2>2 DEF Next, CallStep, WriteMemory, UpdateMemory, UpdateTx, UpdateRefused, RestoreRevision,
                FetchRevision, NoRevision, RestoreTx, RestoreRefused, DeleteMemory, CountLinks,
                HasInboundLinks, DeleteTx, DeleteRefused, RebuildEdges, Begin, Return
  <2> QED BY <2>1, <2>2
<1> QED BY <1>2, <1>3, <1>4

\* An edit that gives the version its writer read replaces the text its writer
\* read (the WHERE version = ? of MemoryDB.Update), for any number of clients,
\* though the memory be edited, deleted or restored in between.
THEOREM NoEditIsLost == Spec => NoLostUpdate
<1> DEFINE Inv == \A c \in Clients : SeenTells(c)
           Kept == \A c \in Clients : EditsWithBase(c) => mem[at[c]].body = seen[c].body
<1>1. ASSUME Init  PROVE Inv
  BY <1>1 DEF Init, SeenTells
<1>2. ASSUME IInv, Inv  PROVE Kept
  <2> SUFFICES ASSUME NEW c \in Clients, EditsWithBase(c)
               PROVE  mem[at[c]].body = seen[c].body
    OBVIOUS
  <2>1. pc[c] = "update" /\ seen[c].id = at[c]
    BY DEF EditsWithBase
  <2>2. at[c] \in Ids
    BY <1>2, <2>1 DEF IInv, CallsTypeOK
  <2>3. at[c] \in Live(mem) /\ CasHolds(at[c], seen[c].version)
    BY DEF EditsWithBase, Update
  <2>4. seen[c].id # NoId
    BY <2>1, <2>2
  <2>5. /\ seen[c].version \in 1..MaxVersion
        /\ seen[c].version = mem[at[c]].version => seen[c].body = mem[at[c]].body
    BY <1>2, <2>1, <2>3, <2>4 DEF SeenTells
  <2> QED BY <2>3, <2>5 DEF CasHolds, NoBase
<1>3. ASSUME IInv, Inv, [Next]_vars  PROVE Inv'
  BY <1>3, SeenInv
<1>4. Spec => []Inv
  <2> HIDE DEF Inv
  <2>1. Init => Inv
    BY <1>1
  <2>2. IInv /\ Inv /\ [Next]_vars => Inv'
    BY <1>3
  <2> QED BY <2>1, <2>2, Invariance, PTL DEF Spec
<1>5. IInv /\ Inv => [Kept]_vars
  BY <1>2
<1> HIDE DEF Inv
<1> QED BY <1>4, <1>5, Invariance, PTL DEF Spec, NoLostUpdate

\* A deletion takes the whole history with it and says how long it was.
THEOREM TombstonesTellHistory == Spec => TombstoneTellsHistory
<1> DEFINE Told == \A i \in Live(mem) \ Live(mem') :
      tomb'[i] > 0 /\ \A v \in 1..MaxVersion : revs[i][v] # NoBody <=> v <= tomb'[i]
<1>1. ASSUME IInv, [Next]_vars  PROVE Told
  <2>1. TablesTypeOK /\ HistoryIsComplete /\ Live(mem) \subseteq Ids
    BY <1>1, LiveIds DEF IInv, TablesInv
  <2>2. ASSUME UNCHANGED mem  PROVE Told
    BY <2>2
  <2>3. ASSUME NEW i \in Ids, NEW b \in Bodies, NextVersion(i, b)  PROVE Told
    <3>1. PICK n \in 1..MaxVersion : WriteRow(i, n, b)
      BY <2>3 DEF NextVersion
    <3>2. Live(mem) \subseteq Live(mem')
      BY <2>1, <3>1 DEF WriteRow, TablesTypeOK, Live
    <3> QED BY <3>2
  <2>4. ASSUME NEW i \in Ids, Delete(i)  PROVE Told
    <3>1. i \in Live(mem) /\ tomb'[i] = mem[i].version /\ mem[i].version > 0
      BY <2>1, <2>4 DEF Delete, TablesTypeOK, Live
    <3>2. \A j \in Ids \ {i} : mem'[j] = mem[j]
      BY <2>1, <2>4 DEF Delete, TablesTypeOK
    <3>3. \A j \in Live(mem) \ {i} : j \in Live(mem')
      BY <2>1, <3>2 DEF Live
    <3>4. \A v \in 1..MaxVersion : revs[i][v] # NoBody <=> v <= mem[i].version
      BY <2>1, <3>1 DEF HistoryIsComplete
    <3> QED BY <3>1, <3>3, <3>4
  <2> QED BY <1>1, <2>2, <2>3, <2>4, StepKinds DEF TablesKept, tables, RebuildEdges
<1>2. IInv /\ [Next]_vars => [Told]_vars
  BY <1>1
<1> QED BY <1>2, Invariance, PTL DEF Spec, TombstoneTellsHistory

\* A new version extends the history of its address and no other.
LEMMA VersionMaps ==
  ASSUME TablesInv, NEW i \in Ids, NEW b \in Bodies, NextVersion(i, b)
  PROVE  Store!Next
<1>1. TablesTypeOK
  BY DEF TablesInv
<1>2. PICK n \in 1..MaxVersion : n = mem[i].version + 1 /\ WriteRow(i, n, b)
  BY DEF NextVersion
<1>3. /\ mem' = [mem EXCEPT ![i] = [version |-> n, body |-> b]]
      /\ revs' = [revs EXCEPT ![i][n] = b]
      /\ tomb' = tomb
  BY <1>2 DEF WriteRow
<1>4. /\ mem'[i].version = n
      /\ \A j \in Ids \ {i} : mem'[j] = mem[j] /\ revs'[j] = revs[j]
      /\ revs'[i] = [revs[i] EXCEPT ![n] = b]
  BY <1>1, <1>3 DEF TablesTypeOK
<1>5. mem[i].version \in 0..MaxVersion /\ mem[i].version = n - 1
  <2>1. mem[i].version \in 0..MaxVersion
    BY <1>1 DEF TablesTypeOK, Absent
  <2> QED BY <1>2, <2>1
<1> DEFINE L == [j \in Ids |-> mem[j].version]
           H == [j \in Ids |-> [v \in 1..mem[j].version |-> revs[j][v]]]
<1>6. [j \in Ids |-> mem'[j].version] = [L EXCEPT ![i] = n]
  BY <1>4
<1>7. [v \in 1..n |-> revs'[i][v]] = [v \in 1..n |-> IF v = n THEN b ELSE H[i][v]]
  <2>1. \A v \in 1..MaxVersion : revs'[i][v] = IF v = n THEN b ELSE revs[i][v]
    BY <1>1, <1>4 DEF TablesTypeOK
  <2>2. \A v \in 1..n : v # n => v \in 1..mem[i].version
    BY <1>5
  <2>3. \A v \in 1..n : revs'[i][v] = IF v = n THEN b ELSE H[i][v]
    BY <2>1, <2>2
  <2> QED BY <2>3
<1>8. [j \in Ids |-> [v \in 1..mem'[j].version |-> revs'[j][v]]]
        = [H EXCEPT ![i] = [v \in 1..n |-> IF v = n THEN b ELSE H[i][v]]]
  <2>1. \A j \in Ids \ {i} : [v \in 1..mem'[j].version |-> revs'[j][v]] = H[j]
    BY <1>4
  <2>2. [v \in 1..mem'[i].version |-> revs'[i][v]]
          = [v \in 1..n |-> IF v = n THEN b ELSE H[i][v]]
    BY <1>4, <1>7
  <2> QED BY <2>1, <2>2
<1>9. Burned' = Burned
  BY <1>3 DEF Burned
<1>10. Store!Extend(i, n, b)
  BY <1>6, <1>8, <1>9 DEF Store!Extend
<1>11. i \notin Burned
  BY DEF NextVersion
<1>12. L[i] = n - 1
  BY <1>5
<1>13. CASE n = 1
  <2>1. Store!Create(i)
    BY <1>10, <1>11, <1>12, <1>13 DEF Store!Create
  <2> QED BY <2>1 DEF Store!Next
<1>14. CASE n > 1
  <2>1. L[i] > 0 /\ n = L[i] + 1
    BY <1>12, <1>14
  <2>2. n \in {L[i] + 1}
    BY <2>1
  <2>3. Store!Append(i)
    BY <1>10, <1>11, <2>1, <2>2 DEF Store!Append
  <2> QED BY <2>3 DEF Store!Next
<1> QED BY <1>13, <1>14

\* A deletion burns its address.
LEMMA DeletionMaps ==
  ASSUME TablesInv, NEW i \in Ids, Delete(i)
  PROVE  Store!Next
<1>1. TablesTypeOK
  BY DEF TablesInv
<1>2. mem[i].version > 0 /\ mem[i].version \in 1..MaxVersion
  BY <1>1, LiveRow DEF Delete, Live
<1>3. /\ mem' = [mem EXCEPT ![i] = Absent]
      /\ revs' = [revs EXCEPT ![i] = [v \in 1..MaxVersion |-> NoBody]]
      /\ tomb' = [tomb EXCEPT ![i] = mem[i].version]
  BY DEF Delete
<1>4. /\ mem'[i].version = 0
      /\ \A j \in Ids \ {i} : mem'[j] = mem[j] /\ revs'[j] = revs[j]
  BY <1>1, <1>3 DEF TablesTypeOK, Absent
<1> DEFINE L == [j \in Ids |-> mem[j].version]
           H == [j \in Ids |-> [v \in 1..mem[j].version |-> revs[j][v]]]
<1>5. [j \in Ids |-> mem'[j].version] = [L EXCEPT ![i] = 0]
  BY <1>4
<1>6. [j \in Ids |-> [v \in 1..mem'[j].version |-> revs'[j][v]]]
        = [H EXCEPT ![i] = [v \in 1..0 |-> v]]
  <2>1. \A j \in Ids \ {i} : [v \in 1..mem'[j].version |-> revs'[j][v]] = H[j]
    BY <1>4
  <2>2. [v \in 1..mem'[i].version |-> revs'[i][v]] = [v \in 1..0 |-> v]
    BY <1>4
  <2> QED BY <2>1, <2>2
<1>7. Burned' = Burned \cup {i}
  BY <1>1, <1>2, <1>3 DEF Burned, TablesTypeOK
<1>8. Store!Burn(i)
  BY <1>2, <1>5, <1>6, <1>7 DEF Store!Burn
<1> QED BY <1>8 DEF Store!Next

\* Each address of the corpus implements VersionedStore.
THEOREM Implements == Spec => StoreSpec
<1>1. Init => Store!Init
  <2> SUFFICES ASSUME Init PROVE Store!Init
    OBVIOUS
  <2>1. Burned = {} /\ \A i \in Ids : mem[i].version = 0
    BY DEF Init, Burned, Absent
  <2>2. \A i \in Ids : [v \in 1..mem[i].version |-> revs[i][v]] = [v \in 1..0 |-> v]
    BY <2>1
  <2> QED BY <2>1, <2>2 DEF Store!Init
<1>2. ASSUME IInv, [Next]_vars  PROVE [Store!Next]_(Store!vars)
  <2>1. ASSUME UNCHANGED <<mem, revs, tomb>>  PROVE UNCHANGED Store!vars
    BY <2>1 DEF Store!vars, Burned
  <2> QED BY <1>2, <2>1, VersionMaps, DeletionMaps, StepKinds
          DEF IInv, TablesKept, tables, RebuildEdges
<1>3. IInv /\ [Next]_vars => [Store!Next]_(Store!vars)
  BY <1>2
<1> QED BY <1>1, <1>3, Invariance, PTL DEF Spec, StoreSpec, Store!Spec
===============================================================================
