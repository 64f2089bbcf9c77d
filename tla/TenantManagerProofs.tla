------------------------- MODULE TenantManagerProofs -------------------------
(***************************************************************************)
(* Proofs about TenantManager for any set of paths, any finite set of      *)
(* threads and any budget: the inductive invariant IInv, the promise of    *)
(* Acquire, the bound on the budget's overshoot, and the implementation of *)
(* HandleLease.                                                            *)
(***************************************************************************)
EXTENDS TenantManager, FiniteSetTheorems, TLAPS

LEMMA PinsFinite == \A p \in Paths : IsFiniteSet(Pins(p))
BY ThreadsAssumption, FS_Subset DEF Pins

LEMMA CountOneMore ==
  ASSUME NEW p \in Paths, NEW t, t \notin Pins(p)
  PROVE  Cardinality(Pins(p) \cup {t}) = Cardinality(Pins(p)) + 1
BY PinsFinite, FS_AddElement

LEMMA CountOneLess ==
  ASSUME NEW p \in Paths, NEW t \in Pins(p)
  PROVE  Cardinality(Pins(p) \ {t}) = Cardinality(Pins(p)) - 1
BY PinsFinite, FS_RemoveElement

LEMMA UnreferencedUnpinned ==
  ASSUME RefsCountLeases, NEW p \in Paths, refs[p] = 0
  PROVE  Pins(p) = {}
BY PinsFinite, FS_EmptySet DEF RefsCountLeases

(* Every variable keeps its type under every step. *)
LEMMA TypeOKStep == TypeOK /\ RefsCountLeases /\ [Next]_vars => TypeOK'
<1> SUFFICES ASSUME TypeOK, RefsCountLeases, [Next]_vars PROVE TypeOK'
  OBVIOUS
<1> USE BoundsAssumption DEF TypeOK, Goto, Holding, PCs, BgStates, Actors
<1>1. ASSUME NEW t \in Threads, NEW p \in Paths, NEW r \in BOOLEAN, Acquire(t, p, r)
      PROVE TypeOK'
  BY <1>1 DEF Acquire, bgVars
<1>2. ASSUME NEW t \in Threads, AcquireOpen(t) PROVE TypeOK'
  BY <1>2 DEF AcquireOpen, Lease, bgVars
<1>3. ASSUME NEW t \in Threads, AcquireClosed(t) PROVE TypeOK'
  BY <1>3 DEF AcquireClosed, bgVars
<1>4. ASSUME NEW t \in Threads, CheckBudget(t) PROVE TypeOK'
  BY <1>4 DEF CheckBudget, bgVars
<1>5. ASSUME NEW t \in Threads, CollectIdle(t) PROVE TypeOK'
  BY <1>5 DEF CollectIdle, bgVars
<1>6. ASSUME NEW t \in Threads, PickVictim(t) PROVE TypeOK'
  BY <1>6 DEF PickVictim, bgVars
<1>7. ASSUME NEW t \in Threads, Evict(t) PROVE TypeOK'
  BY <1>7 DEF Evict, CloseUnderLock, bgVars
<1>8. ASSUME NEW t \in Threads, EvictLost(t) PROVE TypeOK'
  BY <1>8 DEF EvictLost, bgVars
<1>9. ASSUME NEW t \in Threads, EvictDone(t) PROVE TypeOK'
  BY <1>9 DEF EvictDone, OnClose, bgVars
<1>10. ASSUME NEW t \in Threads, Open(t) PROVE TypeOK'
  BY <1>10 DEF Open, bgVars
<1>11. ASSUME NEW t \in Threads, OpenFails(t) PROVE TypeOK'
  BY <1>11 DEF OpenFails, bgVars
<1>12. ASSUME NEW t \in Threads, OnOpen(t) PROVE TypeOK'
  BY <1>12 DEF OnOpen, bgVars
<1>13. ASSUME NEW t \in Threads, Grant(t) PROVE TypeOK'
  BY <1>13 DEF Grant, Lease, bgVars
<1>14. ASSUME NEW t \in Threads, ReleaseStamp(t) PROVE TypeOK'
  BY <1>14 DEF ReleaseStamp, bgVars
<1>15. ASSUME NEW t \in Threads, ReleaseRef(t) PROVE TypeOK'
  <2>1. target[t] \in Paths /\ t \in Pins(target[t])
    BY <1>15 DEF ReleaseRef, Pins
  <2>2. refs[target[t]] # 0
    BY <2>1, UnreferencedUnpinned
  <2>3. refs[target[t]] - 1 \in Nat
    BY <2>1, <2>2
  <2>4. refs' \in [Paths -> Nat]
    BY <2>1, <2>3, <1>15 DEF ReleaseRef
  <2> QED
    BY <1>15, <2>1, <2>4 DEF ReleaseRef, bgVars
<1>16. ASSUME NEW t \in Threads, BareDone(t) PROVE TypeOK'
  BY <1>16 DEF BareDone, bgVars
<1>17. ASSUME NEW b \in Background, Snapshot(b) PROVE TypeOK'
  BY <1>17 DEF Snapshot, threadVars
<1>18. ASSUME NEW b \in Background, SweepClose(b) PROVE TypeOK'
  BY <1>18 DEF SweepClose, CloseUnderLock
<1>19. ASSUME NEW b \in Background, SweepSkip(b) PROVE TypeOK'
  BY <1>19 DEF SweepSkip, threadVars
<1>20. ASSUME NEW b \in Background, SweepOnClose(b) PROVE TypeOK'
  BY <1>20 DEF SweepOnClose, OnClose, threadVars
<1>21. ASSUME NEW b \in Background, SweepEnd(b) PROVE TypeOK'
  BY <1>21 DEF SweepEnd, threadVars
<1>22. CASE ReaperStops
  BY <1>22 DEF ReaperStops, threadVars
<1>23. CASE Shutdown
  BY <1>23 DEF Shutdown, threadVars
<1>24. CASE Tick
  BY <1>24 DEF Tick, threadVars, bgVars
<1>25. CASE UNCHANGED vars
  BY <1>25 DEF vars, threadVars, bgVars
<1> HIDE DEF TypeOK, Goto, Holding, PCs, BgStates, Actors
<1>26. ASSUME NEW t \in Threads, ThreadStep(t) PROVE TypeOK'
  BY <1>2, <1>3, <1>4, <1>5, <1>6, <1>7, <1>8, <1>9, <1>10, <1>11, <1>12, <1>13,
     <1>14, <1>15, <1>16, <1>26 DEF ThreadStep
<1>27. ASSUME NEW b \in Background, BgStep(b) PROVE TypeOK'
  BY <1>17, <1>18, <1>19, <1>20, <1>21, <1>27 DEF BgStep
<1> QED
  BY <1>1, <1>22, <1>23, <1>24, <1>25, <1>26, <1>27 DEF Next

LEMMA ActorsDistinct ==
  /\ \A t \in Threads : t \notin Background /\ t # Free
  /\ \A b \in Background : b # Free
BY ThreadsAssumption DEF Background, Free

(* Who holds which mutex, and the map under it, is preserved by every step. *)
LEMMA MutexStep ==
  TypeOK /\ OpenMapAgrees /\ MutexInv /\ [Next]_vars => (OpenMapAgrees /\ MutexInv)'
<1> SUFFICES ASSUME TypeOK, OpenMapAgrees, MutexInv, [Next]_vars
             PROVE (OpenMapAgrees /\ MutexInv)'
  OBVIOUS
<1> USE ActorsDistinct
    DEF TypeOK, OpenMapAgrees, MutexInv, Goto, Holding, PCs, BgStates, Actors
<1>1. ASSUME NEW t \in Threads, NEW p \in Paths, NEW r \in BOOLEAN, Acquire(t, p, r)
      PROVE (OpenMapAgrees /\ MutexInv)'
  BY <1>1 DEF Acquire, bgVars
<1>2. ASSUME NEW t \in Threads, AcquireOpen(t) PROVE (OpenMapAgrees /\ MutexInv)'
  BY <1>2 DEF AcquireOpen, Lease, bgVars
<1>3. ASSUME NEW t \in Threads, AcquireClosed(t) PROVE (OpenMapAgrees /\ MutexInv)'
  BY <1>3 DEF AcquireClosed, bgVars
<1>4. ASSUME NEW t \in Threads, CheckBudget(t) PROVE (OpenMapAgrees /\ MutexInv)'
  BY <1>4 DEF CheckBudget, bgVars
<1>5. ASSUME NEW t \in Threads, CollectIdle(t) PROVE (OpenMapAgrees /\ MutexInv)'
  BY <1>5 DEF CollectIdle, bgVars
<1>6. ASSUME NEW t \in Threads, PickVictim(t) PROVE (OpenMapAgrees /\ MutexInv)'
  BY <1>6 DEF PickVictim, bgVars
<1>7. ASSUME NEW t \in Threads, Evict(t) PROVE (OpenMapAgrees /\ MutexInv)'
  BY <1>7 DEF Evict, CloseUnderLock, Closable, bgVars
<1>8. ASSUME NEW t \in Threads, EvictLost(t) PROVE (OpenMapAgrees /\ MutexInv)'
  BY <1>8 DEF EvictLost, bgVars
<1>9. ASSUME NEW t \in Threads, EvictDone(t) PROVE (OpenMapAgrees /\ MutexInv)'
  BY <1>9 DEF EvictDone, OnClose, bgVars
<1>10. ASSUME NEW t \in Threads, Open(t) PROVE (OpenMapAgrees /\ MutexInv)'
  BY <1>10 DEF Open, bgVars
<1>11. ASSUME NEW t \in Threads, OpenFails(t) PROVE (OpenMapAgrees /\ MutexInv)'
  BY <1>11 DEF OpenFails, bgVars
<1>12. ASSUME NEW t \in Threads, OnOpen(t) PROVE (OpenMapAgrees /\ MutexInv)'
  BY <1>12 DEF OnOpen, bgVars
<1>13. ASSUME NEW t \in Threads, Grant(t) PROVE (OpenMapAgrees /\ MutexInv)'
  BY <1>13 DEF Grant, Lease, bgVars
<1>14. ASSUME NEW t \in Threads, ReleaseStamp(t) PROVE (OpenMapAgrees /\ MutexInv)'
  BY <1>14 DEF ReleaseStamp, bgVars
<1>15. ASSUME NEW t \in Threads, ReleaseRef(t) PROVE (OpenMapAgrees /\ MutexInv)'
  BY <1>15 DEF ReleaseRef, bgVars
<1>16. ASSUME NEW t \in Threads, BareDone(t) PROVE (OpenMapAgrees /\ MutexInv)'
  BY <1>16 DEF BareDone, bgVars
<1>17. ASSUME NEW b \in Background, Snapshot(b) PROVE (OpenMapAgrees /\ MutexInv)'
  BY <1>17 DEF Snapshot, threadVars
<1>18. ASSUME NEW b \in Background, SweepClose(b) PROVE (OpenMapAgrees /\ MutexInv)'
  BY <1>18 DEF SweepClose, CloseUnderLock, Closable
<1>19. ASSUME NEW b \in Background, SweepSkip(b) PROVE (OpenMapAgrees /\ MutexInv)'
  BY <1>19 DEF SweepSkip, threadVars
<1>20. ASSUME NEW b \in Background, SweepOnClose(b) PROVE (OpenMapAgrees /\ MutexInv)'
  BY <1>20 DEF SweepOnClose, OnClose, threadVars
<1>21. ASSUME NEW b \in Background, SweepEnd(b) PROVE (OpenMapAgrees /\ MutexInv)'
  BY <1>21 DEF SweepEnd, threadVars
<1>22. CASE ReaperStops
  BY <1>22 DEF ReaperStops, threadVars
<1>23. CASE Shutdown
  BY <1>23 DEF Shutdown, threadVars
<1>24. CASE Tick
  BY <1>24 DEF Tick, threadVars, bgVars
<1>25. CASE UNCHANGED vars
  BY <1>25 DEF vars, threadVars, bgVars
<1> HIDE DEF TypeOK, OpenMapAgrees, MutexInv, Goto, Holding, PCs, BgStates, Actors
<1>26. ASSUME NEW t \in Threads, ThreadStep(t) PROVE (OpenMapAgrees /\ MutexInv)'
  BY <1>2, <1>3, <1>4, <1>5, <1>6, <1>7, <1>8, <1>9, <1>10, <1>11, <1>12, <1>13,
     <1>14, <1>15, <1>16, <1>26 DEF ThreadStep
<1>27. ASSUME NEW b \in Background, BgStep(b) PROVE (OpenMapAgrees /\ MutexInv)'
  BY <1>17, <1>18, <1>19, <1>20, <1>21, <1>27 DEF BgStep
<1> QED
  BY <1>1, <1>22, <1>23, <1>24, <1>25, <1>26, <1>27 DEF Next

(* A step that touches neither refs nor who holds a lease keeps the count. *)
LEMMA SameLeases ==
  ASSUME RefsCountLeases, UNCHANGED refs, \A p \in Paths : Pins(p)' = Pins(p)
  PROVE  RefsCountLeases'
BY DEF RefsCountLeases

(* refs counts the leases, whatever happens. *)
LEMMA RefsStep == TypeOK /\ RefsCountLeases /\ [Next]_vars => RefsCountLeases'
<1> SUFFICES ASSUME TypeOK, RefsCountLeases, [Next]_vars PROVE RefsCountLeases'
  OBVIOUS
<1> USE DEF TypeOK, Goto, Holding, PCs
<1>1. ASSUME NEW t \in Threads, NEW p \in Paths, NEW r \in BOOLEAN, Acquire(t, p, r)
      PROVE RefsCountLeases'
  <2>1. \A q \in Paths : Pins(q)' = Pins(q)
    BY <1>1 DEF Acquire, bgVars, Pins
  <2> QED
    BY <2>1, <1>1, SameLeases DEF Acquire, bgVars
<1>2. ASSUME NEW t \in Threads, AcquireOpen(t) PROVE RefsCountLeases'
  <2>0. target[t] \in Paths
    BY <1>2 DEF AcquireOpen
  <2>1. \A p \in Paths : Pins(p)' = IF p = target[t] THEN Pins(p) \cup {t} ELSE Pins(p)
    BY <1>2 DEF AcquireOpen, Lease, Pins
  <2>2. t \notin Pins(target[t])
    BY <1>2 DEF AcquireOpen, Pins
  <2>3. Cardinality(Pins(target[t]) \cup {t}) = Cardinality(Pins(target[t])) + 1
    BY <2>2, <2>0, CountOneMore
  <2> QED
    BY <2>1, <2>3, <1>2 DEF AcquireOpen, Lease, RefsCountLeases
<1>3. ASSUME NEW t \in Threads, AcquireClosed(t) PROVE RefsCountLeases'
  <2>1. \A q \in Paths : Pins(q)' = Pins(q)
    BY <1>3 DEF AcquireClosed, bgVars, Pins
  <2> QED
    BY <2>1, <1>3, SameLeases DEF AcquireClosed, bgVars
<1>4. ASSUME NEW t \in Threads, CheckBudget(t) PROVE RefsCountLeases'
  <2>1. \A q \in Paths : Pins(q)' = Pins(q)
    BY <1>4 DEF CheckBudget, bgVars, Pins
  <2> QED
    BY <2>1, <1>4, SameLeases DEF CheckBudget, bgVars
<1>5. ASSUME NEW t \in Threads, CollectIdle(t) PROVE RefsCountLeases'
  <2>1. \A q \in Paths : Pins(q)' = Pins(q)
    BY <1>5 DEF CollectIdle, bgVars, Pins
  <2> QED
    BY <2>1, <1>5, SameLeases DEF CollectIdle, bgVars
<1>6. ASSUME NEW t \in Threads, PickVictim(t) PROVE RefsCountLeases'
  <2>1. \A q \in Paths : Pins(q)' = Pins(q)
    BY <1>6 DEF PickVictim, bgVars, Pins
  <2> QED
    BY <2>1, <1>6, SameLeases DEF PickVictim, bgVars
<1>7. ASSUME NEW t \in Threads, Evict(t) PROVE RefsCountLeases'
  <2>1. \A q \in Paths : Pins(q)' = Pins(q)
    BY <1>7 DEF Evict, CloseUnderLock, bgVars, Pins
  <2> QED
    BY <2>1, <1>7, SameLeases DEF Evict, CloseUnderLock, bgVars
<1>8. ASSUME NEW t \in Threads, EvictLost(t) PROVE RefsCountLeases'
  <2>1. \A q \in Paths : Pins(q)' = Pins(q)
    BY <1>8 DEF EvictLost, bgVars, Pins
  <2> QED
    BY <2>1, <1>8, SameLeases DEF EvictLost, bgVars
<1>9. ASSUME NEW t \in Threads, EvictDone(t) PROVE RefsCountLeases'
  <2>1. \A q \in Paths : Pins(q)' = Pins(q)
    BY <1>9 DEF EvictDone, OnClose, bgVars, Pins
  <2> QED
    BY <2>1, <1>9, SameLeases DEF EvictDone, OnClose, bgVars
<1>10. ASSUME NEW t \in Threads, Open(t) PROVE RefsCountLeases'
  <2>1. \A q \in Paths : Pins(q)' = Pins(q)
    BY <1>10 DEF Open, bgVars, Pins
  <2> QED
    BY <2>1, <1>10, SameLeases DEF Open, bgVars
<1>11. ASSUME NEW t \in Threads, OpenFails(t) PROVE RefsCountLeases'
  <2>1. \A q \in Paths : Pins(q)' = Pins(q)
    BY <1>11 DEF OpenFails, bgVars, Pins
  <2> QED
    BY <2>1, <1>11, SameLeases DEF OpenFails, bgVars
<1>12. ASSUME NEW t \in Threads, OnOpen(t) PROVE RefsCountLeases'
  <2>1. \A q \in Paths : Pins(q)' = Pins(q)
    BY <1>12 DEF OnOpen, bgVars, Pins
  <2> QED
    BY <2>1, <1>12, SameLeases DEF OnOpen, bgVars
<1>13. ASSUME NEW t \in Threads, Grant(t) PROVE RefsCountLeases'
  <2>0. target[t] \in Paths
    BY <1>13 DEF Grant
  <2>1. \A p \in Paths : Pins(p)' = IF p = target[t] THEN Pins(p) \cup {t} ELSE Pins(p)
    BY <1>13 DEF Grant, Lease, Pins
  <2>2. t \notin Pins(target[t])
    BY <1>13 DEF Grant, Pins
  <2>3. Cardinality(Pins(target[t]) \cup {t}) = Cardinality(Pins(target[t])) + 1
    BY <2>2, <2>0, CountOneMore
  <2> QED
    BY <2>1, <2>3, <1>13 DEF Grant, Lease, RefsCountLeases
<1>14. ASSUME NEW t \in Threads, ReleaseStamp(t) PROVE RefsCountLeases'
  <2>1. \A q \in Paths : Pins(q)' = Pins(q)
    BY <1>14 DEF ReleaseStamp, bgVars, Pins
  <2> QED
    BY <2>1, <1>14, SameLeases DEF ReleaseStamp, bgVars
<1>15. ASSUME NEW t \in Threads, ReleaseRef(t) PROVE RefsCountLeases'
  <2>0. target[t] \in Paths
    BY <1>15 DEF ReleaseRef
  <2>1. \A p \in Paths : Pins(p)' = IF p = target[t] THEN Pins(p) \ {t} ELSE Pins(p)
    BY <1>15 DEF ReleaseRef, Pins
  <2>2. t \in Pins(target[t])
    BY <1>15 DEF ReleaseRef, Pins
  <2>3. Cardinality(Pins(target[t]) \ {t}) = Cardinality(Pins(target[t])) - 1
    BY <2>2, <2>0, CountOneLess
  <2> QED
    BY <2>1, <2>3, <1>15 DEF ReleaseRef, RefsCountLeases
<1>16. ASSUME NEW t \in Threads, BareDone(t) PROVE RefsCountLeases'
  <2>1. \A q \in Paths : Pins(q)' = Pins(q)
    BY <1>16 DEF BareDone, bgVars, Pins
  <2> QED
    BY <2>1, <1>16, SameLeases DEF BareDone, bgVars
<1>17. ASSUME NEW b \in Background, Snapshot(b) PROVE RefsCountLeases'
  <2>1. \A q \in Paths : Pins(q)' = Pins(q)
    BY <1>17 DEF Snapshot, threadVars, Pins
  <2> QED
    BY <2>1, <1>17, SameLeases DEF Snapshot, threadVars
<1>18. ASSUME NEW b \in Background, SweepClose(b) PROVE RefsCountLeases'
  <2>1. \A q \in Paths : Pins(q)' = Pins(q)
    BY <1>18 DEF SweepClose, CloseUnderLock, Pins
  <2> QED
    BY <2>1, <1>18, SameLeases DEF SweepClose, CloseUnderLock
<1>19. ASSUME NEW b \in Background, SweepSkip(b) PROVE RefsCountLeases'
  <2>1. \A q \in Paths : Pins(q)' = Pins(q)
    BY <1>19 DEF SweepSkip, threadVars, Pins
  <2> QED
    BY <2>1, <1>19, SameLeases DEF SweepSkip, threadVars
<1>20. ASSUME NEW b \in Background, SweepOnClose(b) PROVE RefsCountLeases'
  <2>1. \A q \in Paths : Pins(q)' = Pins(q)
    BY <1>20 DEF SweepOnClose, OnClose, threadVars, Pins
  <2> QED
    BY <2>1, <1>20, SameLeases DEF SweepOnClose, OnClose, threadVars
<1>21. ASSUME NEW b \in Background, SweepEnd(b) PROVE RefsCountLeases'
  <2>1. \A q \in Paths : Pins(q)' = Pins(q)
    BY <1>21 DEF SweepEnd, threadVars, Pins
  <2> QED
    BY <2>1, <1>21, SameLeases DEF SweepEnd, threadVars
<1>22. CASE ReaperStops
  BY <1>22, SameLeases DEF ReaperStops, threadVars, Pins
<1>23. CASE Shutdown
  BY <1>23, SameLeases DEF Shutdown, threadVars, Pins
<1>24. CASE Tick
  BY <1>24, SameLeases DEF Tick, threadVars, bgVars, Pins
<1>25. CASE UNCHANGED vars
  BY <1>25, SameLeases DEF vars, threadVars, bgVars, Pins
<1> HIDE DEF TypeOK, Goto, Holding, PCs
<1>26. ASSUME NEW t \in Threads, ThreadStep(t) PROVE RefsCountLeases'
  BY <1>2, <1>3, <1>4, <1>5, <1>6, <1>7, <1>8, <1>9, <1>10, <1>11, <1>12, <1>13,
     <1>14, <1>15, <1>16, <1>26 DEF ThreadStep
<1>27. ASSUME NEW b \in Background, BgStep(b) PROVE RefsCountLeases'
  BY <1>17, <1>18, <1>19, <1>20, <1>21, <1>27 DEF BgStep
<1> QED
  BY <1>1, <1>22, <1>23, <1>24, <1>25, <1>26, <1>27 DEF Next

(* A leased handle is open and the pointer handed out is to it. *)
LEMMA LeaseStep ==
  TypeOK /\ RefsCountLeases /\ MutexInv /\ LeaseInv /\ [Next]_vars => LeaseInv'
<1> SUFFICES ASSUME TypeOK, RefsCountLeases, MutexInv, LeaseInv, [Next]_vars
             PROVE LeaseInv'
  OBVIOUS
<1> USE DEF TypeOK, LeaseInv, Goto, Holding, PCs
<1>1. ASSUME NEW t \in Threads, NEW p \in Paths, NEW r \in BOOLEAN, Acquire(t, p, r)
      PROVE LeaseInv'
  BY <1>1 DEF Acquire, bgVars
<1>2. ASSUME NEW t \in Threads, AcquireOpen(t) PROVE LeaseInv'
  BY <1>2 DEF AcquireOpen, Lease, bgVars
<1>3. ASSUME NEW t \in Threads, AcquireClosed(t) PROVE LeaseInv'
  BY <1>3 DEF AcquireClosed, bgVars
<1>4. ASSUME NEW t \in Threads, CheckBudget(t) PROVE LeaseInv'
  BY <1>4 DEF CheckBudget, bgVars
<1>5. ASSUME NEW t \in Threads, CollectIdle(t) PROVE LeaseInv'
  BY <1>5 DEF CollectIdle, bgVars
<1>6. ASSUME NEW t \in Threads, PickVictim(t) PROVE LeaseInv'
  BY <1>6 DEF PickVictim, bgVars
<1>7. ASSUME NEW t \in Threads, Evict(t) PROVE LeaseInv'
  <2>1. Pins(victim[t]) = {} /\ victim[t] \in Paths
    BY <1>7, UnreferencedUnpinned DEF Evict, CloseUnderLock, Closable, MutexInv
  <2> QED
    BY <2>1, <1>7 DEF Evict, CloseUnderLock, Pins
<1>8. ASSUME NEW t \in Threads, EvictLost(t) PROVE LeaseInv'
  BY <1>8 DEF EvictLost, bgVars
<1>9. ASSUME NEW t \in Threads, EvictDone(t) PROVE LeaseInv'
  BY <1>9 DEF EvictDone, OnClose, bgVars
<1>10. ASSUME NEW t \in Threads, Open(t) PROVE LeaseInv'
  BY <1>10 DEF Open, bgVars
<1>11. ASSUME NEW t \in Threads, OpenFails(t) PROVE LeaseInv'
  BY <1>11 DEF OpenFails, bgVars
<1>12. ASSUME NEW t \in Threads, OnOpen(t) PROVE LeaseInv'
  BY <1>12 DEF OnOpen, bgVars
<1>13. ASSUME NEW t \in Threads, Grant(t) PROVE LeaseInv'
  BY <1>13 DEF Grant, Lease, MutexInv, bgVars
<1>14. ASSUME NEW t \in Threads, ReleaseStamp(t) PROVE LeaseInv'
  BY <1>14 DEF ReleaseStamp, bgVars
<1>15. ASSUME NEW t \in Threads, ReleaseRef(t) PROVE LeaseInv'
  BY <1>15 DEF ReleaseRef, bgVars
<1>16. ASSUME NEW t \in Threads, BareDone(t) PROVE LeaseInv'
  BY <1>16 DEF BareDone, bgVars
<1>17. ASSUME NEW b \in Background, Snapshot(b) PROVE LeaseInv'
  BY <1>17 DEF Snapshot, threadVars
<1>18. ASSUME NEW b \in Background, SweepClose(b) PROVE LeaseInv'
  <2> PICK p \in todo[b] : CloseUnderLock(b, p, BgTTL(b))
    BY <1>18 DEF SweepClose
  <2>1. Pins(p) = {} /\ p \in Paths
    BY UnreferencedUnpinned DEF CloseUnderLock, Closable
  <2> QED
    BY <2>1, <1>18 DEF SweepClose, CloseUnderLock, Pins
<1>19. ASSUME NEW b \in Background, SweepSkip(b) PROVE LeaseInv'
  BY <1>19 DEF SweepSkip, threadVars
<1>20. ASSUME NEW b \in Background, SweepOnClose(b) PROVE LeaseInv'
  BY <1>20 DEF SweepOnClose, OnClose, threadVars
<1>21. ASSUME NEW b \in Background, SweepEnd(b) PROVE LeaseInv'
  BY <1>21 DEF SweepEnd, threadVars
<1>22. CASE ReaperStops
  BY <1>22 DEF ReaperStops, threadVars
<1>23. CASE Shutdown
  BY <1>23 DEF Shutdown, threadVars
<1>24. CASE Tick
  BY <1>24 DEF Tick, threadVars, bgVars
<1>25. CASE UNCHANGED vars
  BY <1>25 DEF vars, threadVars, bgVars
<1> HIDE DEF TypeOK, LeaseInv, Goto, Holding, PCs
<1>26. ASSUME NEW t \in Threads, ThreadStep(t) PROVE LeaseInv'
  BY <1>2, <1>3, <1>4, <1>5, <1>6, <1>7, <1>8, <1>9, <1>10, <1>11, <1>12, <1>13,
     <1>14, <1>15, <1>16, <1>26 DEF ThreadStep
<1>27. ASSUME NEW b \in Background, BgStep(b) PROVE LeaseInv'
  BY <1>17, <1>18, <1>19, <1>20, <1>21, <1>27 DEF BgStep
<1> QED
  BY <1>1, <1>22, <1>23, <1>24, <1>25, <1>26, <1>27 DEF Next
-----------------------------------------------------------------------------
(* IInv is an inductive invariant of the Manager (manager.go). *)
THEOREM Invariance == Spec => []IInv
<1>1. Init => IInv
  <2> SUFFICES ASSUME Init PROVE IInv
    OBVIOUS
  <2>1. \A p \in Paths : Pins(p) = {}
    BY DEF Init, Pins, Holding
  <2>2. RefsCountLeases
    BY <2>1, FS_EmptySet DEF Init, RefsCountLeases
  <2>3. TypeOK
    <3>1. 0 \in 0..MaxAge
      BY BoundsAssumption
    <3>2. age \in [Paths -> 0..MaxAge] /\ refs \in [Paths -> Nat]
      BY <3>1 DEF Init
    <3>3. pc \in [Threads -> PCs] /\ bg \in [Background -> BgStates]
      BY DEF Init, PCs, BgStates
    <3>4. \A t \in Threads : pc[t] # "idle" => target[t] \in Paths
      BY DEF Init
    <3> QED
      BY <3>2, <3>3, <3>4 DEF Init, TypeOK
  <2>4. OpenMapAgrees /\ LeaseInv
    BY DEF Init, OpenMapAgrees, LeaseInv, Holding
  <2>5. MutexInv
    BY DEF Init, MutexInv
  <2> QED
    BY <2>2, <2>3, <2>4, <2>5 DEF IInv
<1>2. IInv /\ [Next]_vars => IInv'
  BY TypeOKStep, MutexStep, RefsStep, LeaseStep DEF IInv
<1> QED
  BY <1>1, <1>2, PTL DEF Spec

(* Type correctness of every reachable state. *)
THEOREM TypeCorrect == Spec => []TypeOK
BY Invariance, PTL DEF IInv

(* Acquire's promise (manager.go:29-32): no eviction, reap or shutdown ever *)
(* closes the handle of a request that still holds its lease.               *)
THEOREM LeasesAreSafe == Spec => []LeasedHandleStaysOpen
<1>1. IInv => LeasedHandleStaysOpen
  BY DEF IInv, LeaseInv, LeasedHandleStaysOpen
<1> QED
  BY <1>1, Invariance, PTL

(* The reference count is exact (manager.go:52, 60): every lease is counted *)
(* once, and its release uncounts it.                                       *)
THEOREM BookkeepingIsExact == Spec => []RefsCountLeases
<1>1. IInv => RefsCountLeases
  BY DEF IInv
<1> QED
  BY <1>1, Invariance, PTL

(* Whenever an Instance's mutex is free, the map of open handles is right   *)
(* about it (manager.go:175-187): budget and reaper miss no open handle.    *)
THEOREM OpenMapIsTrue == Spec => []OpenMapAgrees
<1>1. IInv => OpenMapAgrees
  BY DEF IInv
<1> QED
  BY <1>1, Invariance, PTL
-----------------------------------------------------------------------------
(* The fd budget.  A thread in relock may open one handle more, so what is  *)
(* open is counted with those threads.  A thread comes to relock when it    *)
(* has seen room, and then the handles its map does not list yet belong to  *)
(* threads that are about to list them; or when it has seen none idle, and  *)
(* then each handle of the map is somebody's lease.  Either way the others  *)
(* account for all of the excess.                                           *)

Used       == open \cup {p \in Paths : db[p] = "open"}
AtPc(l)    == {t \in Threads : pc[t] = l}
Reopening  == AtPc("relock")

\* A handle that is open and not listed has just been opened by a thread.
UnlistedAreNew ==
  \A p \in Paths : db[p] = "open" /\ p \notin open =>
    \E t \in AtPc("opened") : target[t] = p

BudgetInv ==
  /\ UnlistedAreNew
  /\ IsFiniteSet(Used)
  /\ MaxOpen > 0 =>
       Cardinality(Used) + Cardinality(Reopening) < MaxOpen + Cardinality(Threads)

LEMMA OneMore ==
  ASSUME NEW S, NEW x, IsFiniteSet(S)
  PROVE  /\ IsFiniteSet(S \cup {x}) /\ Cardinality(S) \in Nat
         /\ Cardinality(S \cup {x}) <= Cardinality(S) + 1
<1>1. Cardinality(S) \in Nat
  BY FS_CardinalityType
<1>2. Cardinality(S \cup {x}) \in {Cardinality(S), Cardinality(S) + 1}
  BY FS_AddElement
<1> QED  BY <1>1, <1>2, FS_AddElement

LEMMA DisjointCount ==
  ASSUME NEW S, NEW T, IsFiniteSet(S), IsFiniteSet(T), S \cap T = {}
  PROVE  Cardinality(S \cup T) = Cardinality(S) + Cardinality(T)
<1>1. Cardinality(S) \in Nat /\ Cardinality(T) \in Nat
  BY FS_CardinalityType
<1>2. Cardinality(S \cap T) = 0
  BY FS_EmptySet
<1>3. Cardinality(S \cup T) = Cardinality(S) + Cardinality(T) - Cardinality(S \cap T)
  BY FS_Union
<1> QED  BY <1>1, <1>2, <1>3

LEMMA ThreadSetsFinite ==
  ASSUME NEW T \in SUBSET Threads
  PROVE  IsFiniteSet(T) /\ Cardinality(T) \in Nat /\ Cardinality(T) <= Cardinality(Threads)
         /\ Cardinality(Threads) \in Nat
BY ThreadsAssumption, FS_Subset, FS_CardinalityType

\* A step that opens nothing and lets nobody into relock keeps the count.
LEMMA BudgetShrinks ==
  ASSUME BudgetInv, Used' \subseteq Used, Reopening' \subseteq Reopening, UnlistedAreNew'
  PROVE  BudgetInv'
<1>1. Reopening \in SUBSET Threads /\ Reopening' \in SUBSET Threads
  BY DEF Reopening, AtPc
<1>2. /\ Cardinality(Reopening') <= Cardinality(Reopening)
      /\ Cardinality(Reopening) \in Nat /\ Cardinality(Reopening') \in Nat
      /\ Cardinality(Threads) \in Nat
  <2>1. IsFiniteSet(Reopening) /\ Reopening' \in SUBSET Reopening
    BY <1>1, ThreadSetsFinite
  <2>2. Cardinality(Reopening') <= Cardinality(Reopening)
    BY <2>1, FS_Subset
  <2> QED  BY <1>1, <2>2, ThreadSetsFinite
<1>3. IsFiniteSet(Used) /\ Used' \in SUBSET Used
  BY DEF BudgetInv
<1>4. IsFiniteSet(Used') /\ Cardinality(Used') <= Cardinality(Used)
  BY <1>3, FS_Subset
<1>5. Cardinality(Used) \in Nat /\ Cardinality(Used') \in Nat
  BY <1>3, <1>4, FS_CardinalityType
<1> QED  BY <1>2, <1>4, <1>5, BoundsAssumption DEF BudgetInv

\* Opening takes a thread out of relock for the handle it adds.
LEMMA BudgetOpens ==
  ASSUME BudgetInv, UnlistedAreNew', NEW t \in Reopening, Reopening' = Reopening \ {t},
         NEW p, Used' = Used \cup {p}
  PROVE  BudgetInv'
<1>1. Reopening \in SUBSET Threads
  BY DEF Reopening, AtPc
<1>2. /\ Cardinality(Reopening') = Cardinality(Reopening) - 1
      /\ Cardinality(Reopening) \in Nat /\ Cardinality(Threads) \in Nat
  <2>1. IsFiniteSet(Reopening) /\ Cardinality(Reopening) \in Nat
    BY <1>1, ThreadSetsFinite
  <2> QED  BY <1>1, <2>1, ThreadSetsFinite, FS_RemoveElement
<1>3. IsFiniteSet(Used) /\ Cardinality(Used) \in Nat
  BY FS_CardinalityType DEF BudgetInv
<1>4. IsFiniteSet(Used') /\ Cardinality(Used') <= Cardinality(Used) + 1
  <2>1. IsFiniteSet(Used \cup {p}) /\ Cardinality(Used \cup {p}) <= Cardinality(Used) + 1
    BY <1>3, OneMore
  <2> QED  BY <2>1
<1>5. Cardinality(Used') \in Nat
  BY <1>4, FS_CardinalityType
<1> QED  BY <1>2, <1>3, <1>4, <1>5, BoundsAssumption DEF BudgetInv

\* An image of a finite set of threads is no larger than the set.
LEMMA TargetsCounted ==
  ASSUME NEW T \in SUBSET Threads, NEW S, S \subseteq {target[t] : t \in T}
  PROVE  IsFiniteSet(S) /\ Cardinality(S) \in Nat /\ Cardinality(S) <= Cardinality(T)
<1> DEFINE I == {target[t] : t \in T}
           f == [t \in T |-> target[t]]
<1>1. f \in Surjection(T, I)
  BY DEF Surjection
<1>2. IsFiniteSet(T) /\ Cardinality(T) \in Nat
  BY ThreadSetsFinite
<1>3. IsFiniteSet(I) /\ Cardinality(I) <= Cardinality(T)
  BY <1>1, <1>2, FS_Surjection
<1>4. S \in SUBSET I
  OBVIOUS
<1> HIDE DEF I
<1>5. IsFiniteSet(S) /\ Cardinality(S) <= Cardinality(I)
  BY <1>3, <1>4, FS_Subset
<1> QED  BY <1>2, <1>3, <1>5, FS_CardinalityType

\* Room was seen, or nothing idle: t may go to relock.
LEMMA BudgetGrants ==
  ASSUME TypeOK, BudgetInv, UnlistedAreNew', NEW t \in Threads, t \notin Reopening,
         pc[t] \notin {"opened", "use", "releasing"},
         Reopening' = Reopening \cup {t}, Used' = Used,
         MaxOpen > 0 => \/ Cardinality(open) < MaxOpen
                        \/ \A p \in open : \E u \in Threads : pc[u] \in Holding /\ target[u] = p
  PROVE  BudgetInv'
<1> SUFFICES ASSUME MaxOpen > 0
             PROVE  Cardinality(Used) + Cardinality(Reopening') < MaxOpen + Cardinality(Threads)
  BY DEF BudgetInv
<1> DEFINE O == AtPc("opened")
           H == {u \in Threads : pc[u] \in Holding}
           New == Used \ open
<1>1. /\ O \in SUBSET Threads /\ H \in SUBSET Threads /\ Reopening' \in SUBSET Threads
      /\ O \cap Reopening' = {} /\ H \cap Reopening' = {} /\ O \cap H = {}
  BY DEF AtPc, Reopening, Holding
<1>2. New \subseteq {target[u] : u \in O}
  BY DEF BudgetInv, UnlistedAreNew, Used
<1>3. IsFiniteSet(New) /\ Cardinality(New) \in Nat /\ Cardinality(New) <= Cardinality(O)
  BY <1>1, <1>2, TargetsCounted
<1>4. IsFiniteSet(open) /\ Cardinality(open) \in Nat
  <2>1. open \in SUBSET Used
    BY DEF Used
  <2> QED  BY <2>1, FS_Subset, FS_CardinalityType DEF BudgetInv
<1>5. Cardinality(Used) = Cardinality(open) + Cardinality(New)
  <2>1. Used = open \cup New /\ open \cap New = {}
    BY DEF Used
  <2> HIDE DEF New
  <2> QED  BY <1>3, <1>4, <2>1, DisjointCount
<1> HIDE DEF New, O, H
<1>6. Cardinality(O \cup Reopening') = Cardinality(O) + Cardinality(Reopening')
  BY <1>1, ThreadSetsFinite, DisjointCount
<1>7. Cardinality(O \cup Reopening') <= Cardinality(Threads)
  BY <1>1, ThreadSetsFinite
<1>8. /\ Cardinality(O) \in Nat /\ Cardinality(H) \in Nat
      /\ Cardinality(Reopening') \in Nat /\ Cardinality(Threads) \in Nat
  BY <1>1, ThreadSetsFinite
<1>9. CASE Cardinality(open) < MaxOpen
  BY <1>3, <1>4, <1>5, <1>6, <1>7, <1>8, <1>9, BoundsAssumption
<1>10. CASE \A p \in open : \E u \in Threads : pc[u] \in Holding /\ target[u] = p
  <2>1. open \subseteq {target[u] : u \in H}
    BY <1>10 DEF H
  <2>2. Cardinality(open) <= Cardinality(H)
    BY <1>1, <2>1, TargetsCounted
  <2>3. Cardinality(H \cup (O \cup Reopening'))
          = Cardinality(H) + Cardinality(O \cup Reopening')
    <3>1. H \cap (O \cup Reopening') = {} /\ O \cup Reopening' \in SUBSET Threads
      BY <1>1
    <3>2. IsFiniteSet(H) /\ IsFiniteSet(O \cup Reopening')
      BY <1>1, <3>1, ThreadSetsFinite
    <3> QED  BY <3>1, <3>2, DisjointCount
  <2>4. Cardinality(H \cup (O \cup Reopening')) <= Cardinality(Threads)
    BY <1>1, ThreadSetsFinite
  <2> QED  BY <1>3, <1>4, <1>5, <1>6, <1>8, <2>2, <2>3, <2>4, BoundsAssumption
<1> QED  BY <1>9, <1>10

\* A step that neither opens a handle, nor lets anybody into relock or out of opened.
LEMMA BudgetQuiet ==
  ASSUME BudgetInv, open' \subseteq open,
         \A p \in Paths : db'[p] = "open" => db[p] = "open" /\ (p \in open => p \in open'),
         \A t \in Threads : pc'[t] = "relock" => pc[t] = "relock",
         \A t \in Threads : pc[t] = "opened" => pc'[t] = "opened" /\ target'[t] = target[t]
  PROVE  BudgetInv'
<1>1. Used' \subseteq Used
  BY DEF Used
<1>2. Reopening' \subseteq Reopening
  BY DEF Reopening, AtPc
<1>3. UnlistedAreNew'
  BY DEF BudgetInv, UnlistedAreNew, AtPc
<1> QED  BY <1>1, <1>2, <1>3, BudgetShrinks

LEMMA CheckBudgetKeeps ==
  ASSUME TypeOK, BudgetInv, NEW t \in Threads, CheckBudget(t)
  PROVE  BudgetInv'
<1>1. /\ pc[t] = "budget" /\ UNCHANGED <<db, open, target>>
      /\ pc' = [pc EXCEPT ![t] = IF BudgetOK THEN "relock" ELSE "lru"]
  BY DEF CheckBudget, Goto
<1>2. CASE BudgetOK
  <2>1. Reopening' = Reopening \cup {t} /\ t \notin Reopening
    BY <1>1, <1>2 DEF Reopening, AtPc, TypeOK
  <2>2. Used' = Used /\ UnlistedAreNew'
    BY <1>1, <1>2 DEF Used, BudgetInv, UnlistedAreNew, AtPc, TypeOK
  <2>3. MaxOpen > 0 => Cardinality(open) < MaxOpen
    BY <1>2, BoundsAssumption DEF BudgetOK
  <2> QED  BY <1>1, <2>1, <2>2, <2>3, BudgetGrants
<1>3. CASE ~BudgetOK
  BY <1>1, <1>3, BudgetQuiet DEF TypeOK
<1> QED  BY <1>2, <1>3

\* Nothing idle: a handle of the map has a count, and so somebody's lease.
LEMMA CollectIdleKeeps ==
  ASSUME TypeOK, RefsCountLeases, BudgetInv, NEW t \in Threads, CollectIdle(t)
  PROVE  BudgetInv'
<1> DEFINE idle == {p \in open : refs[p] = 0}
<1>1. /\ pc[t] = "lru" /\ UNCHANGED <<db, open, target>>
      /\ pc' = [pc EXCEPT ![t] = IF idle = {} THEN "relock" ELSE "pick"]
  BY DEF CollectIdle, Goto
<1>2. CASE idle = {}
  <2>1. Reopening' = Reopening \cup {t} /\ t \notin Reopening
    BY <1>1, <1>2 DEF Reopening, AtPc, TypeOK
  <2>2. Used' = Used /\ UnlistedAreNew'
    BY <1>1, <1>2 DEF Used, BudgetInv, UnlistedAreNew, AtPc, TypeOK
  <2>3. ASSUME NEW p \in open
        PROVE  \E u \in Threads : pc[u] \in Holding /\ target[u] = p
    <3>1. p \in Paths /\ Cardinality(Pins(p)) # 0
      BY <1>2 DEF TypeOK, RefsCountLeases
    <3>2. Pins(p) # {}
      BY <3>1, FS_EmptySet
    <3> QED  BY <3>2 DEF Pins
  <2> QED  BY <1>1, <2>1, <2>2, <2>3, BudgetGrants
<1>3. CASE idle # {}
  BY <1>1, <1>3, BudgetQuiet DEF TypeOK
<1> QED  BY <1>2, <1>3

LEMMA OpenKeeps ==
  ASSUME TypeOK, BudgetInv, NEW t \in Threads, Open(t)
  PROVE  BudgetInv'
<1>1. /\ pc[t] = "relock" /\ pc' = [pc EXCEPT ![t] = "opened"] /\ target[t] \in Paths
      /\ UNCHANGED <<open, target>> /\ db' = [db EXCEPT ![target[t]] = "open"]
  BY DEF Open, Goto, TypeOK
<1>2. t \in Reopening /\ Reopening' = Reopening \ {t}
  BY <1>1 DEF Reopening, AtPc, TypeOK
<1>3. Used' = Used \cup {target[t]}
  BY <1>1 DEF Used, TypeOK
<1>4. UnlistedAreNew'
  <2> SUFFICES ASSUME NEW p \in Paths, db'[p] = "open", p \notin open'
               PROVE  \E u \in AtPc("opened")' : target'[u] = p
    BY DEF UnlistedAreNew
  <2>1. CASE p = target[t]
    BY <1>1, <2>1 DEF AtPc, TypeOK
  <2>2. CASE p # target[t]
    <3>1. PICK u \in AtPc("opened") : target[u] = p
      BY <1>1, <2>2 DEF BudgetInv, UnlistedAreNew, TypeOK
    <3> QED  BY <1>1, <3>1 DEF AtPc, TypeOK
  <2> QED  BY <2>1, <2>2
<1> QED  BY <1>2, <1>3, <1>4, BudgetOpens

LEMMA OnOpenKeeps ==
  ASSUME TypeOK, MutexInv, BudgetInv, NEW t \in Threads, OnOpen(t)
  PROVE  BudgetInv'
<1>1. /\ pc[t] = "opened" /\ pc' = [pc EXCEPT ![t] = "grant"] /\ target[t] \in Paths
      /\ UNCHANGED <<db, target>> /\ open' = open \cup {target[t]} /\ db[target[t]] = "open"
  BY DEF OnOpen, Goto, TypeOK, MutexInv
<1>2. Used' \subseteq Used
  BY <1>1 DEF Used
<1>3. Reopening' \subseteq Reopening
  BY <1>1 DEF Reopening, AtPc, TypeOK
<1>4. UnlistedAreNew'
  <2> SUFFICES ASSUME NEW p \in Paths, db[p] = "open", p \notin open, p # target[t]
               PROVE  \E u \in AtPc("opened")' : target'[u] = p
    BY <1>1 DEF UnlistedAreNew
  <2>1. PICK u \in AtPc("opened") : target[u] = p
    BY DEF BudgetInv, UnlistedAreNew
  <2>2. u # t
    BY <2>1
  <2> QED  BY <1>1, <2>1, <2>2 DEF AtPc, TypeOK
<1> QED  BY <1>2, <1>3, <1>4, BudgetShrinks

LEMMA BudgetStep == IInv /\ BudgetInv /\ [Next]_vars => BudgetInv'
<1> SUFFICES ASSUME TypeOK, RefsCountLeases, MutexInv, BudgetInv, [Next]_vars
             PROVE  BudgetInv'
  BY DEF IInv
<1> USE BudgetQuiet
<1>1. ASSUME NEW t \in Threads, NEW p \in Paths, NEW r \in BOOLEAN, Acquire(t, p, r)
      PROVE  BudgetInv'
  BY <1>1 DEF Acquire, Goto, TypeOK
<1>2. ASSUME NEW t \in Threads, AcquireOpen(t) PROVE BudgetInv'
  BY <1>2 DEF AcquireOpen, Lease, TypeOK
<1>3. ASSUME NEW t \in Threads, AcquireClosed(t) PROVE BudgetInv'
  BY <1>3 DEF AcquireClosed, Goto, TypeOK
<1>4. ASSUME NEW t \in Threads, PickVictim(t) PROVE BudgetInv'
  BY <1>4 DEF PickVictim, Goto, TypeOK
<1>5. ASSUME NEW t \in Threads, Evict(t) PROVE BudgetInv'
  BY <1>5 DEF Evict, Goto, CloseUnderLock, TypeOK
<1>6. ASSUME NEW t \in Threads, EvictLost(t) PROVE BudgetInv'
  BY <1>6 DEF EvictLost, Goto, TypeOK
<1>7. ASSUME NEW t \in Threads, EvictDone(t) PROVE BudgetInv'
  BY <1>7 DEF EvictDone, Goto, OnClose, MutexInv, TypeOK
<1>8. ASSUME NEW t \in Threads, OpenFails(t) PROVE BudgetInv'
  BY <1>8 DEF OpenFails, Goto, TypeOK
<1>9. ASSUME NEW t \in Threads, Grant(t) PROVE BudgetInv'
  BY <1>9 DEF Grant, Lease, TypeOK
<1>10. ASSUME NEW t \in Threads, ReleaseStamp(t) PROVE BudgetInv'
  BY <1>10 DEF ReleaseStamp, Goto, TypeOK
<1>11. ASSUME NEW t \in Threads, ReleaseRef(t) PROVE BudgetInv'
  BY <1>11 DEF ReleaseRef, Goto, TypeOK
<1>12. ASSUME NEW t \in Threads, BareDone(t) PROVE BudgetInv'
  BY <1>12 DEF BareDone, Goto, TypeOK
<1>13. ASSUME NEW b \in Background, Snapshot(b) PROVE BudgetInv'
  BY <1>13 DEF Snapshot, threadVars, TypeOK
<1>14. ASSUME NEW b \in Background, SweepClose(b) PROVE BudgetInv'
  BY <1>14 DEF SweepClose, CloseUnderLock, TypeOK
<1>15. ASSUME NEW b \in Background, SweepSkip(b) PROVE BudgetInv'
  BY <1>15 DEF SweepSkip, threadVars, TypeOK
<1>16. ASSUME NEW b \in Background, SweepOnClose(b) PROVE BudgetInv'
  BY <1>16 DEF SweepOnClose, OnClose, threadVars, MutexInv, TypeOK
<1>17. ASSUME NEW b \in Background, SweepEnd(b) PROVE BudgetInv'
  BY <1>17 DEF SweepEnd, threadVars, TypeOK
<1>18. CASE ReaperStops
  BY <1>18 DEF ReaperStops, threadVars, TypeOK
<1>19. CASE Shutdown
  BY <1>19 DEF Shutdown, threadVars, TypeOK
<1>20. CASE Tick
  BY <1>20 DEF Tick, threadVars, TypeOK
<1>21. CASE UNCHANGED vars
  BY <1>21 DEF vars, threadVars, TypeOK
<1>22. ASSUME NEW t \in Threads, ThreadStep(t) PROVE BudgetInv'
  BY <1>22, <1>2, <1>3, <1>4, <1>5, <1>6, <1>7,
     <1>8, <1>9, <1>10, <1>11, <1>12,
     CheckBudgetKeeps, CollectIdleKeeps, OpenKeeps, OnOpenKeeps DEF ThreadStep
<1>23. ASSUME NEW b \in Background, BgStep(b) PROVE BudgetInv'
  BY <1>23, <1>13, <1>14, <1>15, <1>16, <1>17 DEF BgStep
<1> QED  BY <1>1, <1>18, <1>19, <1>20, <1>21, <1>22, <1>23 DEF Next

(* However acquires, releases, evictions and sweeps race, the fd budget is  *)
(* overshot by fewer handles than there are requests (manager.go:189-206):  *)
(* enforceBudget gives up when nothing is idle, and a thread that has seen  *)
(* room opens without looking again, but no excess adds up.                 *)
THEOREM OvershootIsBounded == Spec => []OvershootBounded
<1>1. Init => BudgetInv
  <2> SUFFICES ASSUME Init PROVE BudgetInv
    OBVIOUS
  <2>1. Used = {} /\ Reopening = {} /\ UnlistedAreNew
    BY DEF Init, Used, Reopening, AtPc, UnlistedAreNew
  <2>2. Threads \in SUBSET Threads /\ {} \in SUBSET Threads
    OBVIOUS
  <2> QED  BY <2>1, <2>2, ThreadSetsFinite, FS_EmptySet, BoundsAssumption DEF BudgetInv
<1>2. BudgetInv => OvershootBounded
  <2> SUFFICES ASSUME BudgetInv, MaxOpen > 0
               PROVE  Cardinality({p \in Paths : db[p] = "open"}) < MaxOpen + Cardinality(Threads)
    BY DEF OvershootBounded
  <2> DEFINE S == {p \in Paths : db[p] = "open"}
  <2>1. S \in SUBSET Used /\ IsFiniteSet(Used)
    BY DEF Used, BudgetInv
  <2> HIDE DEF S
  <2>2. Cardinality(S) <= Cardinality(Used) /\ Cardinality(S) \in Nat /\ Cardinality(Used) \in Nat
    BY <2>1, FS_Subset, FS_CardinalityType
  <2>3. Reopening \in SUBSET Threads
    BY DEF Reopening, AtPc
  <2>4. Cardinality(Reopening) \in Nat /\ Cardinality(Threads) \in Nat
    BY <2>3, ThreadSetsFinite
  <2>5. Cardinality(S) < MaxOpen + Cardinality(Threads)
    BY <2>2, <2>4, BoundsAssumption DEF BudgetInv
  <2> QED  BY <2>5 DEF S
<1> QED  BY <1>1, <1>2, Invariance, BudgetStep, PTL DEF Spec
-----------------------------------------------------------------------------
(* The Manager implements HandleLease. *)

AbsOpened  == {p \in Paths : db[p] = "open"}
AbsHolders == [p \in Paths |-> Pins(p)]

LEMMA Stutter ==
  ASSUME UNCHANGED db, \A p \in Paths : Pins(p)' = Pins(p)
  PROVE  [Lease1!Next]_(Lease1!vars)
BY DEF Lease1!vars

\* Taking the lease on an open handle.
LEMMA LeaseTakes ==
  ASSUME NEW t \in Threads, TypeOK, target[t] \in Paths, db[target[t]] = "open",
         pc[t] \notin Holding, Lease(t), UNCHANGED <<db, target>>
  PROVE  [Lease1!Next]_(Lease1!vars)
<1> DEFINE p == target[t]
<1>1. \A q \in Paths : Pins(q)' = IF q = p THEN Pins(q) \cup {t} ELSE Pins(q)
  BY DEF Lease, Pins, Holding, TypeOK
<1>2. AbsHolders' = [AbsHolders EXCEPT ![p] = @ \cup {t}]
  BY <1>1 DEF AbsHolders
<1>3. Lease1!Take(t, p)
  BY <1>2 DEF Lease1!Take, AbsHolders
<1> QED
  BY <1>3 DEF Lease1!Next

LEMMA OpenOpens ==
  ASSUME NEW p \in Paths, TypeOK, db[p] = "nil", db' = [db EXCEPT ![p] = "open"],
         \A q \in Paths : Pins(q)' = Pins(q)
  PROVE  [Lease1!Next]_(Lease1!vars)
<1>1. AbsOpened' = AbsOpened \cup {p} /\ p \notin AbsOpened
  BY DEF AbsOpened, TypeOK
<1>2. Lease1!OpenHandle(p)
  BY <1>1 DEF Lease1!OpenHandle, AbsOpened
<1> QED
  BY <1>2 DEF Lease1!Next

\* Closing under the mutex: the reference count says nobody holds a lease.
LEMMA CloseCloses ==
  ASSUME NEW a, NEW p \in Paths, NEW ttl, TypeOK, RefsCountLeases,
         CloseUnderLock(a, p, ttl), \A q \in Paths : Pins(q)' = Pins(q)
  PROVE  [Lease1!Next]_(Lease1!vars)
<1>1. Pins(p) = {}
  BY UnreferencedUnpinned DEF CloseUnderLock, Closable
<1>2. AbsOpened' = AbsOpened \ {p} /\ p \in AbsOpened
  BY DEF CloseUnderLock, Closable, AbsOpened, TypeOK
<1>3. Lease1!CloseHandle(p)
  BY <1>1, <1>2 DEF Lease1!CloseHandle, AbsOpened
<1> QED
  BY <1>3 DEF Lease1!Next

LEMMA StepRefines ==
  IInv /\ [Next]_vars => [Lease1!Next]_(Lease1!vars)
<1> SUFFICES ASSUME IInv, [Next]_vars PROVE [Lease1!Next]_(Lease1!vars)
  OBVIOUS
<1> USE DEF IInv, TypeOK, Goto, Holding, PCs
<1>1. ASSUME NEW t \in Threads, NEW p \in Paths, NEW r \in BOOLEAN, Acquire(t, p, r)
      PROVE [Lease1!Next]_(Lease1!vars)
  BY <1>1, Stutter DEF Acquire, Pins
<1>2. ASSUME NEW t \in Threads, AcquireClosed(t) PROVE [Lease1!Next]_(Lease1!vars)
  BY <1>2, Stutter DEF AcquireClosed, Pins
<1>3. ASSUME NEW t \in Threads, CheckBudget(t) PROVE [Lease1!Next]_(Lease1!vars)
  BY <1>3, Stutter DEF CheckBudget, Pins
<1>4. ASSUME NEW t \in Threads, CollectIdle(t) PROVE [Lease1!Next]_(Lease1!vars)
  BY <1>4, Stutter DEF CollectIdle, Pins
<1>5. ASSUME NEW t \in Threads, PickVictim(t) PROVE [Lease1!Next]_(Lease1!vars)
  BY <1>5, Stutter DEF PickVictim, Pins
<1>6. ASSUME NEW t \in Threads, EvictLost(t) PROVE [Lease1!Next]_(Lease1!vars)
  BY <1>6, Stutter DEF EvictLost, Pins
<1>7. ASSUME NEW t \in Threads, EvictDone(t) PROVE [Lease1!Next]_(Lease1!vars)
  BY <1>7, Stutter DEF EvictDone, OnClose, Pins
<1>8. ASSUME NEW t \in Threads, OpenFails(t) PROVE [Lease1!Next]_(Lease1!vars)
  BY <1>8, Stutter DEF OpenFails, Pins
<1>9. ASSUME NEW t \in Threads, OnOpen(t) PROVE [Lease1!Next]_(Lease1!vars)
  BY <1>9, Stutter DEF OnOpen, Pins
<1>10. ASSUME NEW t \in Threads, ReleaseStamp(t) PROVE [Lease1!Next]_(Lease1!vars)
  BY <1>10, Stutter DEF ReleaseStamp, Pins
<1>11. ASSUME NEW t \in Threads, BareDone(t) PROVE [Lease1!Next]_(Lease1!vars)
  BY <1>11, Stutter DEF BareDone, Pins
<1>12. ASSUME NEW t \in Threads, AcquireOpen(t) PROVE [Lease1!Next]_(Lease1!vars)
  BY <1>12, LeaseTakes DEF AcquireOpen
<1>13. ASSUME NEW t \in Threads, Grant(t) PROVE [Lease1!Next]_(Lease1!vars)
  BY <1>13, LeaseTakes DEF Grant, MutexInv
<1>14. ASSUME NEW t \in Threads, Evict(t) PROVE [Lease1!Next]_(Lease1!vars)
  <2>1. \A q \in Paths : Pins(q)' = Pins(q)
    BY <1>14 DEF Evict, Pins
  <2> QED
    BY <2>1, <1>14, CloseCloses DEF Evict, MutexInv
<1>15. ASSUME NEW t \in Threads, Open(t) PROVE [Lease1!Next]_(Lease1!vars)
  <2>1. \A q \in Paths : Pins(q)' = Pins(q)
    BY <1>15 DEF Open, Pins
  <2>2. target[t] \in Paths /\ db[target[t]] = "nil"
    BY <1>15 DEF Open
  <2>3. db' = [db EXCEPT ![target[t]] = "open"] /\ TypeOK
    BY <1>15 DEF Open
  <2> HIDE DEF IInv, TypeOK
  <2> QED
    BY <2>1, <2>2, <2>3, OpenOpens
<1>16. ASSUME NEW t \in Threads, ReleaseRef(t) PROVE [Lease1!Next]_(Lease1!vars)
  <2>1. \A p \in Paths : Pins(p)' = IF p = target[t] THEN Pins(p) \ {t} ELSE Pins(p)
    BY <1>16 DEF ReleaseRef, Pins
  <2>2. AbsHolders' = [AbsHolders EXCEPT ![target[t]] = @ \ {t}]
    BY <2>1 DEF AbsHolders
  <2>3. target[t] \in Paths /\ t \in Pins(target[t])
    BY <1>16 DEF ReleaseRef, Pins
  <2>4. Lease1!Drop(t, target[t])
    BY <1>16, <2>2, <2>3 DEF ReleaseRef, Lease1!Drop, AbsHolders
  <2> QED
    BY <2>3, <2>4 DEF Lease1!Next
<1>17. ASSUME NEW b \in Background, Snapshot(b) PROVE [Lease1!Next]_(Lease1!vars)
  BY <1>17, Stutter DEF Snapshot, threadVars, Pins
<1>18. ASSUME NEW b \in Background, SweepSkip(b) PROVE [Lease1!Next]_(Lease1!vars)
  BY <1>18, Stutter DEF SweepSkip, threadVars, Pins
<1>19. ASSUME NEW b \in Background, SweepOnClose(b) PROVE [Lease1!Next]_(Lease1!vars)
  BY <1>19, Stutter DEF SweepOnClose, threadVars, OnClose, Pins
<1>20. ASSUME NEW b \in Background, SweepEnd(b) PROVE [Lease1!Next]_(Lease1!vars)
  BY <1>20, Stutter DEF SweepEnd, threadVars, Pins
<1>21. ASSUME NEW b \in Background, SweepClose(b) PROVE [Lease1!Next]_(Lease1!vars)
  <2>1. \A q \in Paths : Pins(q)' = Pins(q)
    BY <1>21 DEF SweepClose, Pins
  <2>2. PICK p \in todo[b] : CloseUnderLock(b, p, BgTTL(b))
    BY <1>21 DEF SweepClose
  <2>3. p \in Paths /\ TypeOK /\ RefsCountLeases
    BY DEF IInv
  <2> HIDE DEF IInv, TypeOK, Goto, Holding, PCs
  <2> QED
    BY <2>1, <2>2, <2>3, CloseCloses
<1>22. CASE ReaperStops
  BY <1>22, Stutter DEF ReaperStops, threadVars, Pins
<1>23. CASE Shutdown
  BY <1>23, Stutter DEF Shutdown, threadVars, Pins
<1>24. CASE Tick
  BY <1>24, Stutter DEF Tick, threadVars, Pins
<1>25. CASE UNCHANGED vars
  BY <1>25, Stutter DEF vars, threadVars, Pins
<1> HIDE DEF IInv, TypeOK, Goto, Holding, PCs
<1>26. ASSUME NEW t \in Threads, ThreadStep(t) PROVE [Lease1!Next]_(Lease1!vars)
  BY <1>2, <1>3, <1>4, <1>5, <1>6, <1>7, <1>8, <1>9, <1>10, <1>11, <1>12, <1>13,
     <1>14, <1>15, <1>16, <1>26 DEF ThreadStep
<1>27. ASSUME NEW b \in Background, BgStep(b) PROVE [Lease1!Next]_(Lease1!vars)
  BY <1>17, <1>18, <1>19, <1>20, <1>21, <1>27 DEF BgStep
<1> QED
  BY <1>1, <1>22, <1>23, <1>24, <1>25, <1>26, <1>27 DEF Next

(* Whatever the interleaving, handles open and close only as HandleLease    *)
(* allows: never under a lease, and leases are given on open handles only   *)
(* (manager.go:25, 29-32).                                                  *)
THEOREM Implements == Spec => LeaseSpec
<1>1. Init => Lease1!Init
  BY DEF Init, Lease1!Init, Pins, Holding
<1> QED
  BY <1>1, StepRefines, Invariance, PTL DEF Spec, LeaseSpec, Lease1!Spec
=============================================================================
