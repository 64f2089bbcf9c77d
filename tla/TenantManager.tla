--------------------------- MODULE TenantManager ---------------------------
(***************************************************************************)
(* src/internal/db/manager.go: the lifecycle of the per-tenant SQLite      *)
(* handles.  Request goroutines (Threads) acquire and release handles; the *)
(* reaper goroutine closes idle ones; Shutdown closes the rest.  A step is *)
(* what runs between two points at which another goroutine can be seen:    *)
(* the acquisition of an Instance's mutex (lock), of the Manager's mutex,  *)
(* or an atomic counter.                                                   *)
(*                                                                         *)
(* Time is abstracted to the age of an Instance's last use, counted in     *)
(* ticks up to MaxAge; IdleTTL is measured in ticks.  The Instance structs *)
(* (get-or-created and never removed) exist for every path from the start. *)
(***************************************************************************)
EXTENDS Integers, FiniteSets

CONSTANTS Paths,     \* tenant database files
          Threads,   \* request goroutines
          MaxOpen,   \* ManagerOptions.MaxOpen, 0 = unlimited
          IdleTTL,   \* ManagerOptions.IdleTTL, in ticks
          MaxAge     \* the age at which counting stops

Background == {"reaper", "shutdown"}
Free       == "free"
NoPath     == "no path"
Actors     == Threads \cup Background

ASSUME ThreadsAssumption ==
  IsFiniteSet(Threads) /\ Threads \cap (Background \cup {Free}) = {}
ASSUME BoundsAssumption ==
  MaxOpen \in Nat /\ IdleTTL \in Nat \ {0} /\ MaxAge \in Nat /\ IdleTTL <= MaxAge

VARIABLES
  lock,     \* lock[p]: who holds Instance.mu, or Free
  db,       \* db[p]: Instance.db, "nil" or "open"
  refs,     \* refs[p]: Instance.refs
  age,      \* age[p]: ticks since Instance.lastUsed
  open,     \* Manager.open, the paths it believes open
  pc,       \* pc[t]: where the thread is
  target,   \* target[t]: the path the thread is acquiring or using
  bare,     \* bare[t]: the call is GetOrOpenMem, which releases at once
  ptr,      \* ptr[t]: what the *MemoryDB the thread was given points to
  cand,     \* cand[t]: lruIdleOpen's candidates
  victim,   \* victim[a]: the Instance being evicted or reaped
  bg,       \* bg[b]: where reaper and Shutdown are
  todo,     \* todo[b]: rest of the snapshot they walk through
  stop      \* the stop channel is closed

threadVars == <<pc, target, bare, ptr, cand>>
bgVars     == <<bg, todo, stop>>
vars == <<lock, db, refs, age, open, threadVars, victim, bgVars>>

Holding  == {"use", "releasing"}        \* a lease is held: refs counts it
PCs      == Holding \cup {"idle", "enter", "budget", "lru", "pick", "evict",
                          "evicted", "relock", "opened", "grant", "bare"}
BgStates == {"off", "wait", "sweep", "closing", "done"}

Pins(p) == {t \in Threads : pc[t] \in Holding /\ target[t] = p}

Init ==
  /\ lock = [p \in Paths |-> Free]
  /\ db = [p \in Paths |-> "nil"]
  /\ refs = [p \in Paths |-> 0]
  /\ age = [p \in Paths |-> 0]
  /\ open = {}
  /\ pc = [t \in Threads |-> "idle"]
  /\ target = [t \in Threads |-> NoPath]
  /\ bare = [t \in Threads |-> FALSE]
  /\ ptr = [t \in Threads |-> "none"]
  /\ cand = [t \in Threads |-> {}]
  /\ victim = [a \in Actors |-> NoPath]
  /\ bg = [b \in Background |-> IF b = "reaper" THEN "wait" ELSE "off"]
  /\ todo = [b \in Background |-> {}]
  /\ stop = FALSE

Goto(t, from, to) == pc[t] = from /\ pc' = [pc EXCEPT ![t] = to]
-----------------------------------------------------------------------------
(* closeIfIdle, run by an evicting thread (ttl 0), the reaper, or Shutdown. *)

\* faulty variants: no refs check; the idle time compared the wrong way
Closable_NoRefs(p, ttl) == db[p] = "open" /\ (ttl > 0 => age[p] >= ttl)
Closable_Young(p, ttl) ==
  db[p] = "open" /\ refs[p] = 0 /\ (ttl > 0 => age[p] < ttl)

\* The condition closeIfIdle tests under i.mu.
Closable(p, ttl) == db[p] = "open" /\ refs[p] = 0 /\ (ttl > 0 => age[p] >= ttl)

\* i.db.Close(); i.db = nil.  Every pointer to that MemoryDB is now dead.
CloseUnderLock(a, p, ttl) ==
  /\ lock[p] = Free /\ Closable(p, ttl)
  /\ lock' = [lock EXCEPT ![p] = a]
  /\ db' = [db EXCEPT ![p] = "nil"]
  /\ ptr' = [t \in Threads |-> IF target[t] = p /\ ptr[t] = "open"
                               THEN "closed" ELSE ptr[t]]
  /\ victim' = [victim EXCEPT ![a] = p]

\* faulty variant: the map is not updated
OnClose_Forget(a) ==
  /\ open' = open
  /\ lock' = [lock EXCEPT ![victim[a]] = Free]
  /\ victim' = [victim EXCEPT ![a] = NoPath]

\* mgr.onClose(i), then the deferred unlock.
OnClose(a) ==
  /\ open' = open \ {victim[a]}
  /\ lock' = [lock EXCEPT ![victim[a]] = Free]
  /\ victim' = [victim EXCEPT ![a] = NoPath]
-----------------------------------------------------------------------------
(* Instance.Acquire *)

\* refs.Add(1), lastUsed.Store(now), unlock, return i.db.
Lease(t) ==
  LET p == target[t] IN
  /\ refs' = [refs EXCEPT ![p] = @ + 1]
  /\ age' = [age EXCEPT ![p] = 0]
  /\ ptr' = [ptr EXCEPT ![t] = "open"]
  /\ pc' = [pc EXCEPT ![t] = "use"]

\* A request that holds its lease to the end, or GetOrOpenMem, that does not.
Acquire(t, p, releasesAtOnce) ==
  /\ Goto(t, "idle", "enter")
  /\ target' = [target EXCEPT ![t] = p]
  /\ bare' = [bare EXCEPT ![t] = releasesAtOnce]
  /\ UNCHANGED <<lock, db, refs, age, open, ptr, cand, victim, bgVars>>

\* The handle is already open: lease it under the mutex.
AcquireOpen(t) ==
  /\ pc[t] \in {"enter", "relock"}
  /\ lock[target[t]] = Free /\ db[target[t]] = "open"
  /\ Lease(t)
  /\ UNCHANGED <<lock, db, open, target, bare, cand, victim, bgVars>>

AcquireClosed(t) ==
  /\ Goto(t, "enter", "budget")
  /\ lock[target[t]] = Free /\ db[target[t]] = "nil"
  /\ UNCHANGED <<lock, db, refs, age, open, target, bare, ptr, cand, victim, bgVars>>

\* enforceBudget: the loop condition.
BudgetOK == MaxOpen = 0 \/ Cardinality(open) < MaxOpen

\* faulty variant: enforceBudget returns without looking at the open count
CheckBudget_Never(t) ==
  /\ Goto(t, "budget", "relock")
  /\ UNCHANGED <<lock, db, refs, age, open, target, bare, ptr, cand, victim, bgVars>>

CheckBudget(t) ==
  /\ Goto(t, "budget", IF BudgetOK THEN "relock" ELSE "lru")
  /\ UNCHANGED <<lock, db, refs, age, open, target, bare, ptr, cand, victim, bgVars>>

\* lruIdleOpen under m.mu; none idle: give up and overshoot.
CollectIdle(t) ==
  LET idle == {p \in open : refs[p] = 0} IN
  /\ Goto(t, "lru", IF idle = {} THEN "relock" ELSE "pick")
  /\ cand' = [cand EXCEPT ![t] = idle]
  /\ UNCHANGED <<lock, db, refs, age, open, target, bare, ptr, victim, bgVars>>

\* The sort by lastUsed, after m.mu is released.
PickVictim(t) ==
  /\ Goto(t, "pick", "evict")
  /\ \E p \in cand[t] : /\ \A q \in cand[t] : age[q] <= age[p]
                        /\ victim' = [victim EXCEPT ![t] = p]
  /\ cand' = [cand EXCEPT ![t] = {}]
  /\ UNCHANGED <<lock, db, refs, age, open, target, bare, ptr, bgVars>>

Evict(t) ==
  /\ Goto(t, "evict", "evicted")
  /\ CloseUnderLock(t, victim[t], 0)
  /\ UNCHANGED <<refs, age, open, target, bare, cand, bgVars>>

\* Lost the race: closeIfIdle returned false, the loop goes round again.
EvictLost(t) ==
  /\ Goto(t, "evict", "budget")
  /\ lock[victim[t]] = Free /\ ~Closable(victim[t], 0)
  /\ victim' = [victim EXCEPT ![t] = NoPath]
  /\ UNCHANGED <<lock, db, refs, age, open, target, bare, ptr, cand, bgVars>>

EvictDone(t) ==
  /\ Goto(t, "evicted", "budget")
  /\ OnClose(t)
  /\ UNCHANGED <<db, refs, age, target, bare, ptr, cand, bgVars>>

\* Second lock, double check, open under the mutex.
Open(t) ==
  /\ Goto(t, "relock", "opened")
  /\ lock[target[t]] = Free /\ db[target[t]] = "nil"
  /\ lock' = [lock EXCEPT ![target[t]] = t]
  /\ db' = [db EXCEPT ![target[t]] = "open"]
  /\ UNCHANGED <<refs, age, open, target, bare, ptr, cand, victim, bgVars>>

\* i.open failed: unlock and return the error with a no-op release.
OpenFails(t) ==
  /\ Goto(t, "relock", "idle")
  /\ lock[target[t]] = Free /\ db[target[t]] = "nil"
  /\ target' = [target EXCEPT ![t] = NoPath]
  /\ bare' = [bare EXCEPT ![t] = FALSE]
  /\ UNCHANGED <<lock, db, refs, age, open, ptr, cand, victim, bgVars>>

OnOpen(t) ==
  /\ Goto(t, "opened", "grant")
  /\ open' = open \cup {target[t]}
  /\ UNCHANGED <<lock, db, refs, age, target, bare, ptr, cand, victim, bgVars>>

\* faulty variant: the mutex stays locked on the opening path
Grant_KeepLock(t) ==
  /\ pc[t] = "grant"
  /\ Lease(t)
  /\ UNCHANGED <<lock, db, open, target, bare, cand, victim, bgVars>>

Grant(t) ==
  /\ pc[t] = "grant"
  /\ Lease(t)
  /\ lock' = [lock EXCEPT ![target[t]] = Free]
  /\ UNCHANGED <<db, open, target, bare, cand, victim, bgVars>>
-----------------------------------------------------------------------------
(* Instance.release, called once per lease *)

ReleaseStamp(t) ==
  /\ Goto(t, "use", "releasing")
  /\ age' = [age EXCEPT ![target[t]] = 0]
  /\ UNCHANGED <<lock, db, refs, open, target, bare, ptr, cand, victim, bgVars>>

\* faulty variant: only callers that keep their lease drop the reference
ReleaseRef_Leak(t) ==
  /\ Goto(t, "releasing", IF bare[t] THEN "bare" ELSE "idle")
  /\ refs' = [refs EXCEPT ![target[t]] = IF bare[t] THEN @ ELSE @ - 1]
  /\ target' = [target EXCEPT ![t] = IF bare[t] THEN @ ELSE NoPath]
  /\ ptr' = [ptr EXCEPT ![t] = IF bare[t] THEN @ ELSE "none"]
  /\ UNCHANGED <<lock, db, age, open, bare, cand, victim, bgVars>>

\* GetOrOpenMem goes on to return the pointer it no longer holds a lease for.
ReleaseRef(t) ==
  /\ Goto(t, "releasing", IF bare[t] THEN "bare" ELSE "idle")
  /\ refs' = [refs EXCEPT ![target[t]] = @ - 1]
  /\ target' = [target EXCEPT ![t] = IF bare[t] THEN @ ELSE NoPath]
  /\ ptr' = [ptr EXCEPT ![t] = IF bare[t] THEN @ ELSE "none"]
  /\ UNCHANGED <<lock, db, age, open, bare, cand, victim, bgVars>>

\* The caller of GetOrOpenMem is done with the pointer.
BareDone(t) ==
  /\ Goto(t, "bare", "idle")
  /\ target' = [target EXCEPT ![t] = NoPath]
  /\ bare' = [bare EXCEPT ![t] = FALSE]
  /\ ptr' = [ptr EXCEPT ![t] = "none"]
  /\ UNCHANGED <<lock, db, refs, age, open, cand, victim, bgVars>>
-----------------------------------------------------------------------------
(* reapLoop and Shutdown *)

BgTTL(b) == IF b = "reaper" THEN IdleTTL ELSE 0

\* The ticker fires (reap), or reapLoop has ended (Shutdown): copy m.open.
Snapshot(b) ==
  /\ bg[b] = "wait"
  /\ b = "shutdown" => bg["reaper"] = "done"
  /\ bg' = [bg EXCEPT ![b] = "sweep"]
  /\ todo' = [todo EXCEPT ![b] = open]
  /\ UNCHANGED <<lock, db, refs, age, open, threadVars, victim, stop>>

SweepClose(b) ==
  /\ bg[b] = "sweep"
  /\ \E p \in todo[b] : /\ CloseUnderLock(b, p, BgTTL(b))
                        /\ todo' = [todo EXCEPT ![b] = @ \ {p}]
  /\ bg' = [bg EXCEPT ![b] = "closing"]
  /\ UNCHANGED <<refs, age, open, pc, target, bare, cand, stop>>

SweepSkip(b) ==
  /\ bg[b] = "sweep"
  /\ \E p \in todo[b] : /\ lock[p] = Free /\ ~Closable(p, BgTTL(b))
                        /\ todo' = [todo EXCEPT ![b] = @ \ {p}]
  /\ UNCHANGED <<lock, db, refs, age, open, threadVars, victim, bg, stop>>

SweepOnClose(b) ==
  /\ bg[b] = "closing"
  /\ OnClose(b)
  /\ bg' = [bg EXCEPT ![b] = "sweep"]
  /\ UNCHANGED <<db, refs, age, threadVars, todo, stop>>

SweepEnd(b) ==
  /\ bg[b] = "sweep" /\ todo[b] = {}
  /\ bg' = [bg EXCEPT ![b] = IF b = "reaper" THEN "wait" ELSE "done"]
  /\ UNCHANGED <<lock, db, refs, age, open, threadVars, victim, todo, stop>>

ReaperStops ==
  /\ stop /\ bg["reaper"] = "wait"
  /\ bg' = [bg EXCEPT !["reaper"] = "done"]
  /\ UNCHANGED <<lock, db, refs, age, open, threadVars, victim, todo, stop>>

\* Shutdown closes the stop channel once, and may be called again.
Shutdown ==
  /\ bg["shutdown"] \in {"off", "done"}
  /\ stop' = TRUE
  /\ bg' = [bg EXCEPT !["shutdown"] = "wait"]
  /\ UNCHANGED <<lock, db, refs, age, open, threadVars, victim, todo>>

\* Time passes.
Tick ==
  /\ age' = [p \in Paths |-> IF age[p] < MaxAge THEN age[p] + 1 ELSE age[p]]
  /\ UNCHANGED <<lock, db, refs, open, threadVars, victim, bgVars>>
-----------------------------------------------------------------------------
ThreadStep(t) ==
  \/ AcquireOpen(t) \/ AcquireClosed(t) \/ CheckBudget(t) \/ CollectIdle(t)
  \/ PickVictim(t) \/ Evict(t) \/ EvictLost(t) \/ EvictDone(t)
  \/ Open(t) \/ OpenFails(t) \/ OnOpen(t) \/ Grant(t)
  \/ ReleaseStamp(t) \/ ReleaseRef(t) \/ BareDone(t)

BgStep(b) ==
  Snapshot(b) \/ SweepClose(b) \/ SweepSkip(b) \/ SweepOnClose(b) \/ SweepEnd(b)

Next ==
  \/ \E t \in Threads :
        \/ \E p \in Paths, r \in BOOLEAN : Acquire(t, p, r)
        \/ ThreadStep(t)
  \/ \E b \in Background : BgStep(b)
  \/ ReaperStops
  \/ Shutdown
  \/ Tick

Spec == Init /\ [][Next]_vars

(* Fairness: a goroutine that can run does; a mutex is handed to a waiter   *)
(* in the end (Go's mutex is starvation free), so the steps that lock are   *)
(* strongly fair.  Nothing makes a request arrive, and the server is not    *)
(* being shut down.                                                         *)
Fairness ==
  /\ \A t \in Threads : SF_vars(ThreadStep(t))
  /\ SF_vars(BgStep("reaper"))
  /\ WF_vars(Tick)

FairSpec == Init /\ [][Next /\ ~stop']_vars /\ Fairness
-----------------------------------------------------------------------------
TypeOK ==
  /\ lock \in [Paths -> Actors \cup {Free}]
  /\ db \in [Paths -> {"nil", "open"}]
  /\ refs \in [Paths -> Nat]
  /\ age \in [Paths -> 0..MaxAge]
  /\ open \subseteq Paths
  /\ pc \in [Threads -> PCs]
  /\ target \in [Threads -> Paths \cup {NoPath}]
  /\ \A t \in Threads : pc[t] # "idle" => target[t] \in Paths
  /\ bare \in [Threads -> BOOLEAN]
  /\ ptr \in [Threads -> {"none", "open", "closed"}]
  /\ cand \in [Threads -> SUBSET Paths]
  /\ victim \in [Actors -> Paths \cup {NoPath}]
  /\ bg \in [Background -> BgStates]
  /\ todo \in [Background -> SUBSET Paths]
  /\ stop \in BOOLEAN

(* Acquire's promise (manager.go:29-32): while a request holds its lease    *)
(* the MemoryDB it was given stays open, whatever the reaper, an eviction   *)
(* for another tenant or Shutdown does meanwhile.                           *)
LeasedHandleStaysOpen ==
  \A t \in Threads : pc[t] \in Holding => ptr[t] = "open"

(* refs is exactly the number of leases: no path through Acquire, its       *)
(* failure or release counts one twice or forgets one (manager.go:52,60).   *)
RefsCountLeases == \A p \in Paths : refs[p] = Cardinality(Pins(p))

(* Whenever an Instance's mutex is free, the Manager's map of open handles  *)
(* tells the truth about it: budget and reaper see every open handle        *)
(* (manager.go:175-187).                                                    *)
OpenMapAgrees ==
  \A p \in Paths : lock[p] = Free => (p \in open <=> db[p] = "open")

(* However acquires, releases and evictions race, the fd budget is overshot *)
(* by fewer handles than there are requests in flight (manager.go:189-206). *)
OvershootBounded ==
  MaxOpen > 0 =>
    Cardinality({p \in Paths : db[p] = "open"}) < MaxOpen + Cardinality(Threads)

(* What makes the promise inductive: who holds a mutex, and what the holder *)
(* has done so far to the handle and to the map.                            *)
MutexInv ==
  /\ \A t \in Threads :
       /\ pc[t] \in {"evict", "evicted"} => victim[t] \in Paths
       /\ pc[t] = "evicted" => lock[victim[t]] = t /\ db[victim[t]] = "nil"
       /\ pc[t] \in {"opened", "grant"} =>
             lock[target[t]] = t /\ db[target[t]] = "open"
       /\ pc[t] = "grant" => target[t] \in open
  /\ \A b \in Background : bg[b] = "closing" =>
       victim[b] \in Paths /\ lock[victim[b]] = b /\ db[victim[b]] = "nil"

LeaseInv ==
  \A t \in Threads : pc[t] \in Holding => ptr[t] = "open" /\ db[target[t]] = "open"

IInv == TypeOK /\ RefsCountLeases /\ OpenMapAgrees /\ MutexInv /\ LeaseInv

(* Every use of a handle is of an open one, GetOrOpenMem's callers included *)
(* (manager.go:30-31: never closed "out from under an in-flight request").  *)
(* It fails for those callers, whose lease has ended: see the README.       *)
NoUseAfterClose ==
  \A t \in Threads : pc[t] \in Holding \cup {"bare"} => ptr[t] = "open"

Wanted(p) == \E t \in Threads : target[t] = p

(* No handle stays open for ever once requests have stopped asking for it:  *)
(* the reaper gets to it (manager.go:10-13, 227-251).                       *)
UnwantedHandlesClose == \A p \in Paths : []<>(db[p] = "nil" \/ Wanted(p))

(* No goroutine ever keeps an Instance's mutex: enforceBudget closes other  *)
(* Instances without holding its own, so evictions cannot wait for each     *)
(* other in a cycle (manager.go:36-40).                                     *)
MutexesAreReleased == \A p \in Paths : []<>(lock[p] = Free)

(* The Manager implements HandleLease: handles open and close only as that  *)
(* specification allows, leases being what refs counts.                     *)
Lease1 == INSTANCE HandleLease
            WITH opened <- {p \in Paths : db[p] = "open"},
                 holders <- [p \in Paths |-> Pins(p)]
LeaseSpec == Lease1!Spec
=============================================================================
