---------------------------- MODULE HandleLease ----------------------------
(***************************************************************************)
(* What the tenant Manager promises its callers: a tenant's handle is open *)
(* or closed; a request may take a lease only on an open handle, and no    *)
(* handle is closed while a lease on it is outstanding ("a handle with     *)
(* refs>0 is never closed", src/internal/db/manager.go:25).  How handles   *)
(* are found, counted, evicted and locked is left to TenantManager, which  *)
(* implements this specification.                                          *)
(***************************************************************************)
CONSTANTS Paths,     \* tenant database files
          Threads    \* request goroutines

VARIABLES opened,    \* the handles that are open
          holders    \* holders[p]: the threads with a lease on p's handle

vars == <<opened, holders>>

Init == opened = {} /\ holders = [p \in Paths |-> {}]

OpenHandle(p) == p \notin opened /\ opened' = opened \cup {p} /\ UNCHANGED holders

Take(t, p) == /\ p \in opened
              /\ holders' = [holders EXCEPT ![p] = @ \cup {t}]
              /\ UNCHANGED opened

Drop(t, p) == /\ t \in holders[p]
              /\ holders' = [holders EXCEPT ![p] = @ \ {t}]
              /\ UNCHANGED opened

CloseHandle(p) == /\ p \in opened /\ holders[p] = {}
                  /\ opened' = opened \ {p}
                  /\ UNCHANGED holders

Next == \E p \in Paths :
          \/ OpenHandle(p)
          \/ CloseHandle(p)
          \/ \E t \in Threads : Take(t, p) \/ Drop(t, p)

Spec == Init /\ [][Next]_vars
=============================================================================
