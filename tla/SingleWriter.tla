---------------------------- MODULE SingleWriter ----------------------------
(***************************************************************************)
(* What the write lease promises about one tenant (or the registry): at    *)
(* any time at most one node accepts writes, and the right to do so never  *)
(* goes from one node straight to another, it is given up first.           *)
(***************************************************************************)
CONSTANTS Nodes, Nobody

VARIABLE writer

Init == writer = Nobody

Promote(n) == writer = Nobody /\ writer' = n

Demote == writer # Nobody /\ writer' = Nobody

Next == Demote \/ \E n \in Nodes : Promote(n)

Spec == Init /\ [][Next]_writer
=============================================================================
