---------------------------- MODULE VersionedStore ----------------------------
(***************************************************************************)
(* What a corpus promises about one address, whatever its links and        *)
(* whoever its clients are (spec/revisions.md, spec/memory.md MEM-12): a   *)
(* memory is created once, its history only grows, one version at a time,  *)
(* and a deleted address stays deleted, its history gone and never         *)
(* written again.                                                          *)
(***************************************************************************)
EXTENDS Integers

CONSTANTS Ids,     \* addresses
          Bodies   \* what a version can hold

VARIABLES
  length,   \* length[i]: versions committed, 0 when i holds nothing
  history,  \* history[i][v]: the body of version v, for v in 1..length[i]
  burned    \* addresses deleted

vars == <<length, history, burned>>

Init ==
  /\ length = [i \in Ids |-> 0]
  /\ history = [i \in Ids |-> [v \in 1..0 |-> v]]
  /\ burned = {}

\* version n of address i becomes b, every earlier version stays as it was
Extend(i, n, b) ==
  /\ length' = [length EXCEPT ![i] = n]
  /\ history' = [history EXCEPT ![i] =
                   [v \in 1..n |-> IF v = n THEN b ELSE history[i][v]]]
  /\ UNCHANGED burned

Create(i) == \E b \in Bodies :
  length[i] = 0 /\ i \notin burned /\ Extend(i, 1, b)

Append(i) == \E b \in Bodies, n \in {length[i] + 1} :
  length[i] > 0 /\ i \notin burned /\ Extend(i, n, b)

Burn(i) ==
  /\ length[i] > 0
  /\ length' = [length EXCEPT ![i] = 0]
  /\ history' = [history EXCEPT ![i] = [v \in 1..0 |-> v]]
  /\ burned' = burned \cup {i}

Next == \E i \in Ids : Create(i) \/ Append(i) \/ Burn(i)

Spec == Init /\ [][Next]_vars
===============================================================================
