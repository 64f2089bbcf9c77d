------------------------------- MODULE MCReads -------------------------------
(* Instances for the runs of Reads. *)
EXTENDS Reads, TLC

CONSTANTS work, other, notes, m1, m2, m3, v, w

\* The work of the lists has a wildcard in it, as w_rk has, and other is what it
\* matches: LIKE takes <<other, notes>> for a branch of <<work>>.
Tree == {<<work>>, <<work, notes>>, <<other, notes>>}
Wild == {<<<<work>>, <<work, notes>>>>, <<<<work>>, <<other, notes>>>>}

\* Everything; a branch; a smaller one and the titles of the rest; titles alone.
Scope(all, read, titles) == [all |-> all, read |-> read, titles |-> titles]
SomeScopes == {Scope(TRUE, {}, {}), Scope(FALSE, {<<work>>}, {}),
               Scope(FALSE, {<<work, notes>>}, {<<work>>}), Scope(FALSE, {}, {<<work, notes>>})}

FewPages  == {<<0, 0>>, <<1, 0>>, <<1, 1>>, <<2, 1>>}
OneTwoTwo == (m1 :> 1 @@ m2 :> 2 @@ m3 :> 2)
Symmetry  == Permutations({m2, m3}) \cup Permutations({v, w})

\* m1 alone lies under other.
Placed == \A i \in Memories \ {m1} : place[i] # Nothing => place[i].at[1] = work
MCInit == Init /\ Placed

\* Writes race with reads of at most two rows.
MCNext ==
  \/ Call \/ Statement
  \/ /\ Cardinality({i \in Memories : place[i] # Nothing}) <= 2
     /\ \E i \in Memories : Write(i) \/ Delete(i)
     /\ Placed'

MCSpec == MCInit /\ [][MCNext]_vars
=============================================================================
