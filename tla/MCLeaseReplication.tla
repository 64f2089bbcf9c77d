------------------------ MODULE MCLeaseReplication ------------------------
(* Instances for the runs of LeaseReplication. *)
EXTENDS LeaseReplication

CONSTANTS n1, n2

\* One node may have a deactivated tenantState besides the active one.
ThreeStates == {<<n1, 1>>, <<n1, 2>>, <<n2, 1>>}
TwoStates   == {<<n1, 1>>, <<n2, 1>>}

\* The nodes do not both shut down, nor both sweep, at one time.
OneAtATime ==
  /\ \A m, n \in Nodes : closing[m] /\ closing[n] => m = n
  /\ \A m, n \in Nodes : doomed[m] /\ doomed[n] => m = n

MCFairSpec == Init /\ [][Next /\ OneAtATime']_vars /\ Fairness
=============================================================================
