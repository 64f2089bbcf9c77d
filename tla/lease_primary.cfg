SPECIFICATION MCFairSpec
CONSTANTS
  n1 = n1  n2 = n2
  Nodes = {n1, n2}
  States <- TwoStates
  Nobody = Nobody
INVARIANTS AtMostOnePrimary
PROPERTIES WriterSpec LeaseReclaimed LateStepsDown
