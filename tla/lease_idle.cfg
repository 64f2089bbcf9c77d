SPECIFICATION Spec
CONSTANTS
  n1 = n1  n2 = n2
  Nodes = {n1, n2}
  States <- ThreeStates
  Nobody = Nobody
INVARIANTS OpenFileIsActive
