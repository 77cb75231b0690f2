CONSTANTS
  i1 = i1
  i2 = i2
  i3 = i3
  Inv = {i1, i2}
  Nobody = Nobody
  MaxDeploys = 2
  MaxCrashes = 0
SPECIFICATION Spec
INVARIANT RunsDeployedCode
CHECK_DEADLOCK FALSE
