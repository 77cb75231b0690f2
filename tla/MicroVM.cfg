\* Three invocations of one function: one leaves the snapshot, two restore it at once.
CONSTANTS
  i1 = i1
  i2 = i2
  i3 = i3
  Inv = {i1, i2, i3}
  Nobody = Nobody
  MaxDeploys = 1
  MaxCrashes = 1
SPECIFICATION Spec
SYMMETRY Symmetry
INVARIANTS ServableSnapshot NothingLeft TwoGuestsAtMost ColdGuestIsOwn
\* Every invocation may have returned.
CHECK_DEADLOCK FALSE
