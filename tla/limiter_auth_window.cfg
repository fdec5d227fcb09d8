\* The same: how long the tight limit lasts.
CONSTANTS
  r1 = r1  r2 = r2  r3 = r3  r4 = r4
  Processes = {"api1"}
  Requests = {r1, r2, r3}
  Paths = {"login"}
  Limiters <- AuthLimiters
  MaxTime = 5
  Never = Never
  Faults = {}
CHECK_DEADLOCK FALSE
SPECIFICATION Spec
SYMMETRY RequestSymmetry
INVARIANT LimitHolds
