\* One process, one limiter and two paths, late answers and failed evals.
CONSTANTS
  r1 = r1  r2 = r2  r3 = r3  r4 = r4
  Processes = {"api1"}
  Requests = {r1, r2, r3, r4}
  Paths = {"documents", "tenant"}
  Limiters <- ApiLimiter
  MaxTime = 5
  Never = Never
  Faults = {"redis"}
CHECK_DEADLOCK FALSE
SPECIFICATION Spec
SYMMETRY RequestSymmetry
INVARIANTS
  TypeOK
  LimitHolds
PROPERTY DeniedOnlyAtLimit
