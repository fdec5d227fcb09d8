\* Two clients whose requests overlap and get lost.
CONSTANTS
  Tokens = {t1, t2, t3, t4}
  Clients = {c1, c2}
  NoToken = NoToken
  Faults = {"lost", "pipeline"}
CHECK_DEADLOCK FALSE
SPECIFICATION Spec
SYMMETRY TokenSymmetry
INVARIANTS
  TypeOK
  SpentTokensAreGone
  ExchangesAreBounded
