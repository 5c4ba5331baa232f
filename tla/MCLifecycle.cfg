SPECIFICATION Spec
CONSTANTS
  Configures = {c1, c2}
  Receives = {r1, r2}
  Sends = {s1}
  NoBlock = NoBlock
  MaxConnectors = 3
SYMMETRY BlocksAreAlike
INVARIANTS
  TypeOK
  FaultNeedsDisorder
  BlocksShareConnector
  BlocksServeThemselves
  NothingLeaks
CHECK_DEADLOCK FALSE
