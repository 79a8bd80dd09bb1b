SPECIFICATION FairSpec
CONSTANTS
  Clients = {c1, c2}
  Intervals = {1, 2}
  Modes = {"MSB"}
  Setups <- MCSetups
INVARIANTS TypeOK EngineRunsSmallestInterval MaskReachesEngine SessionHasClient
PROPERTY FixComesBack
