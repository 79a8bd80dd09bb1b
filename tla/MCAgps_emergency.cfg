SPECIFICATION Spec
CONSTANTS
  Handles = {h1, h2}
  Types = {"SUPL", "SUPL_ES"}
  AgpsCapable = TRUE
  UseEmergencyPdn = TRUE
  ApnValid = FALSE
  MaxRetries = 1
  MaxQueue = 2
  MaxTimers = 1
SYMMETRY HandleSymmetry
INVARIANTS TypeOK HeldConnectionHasActiveSubscriber ReleasingHasWaiter
