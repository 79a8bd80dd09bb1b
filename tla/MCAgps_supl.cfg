SPECIFICATION FairSpec
CONSTANTS
  Handles = {h1, h2}
  Types = {"SUPL", "SUPL_ES", "WWAN_ANY"}
  AgpsCapable = TRUE
  UseEmergencyPdn = FALSE
  ApnValid = TRUE
  MaxRetries = 1
  MaxQueue = 3
  MaxTimers = 1
INVARIANTS PendingAwaitsAnswer OpenHandleIsServed
PROPERTY OpenIsAnswered
