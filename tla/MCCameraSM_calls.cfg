SPECIFICATION Spec
CONSTANTS
  c1 = c1
  c2 = c2
  AppThreads = {c1, c2}
  IntPic = ip
  Config <- SafetyConfig
  MaxEvents = 2
CHECK_DEADLOCK FALSE
INVARIANTS MessageIsKept CallIsAccounted PreviewRuns StoppedIsStopped RecordingIsBacked
