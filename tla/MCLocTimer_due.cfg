SPECIFICATION Spec
CONSTANTS
  t1 = t1
  t2 = t2
  t3 = t3
  t4 = t4
  sw = sw
  hw = hw
  None = None
  Timers = {t1, t2, t3, t4}
  Containers = {sw, hw}
  Copies = 2
  Wakes <- ThreeAndOne
  Delays <- ShortAndLong
  Stopped = {t2}
  Horizon = 4
  MaxQueue = 2
INVARIANT PopsOnlyWhatIsDue
CHECK_DEADLOCK FALSE
