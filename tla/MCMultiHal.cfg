SPECIFICATION FairSpec
CONSTANTS
  Capacity = 2
  Modules = 2
  SensorList <- MCSensorList
  Locals = {1, 2}
  Delivers <- MCDelivers
  MaxReads = 1
INVARIANTS TypeOK RegionIsFree NoLostWakeup
PROPERTIES OldestEventIsRead FifoSpec
