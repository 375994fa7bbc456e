CONSTANTS
  l1 = l1
  b1 = b1
  m1 = m1
  None = None
  Tasks <- OneHomeTasks
  Lane <- TaskLane
  Gen <- TaskGen
  Generations = {1}
  Events <- RetryEvents
  MaxLiveBurst = 1
  MaxAttempts = 1
  LaneCapacity = 1
  Slices = 1
SPECIFICATION Spec
INVARIANTS
  RetryAccepted
