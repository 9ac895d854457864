CONSTANTS
  t1 = t1
  t2 = t2
  t3 = t3
  Task = {t1, t2, t3}
  Self = self
  Sentinel = sentinel
  MaxEvents = 4
  MaxTasks = 3
  MaxSamples = 2
SPECIFICATION Spec
INVARIANT StableTaskIsSilent
CHECK_DEADLOCK FALSE
