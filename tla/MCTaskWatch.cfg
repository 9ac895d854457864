CONSTANTS
  t1 = t1
  t2 = t2
  t3 = t3
  Task = {t1, t2, t3}
  Self = self
  Sentinel = sentinel
  MaxEvents = 4
  MaxTasks = 3
  MaxSamples = 3
SPECIFICATION Spec
INVARIANTS TypeOK FullMeansMoreTasks NoPhantoms ReadyNeverMissed LogIsTheDifferences CleanWatchIsTrue
PROPERTY ImplementsObserver
SYMMETRY Symmetry
CHECK_DEADLOCK FALSE
