\* 4 polls at most, and up to 4 disk changes anywhere in between.
CONSTANTS
  MaxEvents = 3
  MaxSamples = 4
  MaxChange = 4
SPECIFICATION Spec
INVARIANTS TypeOK EventChain NeverTruncated NothingLeaks PrintedIsWhole
PROPERTY Terminates
\* main has returned
CHECK_DEADLOCK FALSE
