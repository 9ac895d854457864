CONSTANTS
  Tool = {"prep", "prof", "emul", "pro2", "ghid", "col1", "pre1", "pos1", "com1"}
  Kind <- SessionKind
  MaxCrash = 1
  MaxOpen = 2
SPECIFICATION Spec
CONSTRAINT OneGroup
INVARIANTS TypeOK SerialRunsLoseNothing RecordsHaveFiles TornIsRefused ReviewedProfileStays StateTellsRunning
CHECK_DEADLOCK FALSE
