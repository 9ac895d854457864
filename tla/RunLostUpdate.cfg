CONSTANTS
  Tool = {"prep", "col1", "col2"}
  Kind <- EvidenceKind
  MaxCrash = 0
  MaxOpen = 2
SPECIFICATION Spec
INVARIANT EachCollectionIsRecorded
CHECK_DEADLOCK FALSE
