CONSTANTS
  Key = {"k1", "k2"}
  Value = {"v1", "v2"}
  MaxCompare = 2
  MaxReport = 7
  MaxLines = 2
SPECIFICATION Spec
INVARIANTS TypeOK CleanCompareIsExact OutcomeIsTold PassKeepsEvidence
CHECK_DEADLOCK FALSE
