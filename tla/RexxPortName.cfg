CONSTANTS
  Server = {s1, s2}
  Message = {m1, m2}
  Asking = {m1}
  None = none
SPECIFICATION Spec
INVARIANT NameIsUnique
CHECK_DEADLOCK FALSE
