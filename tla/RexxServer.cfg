CONSTANTS
  Server = {s1, s2}
  Message = {m1, m2}
  Asking = {m1}
  None = none
SPECIFICATION Spec
INVARIANTS TypeOK OneHolder NoLostWakeup PublicPortIsAlive NothingLeaks SuccessIsWhole QuitDrains
PROPERTIES AnsweredOrClosed StopsUnlessBusy
CHECK_DEADLOCK FALSE
