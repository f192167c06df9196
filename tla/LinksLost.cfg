SPECIFICATION Spec
CONSTANTS
  None = None Missing = Missing
  Sanitized <- MC_Sanitized Folded <- MC_Folded Reserved = {"con"}
  Scenarios <- MC_Forgetful
INVARIANT KeptApart
CHECK_DEADLOCK FALSE
