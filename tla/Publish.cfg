SPECIFICATION Spec
CONSTANTS
  None = None Missing = Missing
  Sanitized <- MC_Sanitized Folded <- MC_Folded Reserved = {"con"}
  Scenarios <- MC_All
INVARIANTS
  TypeOK KeyIsMeaning OrderFree IntegrityHolds FilesFollowOrder CountsAgree
  ListedInAll
CHECK_DEADLOCK FALSE
