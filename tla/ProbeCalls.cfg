SPECIFICATION FairSpec
CONSTANTS
  None = None
  Nodes <- MC_Nodes Options <- MC_Options
  MaxCalls = 2 MaxTime = 2 MaxReads = 2 Cap = 3
INVARIANTS
  TypeOK SocketsClosed VerdictIsHeard
PROPERTIES
  SamplesAreEarned CallsEnd
CHECK_DEADLOCK FALSE
