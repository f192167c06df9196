SPECIFICATION FairSpec
CONSTANTS
  None = None
  Nodes <- MC_Nodes Options <- MC_Plain
  MaxCalls = 1 MaxTime = 2 MaxReads = 2 Cap = 3
PROPERTIES
  HandshakeWindow
CHECK_DEADLOCK FALSE
