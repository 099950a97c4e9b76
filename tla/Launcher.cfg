SPECIFICATION Spec
CONSTANTS
  ForeignPorts = {"hidden"}
  Interrupts <- MCInterrupts
  CrashAt <- MCCrashAt
  HandSignals = {"TERM"}
  StopAt <- MCStopAt
INVARIANTS
  TypeOK
  OneOwner
  LeavesNothing
PROPERTIES
  StopEnds
  InterruptEnds
  StopScriptStops
CHECK_DEADLOCK FALSE
