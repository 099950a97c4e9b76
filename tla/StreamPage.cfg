SPECIFICATION Spec
CONSTANTS
  Clips <- MCClips
  Idle = "idle"
  ClipLen <- MCClipLen
  HistoryMax = 2
  HistoryKeep = 1
  StepsMax = 2
  BacklogMax = 3
  TopUpGuard = 5
  Sub = 1
  NaN = NaN
  Configs <- MCConfigs
  Elapsed <- MCRunning
  First = "walk"
  Second = "nod"
  Files <- MCFiles
  MaxSeq = 1
  MaxEpoch = 1
  UserActs = {"seq", "drop", "reset", "replace"}
INVARIANTS
  TypeOK
  SegmentsWhole
  BlendExactlyAtSwitches
  BufferBounded
  AnnouncedIsShown
PROPERTIES
  SmoothPlayback
  ProtectedFrames
  DropOneAtATime
