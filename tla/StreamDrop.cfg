SPECIFICATION FairSpec
CONSTANTS
  Clips <- MCClips
  Idle = "idle"
  ClipLen <- MCClipLen
  HistoryMax = 2
  HistoryKeep = 1
  StepsMax = 2
  BacklogMax = 3
  TopUpGuard = 5
  Sub = 1
  NaN = NaN
  Configs <- MCEmptied
  Elapsed <- MCRunning
  First = "walk"
  Second = "nod"
  Files <- MCLong
  MaxSeq = 1
  MaxEpoch = 1
  UserActs = {"drop"}
PROPERTIES
  DropGoesOn
  RecoversFromNaN
