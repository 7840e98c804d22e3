SPECIFICATION FairSpec
CONSTANTS
  Contents = {c1, c2, c3}
  Empty = Empty
  Absent = Absent
  Default = Default
  NoHash = NoHash
  MaxChanges = 5
INVARIANTS
  FollowsFile
  NoNeedlessReload
PROPERTIES
  ChangeIsApplied
CHECK_DEADLOCK FALSE
