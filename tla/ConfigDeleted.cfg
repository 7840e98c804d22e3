SPECIFICATION Spec
CONSTANTS
  Contents = {c1, c2, c3}
  Empty = Empty
  Absent = Absent
  Default = Default
  NoHash = NoHash
  MaxChanges = 3
PROPERTIES
  KeepsConfigWhenDeleted
CHECK_DEADLOCK FALSE
