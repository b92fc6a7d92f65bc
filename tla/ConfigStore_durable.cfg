\* Two settings requests, two other fields, kills and failures; the bounds stop it.
SPECIFICATION Spec
CONSTANTS
  SettingsHandlers = {s1, s2}
  OtherFields = {"wechat", "contact"}
  Nobody = Nobody
  Missing = Missing
  Corrupt = Corrupt
  Partial = Partial
  MaxUpdates = 3
  MaxFailures = 1
  MaxStarts = 2
SYMMETRY Symmetry
INVARIANTS
  AckedOnDisk
  SettingsInEffect
PROPERTY
  ImplementsDurable
CHECK_DEADLOCK FALSE
