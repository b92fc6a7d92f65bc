\* A default with ports below and above it, one of them always free; none or
\* any port saved, two changes by others.
SPECIFICATION FairSpec
CONSTANTS
  DefaultPort = 2
  LastPort = 5
  Ports = {1, 2, 3, 4}
  SavedPorts = {0, 1, 2, 3, 4}
  MaxChanges = 2
INVARIANTS
  PrefersInOrder
  PortIsPublished
PROPERTIES
  SearchEnds
  QuitEnds
CHECK_DEADLOCK FALSE
