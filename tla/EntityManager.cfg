CONSTANTS
  MaxLive = 4
  MaxReported = 3
SPECIFICATION Spec
INVARIANTS
  TypeOK
  IDsPartition
  NoIDLeak
  DeletionIsSafe
PROPERTIES
  VanishIffReported
