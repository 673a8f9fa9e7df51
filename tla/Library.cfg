CONSTANTS
  WorldChunks <- MCWorldChunks
  ChunkSize <- MCChunkSize
  Terrain <- MCTerrain
  Cameras <- MCCameras
  Distances = {0, 1}
  MaxChanges = 2
  Addresses = {1, 2, 3}
  MaxConnects = 4
  MaxEmits = 2
  Base = 3
  Types = {1, 2}
  Numbers = {1, 5}
  Strings <- MCStrings
  MaxBytes = 5
  MaxCalls = 4
SPECIFICATION LibrarySpec
INVARIANTS
  MeshesFresh
  SafeButForOrphans
  CalledOnce
  RingSettles
  SavedFileReloads
  FieldsReadBack
  TextSurvives
  GlyphsIntact
  CursorAtPen
PROPERTIES
  VisibleMeshed
CHECK_DEADLOCK FALSE
