CONSTANTS
  Peers = {p1, p2}
  NoPeer = NoPeer
  Chunks = {ground}
  Ground = {ground}
  Bedrock = {}
  MaxConnects = 2
  MaxEdits = 0
  MaxShots = 2
  Backlog = 0
SPECIFICATION FairSpec
INVARIANTS
  PlayersOwnEntities
  CameraOnOwnEntity
PROPERTIES
  ChunksConverge
  EntitiesArrive
  FirstClientConverges
