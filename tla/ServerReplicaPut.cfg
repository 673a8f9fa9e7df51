CONSTANTS
  Peers = {p1}
  NoPeer = NoPeer
  Chunks = {ground}
  Ground = {ground}
  Bedrock = {}
  MaxConnects = 1
  MaxEdits = 0
  MaxShots = 1
  Backlog = 0
SPECIFICATION Spec
INVARIANTS
  ReplicaPutAsserts
