CONSTANTS
  Peers = {p1, p2}
  NoPeer = NoPeer
  Chunks = {air, bedrock}
  Ground = {}
  Bedrock = {bedrock}
  MaxConnects = 2
  MaxEdits = 2
  MaxShots = 0
  Backlog = 2
SPECIFICATION Spec
INVARIANTS
  SlotsMatchPeers
  StaleViewsAreDirty
SYMMETRY PeerSymmetry
