CONSTANTS
  Peers = {p1, p2}
  NoPeer = NoPeer
  Chunks = {ground}
  Ground = {ground}
  Bedrock = {}
  MaxConnects = 2
  MaxEdits = 0
  MaxShots = 1
  Backlog = 0
SPECIFICATION Spec
INVARIANTS
  NoGhosts
SYMMETRY PeerSymmetry
