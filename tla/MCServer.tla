------------------------------ MODULE MCServer ------------------------------
(* Server for model checking: the peers are interchangeable.                *)
EXTENDS Server

PeerSymmetry == Permutations(Peers)
=============================================================================
