------------------------------ MODULE MCHuber -------------------------------
(* Two peers, that nothing tells apart, and one caller.                    *)
EXTENDS Huber, TLC

PeerSymmetry == Permutations(Peer)
=============================================================================
