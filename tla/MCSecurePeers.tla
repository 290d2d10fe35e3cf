---------------------------- MODULE MCSecurePeers ----------------------------
(***************************************************************************)
(* Small instances of SecurePeers: one device that may hold two keys.      *)
(***************************************************************************)
EXTENDS SecurePeers, TLC

PeerSymmetry == Permutations(Keys) \cup Permutations(Nonces)
                  \cup Permutations(Sessions) \cup Permutations(Runners)
=============================================================================
