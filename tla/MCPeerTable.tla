---------------------------- MODULE MCPeerTable ----------------------------
(* Four devices compete for two entries; the radio driver holds three.     *)
EXTENDS PeerTable, TLC

\* The devices are interchangeable: no property names one.
Devices == Permutations(Mac)
=============================================================================
