---------------------------- MODULE MC_QuorumRead ----------------------------
(* Four nodes, the first preordered and faulty, number_read_nodes = 2:     *)
(* a read has two rounds (2 nodes, then all 4).                            *)
EXTENDS QuorumRead

MC_Preordered == <<"n1">>
MC_Nodes == {"n1", "n2", "n3", "n4"}
=============================================================================
