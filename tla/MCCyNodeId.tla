---------------------------- MODULE MCCyNodeId ----------------------------
(* Two filter geometries, scaled down from the code's.  Wide: node_id_max *)
(* above the filter size, like 65534 with 4096 bits.  Can: node_id_max    *)
(* one below the filter size, like 127 with the 128 bits recommended for  *)
(* CAN.                                                                    *)
EXTENDS CyNodeId

WideNodeIdMax == 9
WideNBits == 4
WideWordBits == 2

CanNodeIdMax == 7
CanNBits == 8
CanWordBits == 4

MCNodeIdInvalid == 15
=============================================================================
