----------------------------- MODULE MCUdpcast ------------------------------
(* Instances of Udpcast for TLC: slices of one and of two blocks, and the empty one at *)
(* the end.                                                                            *)
EXTENDS Udpcast

TwoSlices == [s \in 0..2 |-> <<1, 2, 0>>[s + 1]]
SmallSlices == [s \in 0..3 |-> <<1, 1, 1, 0>>[s + 1]]
=============================================================================
