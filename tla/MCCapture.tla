------------------------------ MODULE MCCapture ------------------------------
(* Two positions, a forged frame at one of them, and one of each discard.    *)
EXTENDS Capture

MCPositions == {1, 2}
MCImages ==
    {[kind |-> k, pos |-> 1] : k \in Kinds} \cup {[kind |-> "frame", pos |-> 2]}
=============================================================================
