------------------------------ MODULE MCReceiver ------------------------------
(* Two blocks: one that any one of two symbols solves, one that takes its    *)
(* only symbol; a damaged frame beside the three good ones.                  *)
EXTENDS ReceiverRefinement

Good(b, s) == [intact |-> TRUE, session |-> "this", repair |-> TRUE,
               block |-> b, symbol |-> s, length |-> 5, sound |-> TRUE]

MCFrames ==
    {Good(0, 0), Good(0, 1), Good(1, 0), [Good(0, 1) EXCEPT !.intact = FALSE]}

\* The same, with a frame whose bytes are not the payload's.
MCUnsoundFrames ==
    {Good(0, 0), Good(1, 0), [Good(1, 0) EXCEPT !.sound = FALSE]}

\* No redundancy: both frames are needed.
MCFewFrames == {Good(0, 0), Good(1, 0)}

MCSolvable(b, S) == S # {}
=============================================================================
