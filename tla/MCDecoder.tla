------------------------------ MODULE MCDecoder ------------------------------
(* A session of three blocks, one of them empty, and one frame of every kind *)
(* accept tells apart.                                                       *)
EXTENDS Decoder

Good(b, s) == [intact |-> TRUE, session |-> "this", repair |-> TRUE,
               block |-> b, symbol |-> s, length |-> 5, sound |-> TRUE]

MCFrames ==
    {Good(0, s) : s \in 0 .. 2} \cup {Good(1, s) : s \in 0 .. 1} \cup
    { [Good(0, 1) EXCEPT !.sound = FALSE],      \* CRC and MAC pass, bytes differ
      [Good(0, 0) EXCEPT !.intact = FALSE],     \* MAC, length or CRC fails
      [Good(0, 0) EXCEPT !.session = "other"],
      [Good(0, 0) EXCEPT !.repair = FALSE],
      [Good(0, 0) EXCEPT !.length = 4],         \* a packet id and no symbol
      Good(2, 0),                               \* a symbol of the empty block
      Good(3, 0),                               \* a block past the end
      Good(1, 3) }                              \* a symbol past the bitmap

\* Block 0 has two source symbols and one pair RaptorQ cannot solve; block 1
\* needs one.
MCSolvable(b, S) ==
    IF b = 0 THEN Cardinality(S) >= 2 /\ S # {1, 2} ELSE S # {}
=============================================================================
