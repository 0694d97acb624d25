------------------------------ MODULE MCEncoder ------------------------------
(* Limits small enough for small inputs to pass and to break each of them.   *)
EXTENDS Encoder

MCPayloadLens == (0 .. 11) \cup {21, 70}
MCSymbolSizes == {1, 2, 3, 4, 6}
MCBlockCounts == {0, 1, 2, 3, 5, 6}
MCOverheads   == {0, 50, 200, 201}

\* A library that rounds a symbol size down to an even number.
MCSourcePackets(size, n) == div_ceil(size, IF n < 2 THEN 1 ELSE n - (n % 2))
=============================================================================
