------------------------------- MODULE MCWire -------------------------------
(* The instance of Wire that TLC checks: payloads that differ in a byte and  *)
(* in length, symbol counts below, at and above a byte of the bitmap.        *)
EXTENDS Wire

MCPayloads == {<<1>>, <<2>>, <<1, 2>>}
=============================================================================
