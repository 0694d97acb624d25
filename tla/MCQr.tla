-------------------------------- MODULE MCQr --------------------------------
(* The instance of Qr that TLC checks: a version that holds nothing, one     *)
(* that holds a frame but no symbol, and three that hold one.                *)
EXTENDS Qr, Sequences

MCCap == <<0, 3, 4, 7, 11>>
=============================================================================
