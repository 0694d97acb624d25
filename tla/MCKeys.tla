------------------------------- MODULE MCKeys -------------------------------
(* The instance of Keys that TLC checks. *)
EXTENDS Keys

MCOuts == {<<"a", "key">>}
=============================================================================
