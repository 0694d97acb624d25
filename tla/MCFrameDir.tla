------------------------------ MODULE MCFrameDir ------------------------------
(* The instances of FrameDir that TLC checks: a send whose last name is longer *)
(* than the others, and one without, in one directory.  In base three with one *)
(* digit of padding the fourth file is frame-10.bin, which sorts before        *)
(* frame-2.bin.                                                                *)
EXTENDS FrameDir, TLC

CONSTANTS s1, s2
MCSessions == {s1, s2}
MCFrameCount == (s1 :> 4) @@ (s2 :> 3)
=============================================================================
