------------------------------ MODULE MCArchive ------------------------------
(* The instances of Archive that TLC checks: two files, empty, of one byte or  *)
(* of two.  MCOddNames has a name whose first character is wide and whose      *)
(* second is a colon, and one that is not UTF-8.                               *)
EXTENDS Archive

MCByte(b) == [byte |-> b]
MCContents == {<<>>, <<MCByte(0)>>, <<MCByte(1)>>, <<MCByte(0), MCByte(1)>>}
MCPlain == [len |-> 1, refused |-> {}, path |-> <<"a">>, wide |-> FALSE, utf8 |-> TRUE]
MCWide == [len |-> 3, refused |-> {"drive"}, path |-> <<"w">>, wide |-> TRUE, utf8 |-> TRUE]
MCBytes == [MCPlain EXCEPT !.utf8 = FALSE]
MCNames == <<MCPlain, MCPlain>>
MCOddNames == <<MCWide, MCBytes>>
=============================================================================
