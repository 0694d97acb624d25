------------------------------ MODULE MCManifest ------------------------------
(* The instance of Manifest that TLC checks. *)
EXTENDS Manifest, TLC

name(n, bad, comps) == [len |-> n, refused |-> bad, path |-> comps]
Plain == name(1, {}, <<"a">>)
Deep == name(3, {}, <<"a", "b">>)
Up == name(4, {}, <<"a", "..", "..", "b">>)
Drive == name(2, {"drive"}, <<"a">>)
Long == name(5, {}, <<"a">>)
Empty == name(0, {}, <<>>)

file(nm, size, exec) == [name |-> nm, size |-> size, digest |-> "d", executable |-> exec]

MCInventories ==
    {<<>>, <<file(Plain, 2, TRUE), file(Deep, 3, FALSE)>>,
     <<file(Plain, 3, FALSE), file(Deep, 3, FALSE)>>,
     <<file(Plain, 7, FALSE), file(Deep, 3, FALSE)>>,
     <<file(Up, 1, FALSE)>>, <<file(Drive, 1, FALSE)>>, <<file(Long, 1, FALSE)>>,
     <<file(Empty, 0, FALSE)>>,
     <<file(Plain, 0, FALSE), file(Deep, 0, FALSE), file(Plain, 0, FALSE)>>}

MCOtherEntries ==
    {EntryBytes(file(Up, 0, FALSE)), EntryBytes(file(Plain, 2, FALSE)),
     [EntryBytes(file(Plain, 1, FALSE)) EXCEPT !.flags = {1}],
     [EntryBytes(file(Plain, 1, FALSE)) EXCEPT !.cut = "rest"],
     [EntryBytes(file(Plain, 1, FALSE)) EXCEPT !.cut = "length"],
     [EntryBytes(file(Plain, 1, FALSE)) EXCEPT !.utf8 = FALSE]}

params(blocks, total) ==
    [block_count |-> blocks, symbol_size |-> 1, source_symbols_per_block |-> 1,
     total_symbols_per_block |-> total]
MCParamSets == {params(1, 1), params(1, 0)}

Symmetry == Permutations(Identities) \cup Permutations(Sessions)
=============================================================================
