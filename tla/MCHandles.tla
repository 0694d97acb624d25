------------------------------ MODULE MCHandles ------------------------------
(* The instance of Handles that TLC checks: a program about threads and   *)
(* errors, one about transfers and one about manifests. *)
EXTENDS Handles, TLC

entry(n, comps) ==
    [name |-> [len |-> n, refused |-> {}, path |-> comps], size |-> 1, digest |-> "d",
     executable |-> FALSE]

MCInventories ==
    {<<entry(1, <<"a">>)>>, <<entry(1, <<"a">>), entry(2, <<"b">>)>>, <<entry(2, <<"..">>)>>,
     <<entry(1, <<"a">>), entry(2, <<"b">>), entry(2, <<"c">>)>>}

params(blocks) ==
    [block_count |-> blocks, symbol_size |-> 1, source_symbols_per_block |-> 1,
     total_symbols_per_block |-> 1, payload_digest |-> <<>>]
MCParams == {params(2), params(0)}
MCLevels == {Null, "M"}
MCPrograms ==
    {[calls |-> {"key", "qr"}, handles |-> 1, hashed |-> 0,
      fails |-> TRUE, panics |-> TRUE, nulls |-> TRUE],
     [calls |-> {"key", "transfer", "hash"}, handles |-> 2, hashed |-> 1,
      fails |-> FALSE, panics |-> FALSE, nulls |-> FALSE],
     [calls |-> {"identity", "manifest"}, handles |-> 3, hashed |-> 0,
      fails |-> FALSE, panics |-> FALSE, nulls |-> TRUE]}
Symmetric ==
    Permutations(Keys) \cup Permutations(Sessions) \cup Permutations(Identities)
        \cup Permutations(Nonces)
=============================================================================
