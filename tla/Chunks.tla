-------------------------------- MODULE Chunks --------------------------------
(***************************************************************************)
(* core/dhow-codec/src/chunker.rs from a payload to its symbols and back:   *)
(* a sender takes the payload apart, block by block and symbol by symbol,   *)
(* and a receiver puts blocks together from symbols and the payload from    *)
(* blocks.  How the blocks are laid out is proved of Encoder; here is what  *)
(* is done with the layout.  A byte of the payload is its position.         *)
(***************************************************************************)
EXTENDS Integers, Sequences

CONSTANTS MaxPayload, MaxBlocks, MaxSymbol  \* bounds of the three parameters

ASSUME ChunksAssumption == {MaxPayload, MaxBlocks, MaxSymbol} \subseteq Nat \ {0}

VARIABLES
    input,        \* the payload
    block_count, symbol_size,
    cursor,       \* the block and the symbol that are next
    collected,    \* per block, the bytes of its symbols so far, padding included
    joined,       \* reassemble: how many blocks are in the payload so far
    rebuilt,      \* reassemble: the payload so far
    refused       \* whether a call returned an error

chunkVars == <<input, block_count, symbol_size, cursor, collected, joined, rebuilt, refused>>

Pad == 0
ceil_div(x, y) == (x + y - 1) \div y

-----------------------------------------------------------------------------
(***************************************************************************)
(* The layout                                                              *)
(***************************************************************************)

Remainder == Len(input) % block_count
LargeSize == ceil_div(Len(input), block_count)
SmallSize == Len(input) \div block_count

\* compute_blocks: the first blocks are one byte larger when it does not divide.
BlockSize(i) == IF i < Remainder THEN LargeSize ELSE SmallSize
BlockStart(i) ==
    IF i < Remainder THEN i * LargeSize
    ELSE Remainder * LargeSize + (i - Remainder) * SmallSize
block_info(i) ==
    [start |-> BlockStart(i), size |-> BlockSize(i),
     symbol_count |-> ceil_div(BlockSize(i), symbol_size)]

\* symbol_info, for an index in range.
symbol_info(i, j) ==
    [start |-> j * symbol_size,
     size |-> IF BlockSize(i) % symbol_size # 0 /\ j = block_info(i).symbol_count - 1
              THEN BlockSize(i) % symbol_size ELSE symbol_size]

\* extract_block: {} when the data is too short.
extract_block(data, i) ==
    IF BlockStart(i) + BlockSize(i) > Len(data) THEN {}
    ELSE {SubSeq(data, BlockStart(i) + 1, BlockStart(i) + BlockSize(i))}

\* Fault: a symbol that ends where its block does is refused.
extract_symbol_strict(block, i, j) ==
    LET s == symbol_info(i, j)
    IN  IF s.start + s.size >= Len(block) THEN {}
        ELSE {SubSeq(block, s.start + 1, s.start + s.size)}

\* extract_symbol: padded with zeros to symbol_size.
extract_symbol(block, i, j) ==
    LET s == symbol_info(i, j)
    IN  IF s.start + s.size > Len(block) THEN {}
        ELSE {SubSeq(block, s.start + 1, s.start + s.size)
                  \o [k \in 1 .. symbol_size - s.size |-> Pad]}

-----------------------------------------------------------------------------
(***************************************************************************)
(* Taking apart and putting together                                       *)
(***************************************************************************)

ChunksInit ==
    /\ input \in {[k \in 1 .. len |-> k] : len \in 0 .. MaxPayload}
    /\ block_count \in 1 .. MaxBlocks
    /\ symbol_size \in 1 .. MaxSymbol
    /\ cursor = [block |-> 0, symbol |-> 0]
    /\ collected = [i \in 1 .. block_count |-> <<>>]
    /\ joined = 0 /\ rebuilt = <<>> /\ refused = FALSE

\* The next symbol of the block goes across.
ExtractSymbol ==
    /\ ~refused /\ cursor.block < block_count
    /\ cursor.symbol < block_info(cursor.block).symbol_count
    /\ LET symbols == UNION {extract_symbol(block, cursor.block, cursor.symbol) :
                                 block \in extract_block(input, cursor.block)}
       IN  IF symbols = {}
           THEN refused' = TRUE /\ UNCHANGED <<collected, cursor>>
           ELSE /\ \E symbol \in symbols :
                       collected' = [collected EXCEPT ![cursor.block + 1] = @ \o symbol]
                /\ cursor' = [cursor EXCEPT !.symbol = @ + 1]
                /\ UNCHANGED refused
    /\ UNCHANGED <<input, block_count, symbol_size, joined, rebuilt>>

\* The block has no more symbols.
NextBlock ==
    /\ ~refused /\ cursor.block < block_count
    /\ cursor.symbol >= block_info(cursor.block).symbol_count
    /\ cursor' = [block |-> cursor.block + 1, symbol |-> 0]
    /\ UNCHANGED <<input, block_count, symbol_size, collected, joined, rebuilt, refused>>

\* One turn of reassemble: the declared bytes of the next block, an error when
\* it is too short or the number of blocks is wrong.
JoinBlock ==
    /\ ~refused /\ cursor.block = block_count /\ joined < block_count
    /\ IF Len(collected) # block_count \/ Len(collected[joined + 1]) < BlockSize(joined)
       THEN refused' = TRUE /\ UNCHANGED <<joined, rebuilt>>
       ELSE /\ rebuilt' = rebuilt \o SubSeq(collected[joined + 1], 1, BlockSize(joined))
            /\ joined' = joined + 1
            /\ UNCHANGED refused
    /\ UNCHANGED <<input, block_count, symbol_size, cursor, collected>>

ChunksNext == ExtractSymbol \/ NextBlock \/ JoinBlock
ChunksSpec == ChunksInit /\ [][ChunksNext]_chunkVars /\ WF_chunkVars(ChunksNext)

-----------------------------------------------------------------------------
(***************************************************************************)
(* Properties                                                              *)
(***************************************************************************)

\* No symbol and no block is refused as out of range or too short, and a payload
\* that is put together is the one that was taken apart, to the byte and with no
\* padding left (extract_block, extract_symbol, reassemble).
RebuiltExactly == ~refused /\ (joined = block_count => rebuilt = input)

\* It is put together in the end, whatever its size, the number of blocks and the
\* symbol size.
EventuallyRebuilt == []RebuiltExactly /\ <>(joined = block_count)
=============================================================================
