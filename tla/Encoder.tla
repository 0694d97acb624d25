------------------------------- MODULE Encoder -------------------------------
(***************************************************************************)
(* The sending half of the codec: planSession of cli/internal/cli/cli.go,   *)
(* dhow_encoder_new of core/dhow-ffi/src/handle.rs, the block layout of     *)
(* core/dhow-codec/src/chunker.rs and Pipeline of pipeline.rs.              *)
(*                                                                         *)
(* The plan is made in Go and the layout in Rust, by separate arithmetic    *)
(* over the same numbers; the receiver sizes its bitmaps by the plan and    *)
(* the sender numbers its symbols by the layout.                            *)
(*                                                                         *)
(* The limits of the code are parameters, so that small ones can be met by  *)
(* small inputs.  A frame is its block and symbol index.  RaptorQ and the   *)
(* AEAD are libraries: a block yields SourcePackets source packets and as   *)
(* many repair packets as asked for, and a ciphertext is TAG bytes longer.  *)
(***************************************************************************)
EXTENDS Integers, Sequences, FiniteSetsExt, Functions

CONSTANTS
    MIN_FEC_SYMBOL_SIZE, \* 64
    MAX_PAYLOAD_LEN,     \* 65535, the payload of a frame
    MAX_BLOCK_COUNT,     \* 1024
    MAX_PAYLOAD_SIZE,    \* 4 GiB
    MAX_OVERHEAD,        \* 500 percent
    PAYLOAD_ID_LEN,      \* 4
    SPARE,               \* 4, the symbols planSession always adds
    TAG,                 \* 16, what encryption adds
    U32,                 \* 2^32
    PayloadLens, SymbolSizes, BlockCounts, Overheads, \* what send is run with
    SourcePackets(_, _)  \* RaptorQ's source packets for a block and symbol size

MAX_FEC_SYMBOL_SIZE == MAX_PAYLOAD_LEN - PAYLOAD_ID_LEN

\* div_ceil, and Go's (a + b - 1) / b.
div_ceil(a, b) == (a + b - 1) \div b

ASSUME LimitsAssumption ==
    /\ {MIN_FEC_SYMBOL_SIZE, MAX_BLOCK_COUNT, TAG, U32} \subseteq Nat \ {0}
    /\ {MAX_PAYLOAD_LEN, MAX_PAYLOAD_SIZE, MAX_OVERHEAD, PAYLOAD_ID_LEN, SPARE} \subseteq Nat
    /\ PayloadLens \cup SymbolSizes \cup BlockCounts \cup Overheads \subseteq Nat

\* The most source symbols a block of an accepted payload can have.
MostSymbols == div_ceil(MAX_PAYLOAD_SIZE, MIN_FEC_SYMBOL_SIZE)

\* No plan for a payload the chunker takes outgrows 32 bits.
ASSUME WidthAssumption ==
    /\ MAX_BLOCK_COUNT < U32 /\ MAX_FEC_SYMBOL_SIZE < U32
    /\ MostSymbols + (MostSymbols * MAX_OVERHEAD) \div 100 + SPARE < U32

ASSUME PacketsAssumption ==
    \A size \in 1 .. MAX_PAYLOAD_SIZE, n \in MIN_FEC_SYMBOL_SIZE .. MAX_FEC_SYMBOL_SIZE :
        SourcePackets(size, n) \in Nat \ {0}

\* RaptorQ cuts a block into symbols of one size, whichever it derives from the
\* one it is given: a byte more is at most one symbol more.
ASSUME CutsAssumption ==
    \A size \in 1 .. MAX_PAYLOAD_SIZE - 1, n \in MIN_FEC_SYMBOL_SIZE .. MAX_FEC_SYMBOL_SIZE :
        SourcePackets(size + 1, n) \in {SourcePackets(size, n), SourcePackets(size, n) + 1}

VARIABLES
    pc,        \* where the send is
    payload,   \* the length of the archive
    overhead,  \* -overhead
    params,    \* SessionParams
    blocks,    \* compute_blocks: the blocks laid out so far
    offset,    \* compute_blocks: where the next one starts
    per_block, \* encode: how many frames each block yielded
    cursors,   \* interleave: how many frames were taken from each
    round, at, \* interleave: the two loops
    out        \* interleave: the stream

encVars == <<pc, payload, overhead, params, blocks, offset, per_block, cursors, round,
             at, out>>

NoParams == [payload_size |-> 0, block_count |-> 0, symbol_size |-> 0,
             source_symbols_per_block |-> 0, total_symbols_per_block |-> 0]

EncInit ==
    /\ pc = "plan" /\ payload = 0 /\ overhead = 0 /\ params = NoParams
    /\ blocks = <<>> /\ offset = 0
    /\ per_block = <<>> /\ cursors = <<>>
    /\ round = 0 /\ at = 1 /\ out = <<>>

-----------------------------------------------------------------------------
(***************************************************************************)
(* planSession and Pipeline::new                                           *)
(***************************************************************************)

\* The flags planSession turns away.
BadFlags(symbolSize, count, overheadPct) ==
    \/ symbolSize \notin MIN_FEC_SYMBOL_SIZE .. MAX_FEC_SYMBOL_SIZE
    \/ count \notin 1 .. MAX_BLOCK_COUNT
    \/ overheadPct > MAX_OVERHEAD

\* The parameters for a ciphertext: counts of 64 bits, cut to 32.
ParamsFor(ciphertextLen, symbolSize, count, overheadPct) ==
    LET perBlock == div_ceil(ciphertextLen, count)
        needed == div_ceil(perBlock, symbolSize)
        source == IF needed = 0 THEN 1 ELSE needed
        repair == (source * overheadPct) \div 100 + SPARE
    IN  [payload_size |-> ciphertextLen,
         block_count |-> count % U32,
         symbol_size |-> symbolSize % U32,
         source_symbols_per_block |-> source % U32,
         total_symbols_per_block |-> (source + repair) % U32]

\* Fault: the plan is made for the archive, not for its ciphertext.
planSession_plaintext(payloadLen, symbolSize, count, overheadPct) ==
    ParamsFor(payloadLen, symbolSize, count, overheadPct)

\* planSession, for flags it takes.
planSession(payloadLen, symbolSize, count, overheadPct) ==
    ParamsFor(payloadLen + TAG, symbolSize, count, overheadPct)

\* send refuses: nothing was written.
SendRefused ==
    /\ pc' = "refused"
    /\ UNCHANGED <<blocks, offset, per_block, cursors, round, at, out>>

Plan(payloadLen, symbolSize, count, overheadPct) ==
    /\ pc = "plan"
    /\ \/ /\ BadFlags(symbolSize, count, overheadPct)
          /\ SendRefused
          /\ UNCHANGED <<payload, overhead, params>>
       \/ /\ ~BadFlags(symbolSize, count, overheadPct)
          /\ payload' = payloadLen /\ overhead' = overheadPct
          /\ params' = planSession(payloadLen, symbolSize, count, overheadPct)
          /\ pc' = "new"
          /\ UNCHANGED <<blocks, offset, per_block, cursors, round, at, out>>

\* SessionParams::validate, validate_params.
validate_params(p) ==
    /\ p.block_count # 0
    /\ p.symbol_size # 0
    /\ p.total_symbols_per_block >= p.source_symbols_per_block
    /\ p.symbol_size \in MIN_FEC_SYMBOL_SIZE .. MAX_FEC_SYMBOL_SIZE

\* Fault: no limit on the payload.
ChunkParams_unlimited(p) == p.block_count \in 1 .. MAX_BLOCK_COUNT

\* ChunkParams::new.  Its bounds on the symbol size are wider than the above.
ChunkParams(p) ==
    /\ p.payload_size <= MAX_PAYLOAD_SIZE
    /\ p.block_count \in 1 .. MAX_BLOCK_COUNT

\* dhow_encoder_new: the payload is encrypted, the ciphertext's length replaces
\* the planned one, and Pipeline::new checks the result.
New ==
    /\ pc = "new"
    /\ LET p == [params EXCEPT !.payload_size = payload + TAG]
       IN  IF validate_params(p) /\ ChunkParams(p)
           THEN /\ params' = p
                /\ pc' = "layout"
                /\ UNCHANGED <<blocks, offset, per_block, cursors, round, at, out>>
           ELSE SendRefused /\ UNCHANGED params
    /\ UNCHANGED <<payload, overhead>>

-----------------------------------------------------------------------------
(***************************************************************************)
(* ChunkMap::compute_blocks                                                *)
(***************************************************************************)

remainder == params.payload_size % params.block_count
large_size == div_ceil(params.payload_size, params.block_count)

small_size == params.payload_size \div params.block_count

symbol_count(size) == IF size = 0 THEN 0 ELSE div_ceil(size, params.symbol_size)

\* One turn of the loop, for a block of the given size.
PushBlock(size) ==
    /\ pc = "layout"
    /\ Len(blocks) < params.block_count
    /\ IF symbol_count(size) >= U32
       THEN SendRefused
       ELSE /\ blocks' = Append(blocks, [start |-> offset, size |-> size,
                                         symbol_count |-> symbol_count(size)])
            /\ offset' = offset + size
            /\ UNCHANGED <<pc, per_block, cursors, round, at, out>>
    /\ UNCHANGED <<payload, overhead, params>>

\* Fault: one large block too many.
LayoutBlock_extra ==
    PushBlock(IF Len(blocks) <= remainder THEN large_size ELSE small_size)

LayoutBlock ==
    PushBlock(IF Len(blocks) < remainder THEN large_size ELSE small_size)

\* The map is complete, and encode checks the payload against it.
LayoutEnds ==
    /\ pc = "layout"
    /\ Len(blocks) = params.block_count
    /\ IF params.payload_size = payload + TAG
       THEN /\ pc' = "encode"
            /\ UNCHANGED <<blocks, offset, per_block, cursors, round, at, out>>
       ELSE SendRefused
    /\ UNCHANGED <<payload, overhead, params>>

-----------------------------------------------------------------------------
(***************************************************************************)
(* Pipeline::encode and interleave                                         *)
(***************************************************************************)

\* saturating_sub
repair_count ==
    IF params.total_symbols_per_block > params.source_symbols_per_block
    THEN params.total_symbols_per_block - params.source_symbols_per_block
    ELSE 0

\* One block: nothing for an empty one, else source and repair packets.  A
\* block past the end of the payload and a packet too long for a frame are
\* errors (extract_block, encode).
EncodeBlock ==
    /\ pc = "encode"
    /\ Len(per_block) < Len(blocks)
    /\ LET block == blocks[Len(per_block) + 1]
       IN  IF /\ block.size > 0
              /\ \/ block.start + block.size > payload + TAG
                 \/ params.symbol_size + PAYLOAD_ID_LEN > MAX_PAYLOAD_LEN
           THEN SendRefused
           ELSE /\ per_block' = Append(per_block,
                       IF block.size = 0 THEN 0
                       ELSE SourcePackets(block.size, params.symbol_size) + repair_count)
                /\ cursors' = Append(cursors, 0)
                /\ UNCHANGED <<pc, blocks, offset, round, at, out>>
    /\ UNCHANGED <<payload, overhead, params>>

EncodeEnds ==
    /\ pc = "encode"
    /\ Len(per_block) = Len(blocks)
    /\ pc' = "interleave"
    /\ UNCHANGED <<payload, overhead, params, blocks, offset, per_block, cursors,
                   round, at, out>>

\* cursor.next(): the frame, if there is one, goes to the stream.
TakeFrame ==
    IF cursors[at] < per_block[at]
    THEN /\ out' = Append(out, [block |-> at - 1, symbol |-> cursors[at]])
         /\ cursors' = [cursors EXCEPT ![at] = @ + 1]
    ELSE UNCHANGED <<out, cursors>>

\* Fault: block by block.
Interleave_blockwise ==
    /\ pc = "interleave"
    /\ at <= Len(per_block)
    /\ TakeFrame
    /\ IF cursors'[at] < per_block[at]
       THEN UNCHANGED <<at, round>>
       ELSE /\ at' = IF at = Len(per_block) THEN 1 ELSE at + 1
            /\ round' = IF at = Len(per_block) THEN Max(Range(per_block)) ELSE round
    /\ round < Max(Range(per_block))
    /\ UNCHANGED <<pc, payload, overhead, params, blocks, offset, per_block>>

\* Fault: the walk ends with the shortest list.
Interleave_shortest ==
    /\ pc = "interleave"
    /\ round < Max(Range(per_block))
    /\ TakeFrame
    /\ IF at < Len(per_block)
       THEN at' = at + 1 /\ UNCHANGED round
       ELSE /\ at' = 1
            /\ round' = IF round + 1 = Min(Range(per_block))
                        THEN Max(Range(per_block)) ELSE round + 1
    /\ UNCHANGED <<pc, payload, overhead, params, blocks, offset, per_block>>

\* One cursor of one round.
Interleave ==
    /\ pc = "interleave"
    /\ round < Max(Range(per_block))
    /\ TakeFrame
    /\ IF at < Len(per_block)
       THEN at' = at + 1 /\ UNCHANGED round
       ELSE at' = 1 /\ round' = round + 1
    /\ UNCHANGED <<pc, payload, overhead, params, blocks, offset, per_block>>

InterleaveEnds ==
    /\ pc = "interleave"
    /\ round = Max(Range(per_block))
    /\ pc' = "done"
    /\ UNCHANGED <<payload, overhead, params, blocks, offset, per_block, cursors,
                   round, at, out>>

-----------------------------------------------------------------------------
EncNext ==
    \/ \E payloadLen \in PayloadLens, symbolSize \in SymbolSizes,
          count \in BlockCounts, overheadPct \in Overheads :
             Plan(payloadLen, symbolSize, count, overheadPct)
    \/ New \/ LayoutBlock \/ LayoutEnds
    \/ EncodeBlock \/ EncodeEnds \/ Interleave \/ InterleaveEnds

EncSpec == EncInit /\ [][EncNext]_encVars

-----------------------------------------------------------------------------
(***************************************************************************)
(* Properties                                                              *)
(***************************************************************************)

SessionParams == [payload_size: Nat, block_count: 0 .. U32 - 1,
                  symbol_size: 0 .. U32 - 1,
                  source_symbols_per_block: 0 .. U32 - 1,
                  total_symbols_per_block: 0 .. U32 - 1]
BlockInfo == [start: Nat, size: Nat, symbol_count: 0 .. U32 - 1]

\* Every variable holds a value of its Rust or Go type.
EncTypeOK ==
    /\ pc \in {"plan", "new", "layout", "encode", "interleave", "done", "refused"}
    /\ payload \in Nat /\ overhead \in Nat
    /\ params \in SessionParams
    /\ blocks \in Seq(BlockInfo)
    /\ offset \in Nat
    /\ per_block \in Seq(Nat) /\ cursors \in Seq(Nat)
    /\ round \in Nat /\ at \in Nat \ {0}
    /\ out \in Seq([block: Nat, symbol: Nat])

LaidOut == pc \in {"encode", "interleave", "done"}
CiphertextLen == payload + TAG

\* The blocks tile the ciphertext: each begins where the one before it ends,
\* the first at zero and the last ends with it, so that reassemble, which only
\* concatenates, is the inverse of cutting (compute_blocks, extract_block,
\* reassemble).
BlocksTile ==
    LaidOut =>
        /\ Len(blocks) = params.block_count
        /\ blocks[1].start = 0
        /\ \A i \in 1 .. Len(blocks) - 1 :
              blocks[i + 1].start = blocks[i].start + blocks[i].size
        /\ blocks[Len(blocks)].start + blocks[Len(blocks)].size = CiphertextLen

\* RaptorQ cuts a block into as many symbols as the chunker does.  It may not:
\* what its configuration makes of a symbol size is the library's business.
LibraryAgrees ==
    \A i \in DOMAIN blocks :
        blocks[i].size > 0 =>
            SourcePackets(blocks[i].size, params.symbol_size) = blocks[i].symbol_count

\* Said of mark_held: the sender never emits a symbol index outside the
\* receiver's bitmap.  The Go plan, made before anything bounds the payload,
\* has room for every symbol the Rust layout produces (planSession,
\* compute_blocks, encode).
EmittedInBitmap ==
    LaidOut /\ LibraryAgrees =>
        /\ \A i \in DOMAIN per_block : per_block[i] <= params.total_symbols_per_block
        /\ \A p \in DOMAIN out : out[p].symbol < params.total_symbols_per_block

\* Every block carries the repair symbols -overhead asks for and the spare ones,
\* whatever the payload: no plan whose counts were cut to 32 bits gets as far
\* as a stream (planSession, ChunkParams::new, encode).
OverheadKept ==
    LaidOut => \A i \in DOMAIN blocks :
        repair_count >= (blocks[i].symbol_count * overhead) \div 100 + SPARE

\* The stream has every frame of every block, each once (interleave).
EveryFrameOnce ==
    pc = "done" =>
        /\ IsInjective(out)
        /\ Range(out) = UNION {{[block |-> i - 1, symbol |-> s] : s \in 0 .. per_block[i] - 1} :
                                  i \in DOMAIN per_block}

LiveBlocks == {i \in DOMAIN blocks : blocks[i].size > 0}

\* The frames of block i lost when length frames from p on are not seen.
LostIn(i, p, length) ==
    Cardinality({q \in p .. p + length - 1 : q \in DOMAIN out /\ out[q].block = i - 1})

\* Said in encode: interleaving spreads any contiguous run of loss evenly over
\* every block, where the repair symbols can absorb it.  A run of as many
\* frames as the blocks have repair symbols between them, wherever it falls,
\* costs no block more than it has.
OutageAbsorbed ==
    pc = "done" =>
        \A p \in DOMAIN out, i \in LiveBlocks :
            LostIn(i, p, repair_count * Cardinality(LiveBlocks)) <= repair_count
=============================================================================
