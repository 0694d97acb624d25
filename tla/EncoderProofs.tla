---------------------------- MODULE EncoderProofs ----------------------------
(***************************************************************************)
(* The block layout tiles the ciphertext, no emitted symbol is outside the  *)
(* receiver's bitmap, the stream spreads an outage over the blocks and what  *)
(* was cut is put together again, for every limit, flag and payload length.  *)
(***************************************************************************)
EXTENDS Encoder, Chunks, FiniteSetTheorems, SequenceTheorems, TLAPS

-----------------------------------------------------------------------------
(***************************************************************************)
(* Division                                                                *)
(***************************************************************************)

\* Quotient and remainder of the block layout.
LEMMA DivMod ==
    ASSUME NEW a \in Nat, NEW b \in Nat \ {0}
    PROVE  /\ a \div b \in Nat /\ a % b \in 0 .. b - 1
           /\ a = b * (a \div b) + (a % b)
    OBVIOUS

\* div_ceil is the least number of pieces of b that hold a.
LEMMA DivCeil ==
    ASSUME NEW a \in Nat, NEW b \in Nat \ {0}
    PROVE  /\ div_ceil(a, b) \in Nat
           /\ a <= b * div_ceil(a, b)
           /\ b * div_ceil(a, b) < a + b
<1>1. a + b - 1 \in Nat
  OBVIOUS
<1>2. /\ (a + b - 1) \div b \in Nat /\ (a + b - 1) % b \in 0 .. b - 1
      /\ a + b - 1 = b * ((a + b - 1) \div b) + ((a + b - 1) % b)
  BY <1>1, DivMod
<1>. QED
  BY <1>2 DEF div_ceil

\* A quotient is no larger than any number of pieces that suffices.
LEMMA DivCeilLeast ==
    ASSUME NEW a \in Nat, NEW b \in Nat \ {0}, NEW q \in Nat, a <= b * q
    PROVE  div_ceil(a, b) <= q
<1>. DEFINE d == div_ceil(a, b)
<1>1. d \in Nat /\ b * d < a + b
  BY DivCeil
<1>2. ASSUME d >= q + 1 PROVE FALSE
  <2>1. b * d >= b * (q + 1)
    BY <1>1, <1>2
  <2>2. b * (q + 1) = b * q + b
    OBVIOUS
  <2>. QED
    BY <1>1, <2>1, <2>2
<1>. QED
  BY <1>1, <1>2

\* More to hold in smaller pieces takes at least as many.
LEMMA DivCeilMonotone ==
    ASSUME NEW a \in Nat, NEW c \in Nat, a <= c,
           NEW b \in Nat \ {0}, NEW d \in Nat \ {0}, d <= b
    PROVE  div_ceil(a, b) <= div_ceil(c, d)
<1>. DEFINE q == div_ceil(c, d)
<1>1. q \in Nat /\ c <= d * q
  BY DivCeil
<1>2. d * q <= b * q
  BY <1>1
<1>. QED
  BY <1>1, <1>2, DivCeilLeast

\* The two block sizes differ by one, or are the same.
LEMMA LargeIsSmallPlusOne ==
    ASSUME NEW a \in Nat, NEW b \in Nat \ {0}
    PROVE  div_ceil(a, b) = IF a % b = 0 THEN a \div b ELSE (a \div b) + 1
<1>. DEFINE q == a \div b  r == a % b  d == div_ceil(a, b)
<1>1. q \in Nat /\ r \in 0 .. b - 1 /\ a = b * q + r
  BY DivMod
<1>2. d \in Nat /\ a <= b * d /\ b * d < a + b
  BY DivCeil
<1>3. CASE r = 0
  <2>1. d <= q
    BY <1>1, <1>3, DivCeilLeast
  <2>2. ASSUME d + 1 <= q PROVE FALSE
    <3>1. b * (d + 1) <= b * q
      BY <1>1, <1>2, <2>2
    <3>2. b * (d + 1) = b * d + b
      BY <1>2
    <3>. QED
      BY <1>1, <1>2, <1>3, <3>1, <3>2
  <2>. QED
    BY <1>1, <1>2, <1>3, <2>1, <2>2
<1>4. CASE r # 0
  <2>1. b * (q + 1) = b * q + b
    BY <1>1
  <2>2. d <= q + 1
    <3>1. a <= b * (q + 1)
      BY <1>1, <2>1
    <3>. QED
      BY <1>1, <3>1, DivCeilLeast
  <2>3. ASSUME d <= q PROVE FALSE
    <3>1. b * d <= b * q
      BY <1>1, <1>2, <2>3
    <3>. QED
      BY <1>1, <1>2, <1>4, <3>1
  <2>. QED
    BY <1>1, <1>2, <1>4, <2>2, <2>3
<1>. QED
  BY <1>1, <1>3, <1>4

-----------------------------------------------------------------------------
(***************************************************************************)
(* The inductive invariant                                                 *)
(***************************************************************************)

Accepted == pc \in {"layout", "encode", "interleave", "done"}

\* Between the plan and its acceptance.
Planned ==
    pc = "new" =>
        /\ overhead <= MAX_OVERHEAD
        /\ \E n \in MIN_FEC_SYMBOL_SIZE .. MAX_FEC_SYMBOL_SIZE,
              count \in 1 .. MAX_BLOCK_COUNT :
                 params = planSession(payload, n, count, overhead)

\* What Pipeline::new lets through: a plan nothing was cut from.
Agreed ==
    Accepted =>
        /\ params.payload_size = CiphertextLen
        /\ CiphertextLen <= MAX_PAYLOAD_SIZE
        /\ params.block_count \in 1 .. MAX_BLOCK_COUNT
        /\ params.symbol_size \in MIN_FEC_SYMBOL_SIZE .. MAX_FEC_SYMBOL_SIZE
        /\ params.source_symbols_per_block = div_ceil(large_size, params.symbol_size)
        /\ params.total_symbols_per_block =
              params.source_symbols_per_block
              + ((params.source_symbols_per_block * overhead) \div 100) + SPARE

\* The closed form of the layout, blocks numbered from zero.
SizeOf(i) == IF i < remainder THEN large_size ELSE small_size
StartOf(i) == i * small_size + (IF i < remainder THEN i ELSE remainder)

Layout ==
    Accepted =>
        /\ Len(blocks) <= params.block_count
        /\ offset = StartOf(Len(blocks))
        /\ \A i \in 1 .. Len(blocks) :
              /\ blocks[i].start = StartOf(i - 1)
              /\ blocks[i].size = SizeOf(i - 1)
              /\ blocks[i].symbol_count = symbol_count(SizeOf(i - 1))

\* What encode has made of the blocks.
Encoded ==
    /\ Accepted => Len(per_block) <= Len(blocks) /\ Len(cursors) = Len(per_block)
    /\ LaidOut => Len(blocks) = params.block_count
    /\ pc \in {"interleave", "done"} => Len(per_block) = Len(blocks)
    /\ Accepted => \A i \in 1 .. Len(per_block) :
          per_block[i] = IF blocks[i].size = 0 THEN 0
                         ELSE SourcePackets(blocks[i].size, params.symbol_size) + repair_count
    /\ pc \in {"plan", "new", "layout"} => per_block = <<>>
    /\ pc \in {"plan", "new"} => blocks = <<>> /\ offset = 0 /\ cursors = <<>>

\* What interleave has taken from the lists.
Emitted ==
    /\ pc \in {"plan", "new", "layout", "encode"} => out = <<>> /\ at = 1
    /\ pc = "interleave" => at \in 1 .. Len(per_block)
    /\ Accepted => \A p \in 1 .. Len(out) :
          /\ out[p].block + 1 \in 1 .. Len(per_block)
          /\ out[p].symbol < per_block[out[p].block + 1]

EncIInv == EncTypeOK /\ Planned /\ Agreed /\ Layout /\ Encoded /\ Emitted

-----------------------------------------------------------------------------
(***************************************************************************)
(* planSession and Pipeline::new                                           *)
(***************************************************************************)

\* The plan fits its types, cut or not.
LEMMA PlanTyped ==
    ASSUME NEW len \in Nat, NEW n \in MIN_FEC_SYMBOL_SIZE .. MAX_FEC_SYMBOL_SIZE,
           NEW count \in 1 .. MAX_BLOCK_COUNT, NEW pct \in Nat
    PROVE  planSession(len, n, count, pct) \in SessionParams
<1>. DEFINE perBlock == div_ceil(len + TAG, count)
            needed == div_ceil(perBlock, n)
            source == IF needed = 0 THEN 1 ELSE needed
            repair == ((source * pct) \div 100) + SPARE
<1>1. len + TAG \in Nat /\ count \in Nat \ {0} /\ n \in Nat \ {0} /\ SPARE \in Nat
      /\ U32 \in Nat \ {0}
  BY LimitsAssumption DEF MAX_FEC_SYMBOL_SIZE
<1>2. perBlock \in Nat
  BY <1>1, DivCeil
<1>3. needed \in Nat
  BY <1>1, <1>2, DivCeil
<1>4. source \in Nat
  BY <1>3
<1>5. source * pct \in Nat
  BY <1>4
<1>6. (source * pct) \div 100 \in Nat
  BY <1>5, DivMod
<1>7. source + repair \in Nat
  BY <1>1, <1>4, <1>6
<1>8. \A x \in Nat : x % U32 \in 0 .. U32 - 1
  BY <1>1, DivMod
<1>. HIDE DEF source, repair
<1>9. planSession(len, n, count, pct) =
        [payload_size |-> len + TAG, block_count |-> count % U32,
         symbol_size |-> n % U32, source_symbols_per_block |-> source % U32,
         total_symbols_per_block |-> (source + repair) % U32]
  BY DEF planSession, ParamsFor, source, repair
<1>. QED
  BY <1>1, <1>4, <1>7, <1>8, <1>9 DEF SessionParams

\* A plan for a payload within the chunker's limit is not cut.
LEMMA PlanFits ==
    ASSUME NEW len \in Nat, NEW n \in MIN_FEC_SYMBOL_SIZE .. MAX_FEC_SYMBOL_SIZE,
           NEW count \in 1 .. MAX_BLOCK_COUNT, NEW pct \in 0 .. MAX_OVERHEAD,
           len + TAG <= MAX_PAYLOAD_SIZE
    PROVE  LET p == planSession(len, n, count, pct)
               source == div_ceil(div_ceil(len + TAG, count), n)
           IN  /\ p.block_count = count
               /\ p.symbol_size = n
               /\ p.source_symbols_per_block = source
               /\ p.total_symbols_per_block = source + ((source * pct) \div 100) + SPARE
<1>. DEFINE perBlock == div_ceil(len + TAG, count)
            source == div_ceil(perBlock, n)
            repair == ((source * pct) \div 100) + SPARE
<1>1. /\ len + TAG \in Nat \ {0} /\ count \in Nat \ {0} /\ n \in Nat \ {0}
      /\ {SPARE, MAX_PAYLOAD_SIZE, MAX_OVERHEAD} \subseteq Nat
      /\ U32 \in Nat \ {0} /\ MIN_FEC_SYMBOL_SIZE \in Nat \ {0}
      /\ MIN_FEC_SYMBOL_SIZE <= n
  BY LimitsAssumption DEF MAX_FEC_SYMBOL_SIZE
<1>2. /\ perBlock \in Nat /\ len + TAG <= count * perBlock
      /\ perBlock <= MAX_PAYLOAD_SIZE
  <2>1. perBlock \in Nat /\ len + TAG <= count * perBlock
    BY <1>1, DivCeil
  <2>2. len + TAG <= count * (len + TAG)
    BY <1>1
  <2>3. perBlock <= len + TAG
    BY <1>1, <2>2, DivCeilLeast
  <2>. QED
    BY <1>1, <2>1, <2>3
<1>3. perBlock # 0
  BY <1>1, <1>2
<1>4. source \in Nat /\ perBlock <= n * source
  BY <1>1, <1>2, DivCeil
<1>5. source # 0
  BY <1>1, <1>2, <1>3, <1>4
<1>6. source <= MostSymbols /\ MostSymbols \in Nat
  <2>1. source <= MostSymbols
    BY <1>1, <1>2, DivCeilMonotone DEF MostSymbols
  <2>2. MostSymbols \in Nat
    BY <1>1, DivCeil DEF MostSymbols
  <2>. QED
    BY <2>1, <2>2
<1>7. /\ (source * pct) \div 100 \in Nat
      /\ (source * pct) \div 100 <= (MostSymbols * MAX_OVERHEAD) \div 100
  <2>. DEFINE x == source * pct  y == MostSymbols * MAX_OVERHEAD
  <2>1. x \in Nat /\ y \in Nat
    BY <1>1, <1>4, <1>6
  <2>2. x <= y
    <3>1. source * pct <= MostSymbols * pct
      BY <1>4, <1>6
    <3>2. MostSymbols * pct <= MostSymbols * MAX_OVERHEAD
      BY <1>1, <1>6
    <3>. QED
      BY <1>1, <1>4, <1>6, <3>1, <3>2
  <2>. HIDE DEF x, y
  <2>3. x \div 100 \in Nat /\ x \div 100 <= y \div 100
    BY <2>1, <2>2
  <2>. QED
    BY <2>3 DEF x, y
<1>8. source < U32 /\ source + repair \in Nat /\ source + repair < U32
  BY <1>1, <1>4, <1>6, <1>7, WidthAssumption
<1>9. count < U32 /\ n < U32
  BY <1>1, WidthAssumption, LimitsAssumption DEF MAX_FEC_SYMBOL_SIZE
<1>. HIDE DEF source, repair, perBlock
<1>10. \A x \in Nat : x < U32 => x % U32 = x
  BY <1>1
<1>11. planSession(len, n, count, pct) =
        [payload_size |-> len + TAG, block_count |-> count % U32,
         symbol_size |-> n % U32, source_symbols_per_block |-> source % U32,
         total_symbols_per_block |-> (source + repair) % U32]
  BY <1>5 DEF planSession, ParamsFor, source, repair, perBlock
<1>12. source % U32 = source /\ (source + repair) % U32 = source + repair
       /\ count % U32 = count /\ n % U32 = n
  BY <1>1, <1>4, <1>8, <1>9, <1>10
<1>13. source + repair = source + ((source * pct) \div 100) + SPARE
  BY <1>1, <1>4, <1>7 DEF repair
<1>. QED
  BY <1>11, <1>12, <1>13 DEF source, perBlock

-----------------------------------------------------------------------------
(***************************************************************************)
(* The steps                                                               *)
(***************************************************************************)

\* The layout's numbers, once the parameters are accepted.
LEMMA LayoutNumbers ==
    ASSUME EncTypeOK, Agreed, Accepted
    PROVE  /\ params.block_count \in Nat \ {0} /\ params.symbol_size \in Nat \ {0}
           /\ small_size \in Nat /\ remainder \in 0 .. params.block_count - 1
           /\ large_size \in Nat /\ large_size >= small_size
           /\ remainder > 0 => large_size = small_size + 1
           /\ CiphertextLen = params.block_count * small_size + remainder
<1>1. /\ params.payload_size \in Nat /\ params.block_count \in Nat \ {0}
      /\ params.symbol_size \in Nat \ {0} /\ params.payload_size = CiphertextLen
  <2>1. params.payload_size \in Nat /\ params.payload_size = CiphertextLen
    BY DEF EncTypeOK, SessionParams, Agreed
  <2>2. params.block_count \in Nat \ {0}
    BY LimitsAssumption DEF Agreed
  <2>3. params.symbol_size \in Nat \ {0}
    BY LimitsAssumption DEF Agreed, MAX_FEC_SYMBOL_SIZE
  <2>. QED
    BY <2>1, <2>2, <2>3
<1>2. /\ small_size \in Nat /\ remainder \in 0 .. params.block_count - 1
      /\ params.payload_size = params.block_count * small_size + remainder
  BY <1>1, DivMod DEF small_size, remainder
<1>3. large_size = IF remainder = 0 THEN small_size ELSE small_size + 1
  BY <1>1, LargeIsSmallPlusOne DEF large_size, small_size, remainder
<1>. QED
  BY <1>1, <1>2, <1>3

\* The next block starts where this one ends.
LEMMA StartAdvances ==
    ASSUME EncTypeOK, Agreed, Accepted, NEW i \in Nat
    PROVE  /\ SizeOf(i) \in Nat /\ StartOf(i) \in Nat
           /\ StartOf(i + 1) = StartOf(i) + SizeOf(i)
<1>1. /\ small_size \in Nat /\ remainder \in Nat /\ large_size \in Nat
      /\ remainder > 0 => large_size = small_size + 1
  BY LayoutNumbers
<1>2. i * small_size \in Nat /\ (i + 1) * small_size = i * small_size + small_size
  BY <1>1
<1>. QED
  BY <1>1, <1>2 DEF SizeOf, StartOf

\* No block is larger than the first, nor than the ciphertext.
LEMMA SizeBounded ==
    ASSUME EncTypeOK, Agreed, Accepted, NEW i \in Nat
    PROVE  /\ SizeOf(i) \in Nat /\ SizeOf(i) <= large_size
           /\ SizeOf(i) <= CiphertextLen
<1>1. /\ params.block_count \in Nat \ {0} /\ small_size \in Nat /\ remainder \in Nat
      /\ large_size \in Nat /\ large_size >= small_size
      /\ remainder > 0 => large_size = small_size + 1
      /\ CiphertextLen = params.block_count * small_size + remainder
  BY LayoutNumbers
<1>2. params.block_count * small_size >= small_size
      /\ params.block_count * small_size \in Nat
  BY <1>1
<1>. QED
  BY <1>1, <1>2 DEF SizeOf

LEMMA PlanKeeps ==
    ASSUME EncIInv, NEW len \in PayloadLens, NEW n \in SymbolSizes,
           NEW count \in BlockCounts, NEW pct \in Overheads,
           Plan(len, n, count, pct)
    PROVE  EncIInv'
<1>. USE DEF EncIInv
<1>0. len \in Nat /\ n \in Nat /\ count \in Nat /\ pct \in Nat
  BY LimitsAssumption
<1>1. CASE BadFlags(n, count, pct)
  BY <1>1 DEF Plan, SendRefused, EncTypeOK, Planned, Agreed, Layout, Encoded, Emitted,
              Accepted, LaidOut
<1>2. CASE ~BadFlags(n, count, pct)
  <2>1. /\ n \in MIN_FEC_SYMBOL_SIZE .. MAX_FEC_SYMBOL_SIZE
        /\ count \in 1 .. MAX_BLOCK_COUNT /\ pct <= MAX_OVERHEAD
    BY <1>0, <1>2, LimitsAssumption DEF BadFlags
  <2>2. /\ payload' = len /\ overhead' = pct /\ params' = planSession(len, n, count, pct)
        /\ pc = "plan" /\ pc' = "new"
        /\ UNCHANGED <<blocks, offset, per_block, cursors, round, at, out>>
    BY <1>2 DEF Plan
  <2>3. params' \in SessionParams
    BY <1>0, <2>1, <2>2, PlanTyped
  <2>4. EncTypeOK'
    BY <1>0, <2>2, <2>3 DEF EncTypeOK
  <2>5. Planned'
    <3>1. params' = planSession(payload', n, count, overhead')
      BY <2>2
    <3>2. overhead' <= MAX_OVERHEAD
      BY <2>1, <2>2
    <3>. QED
      BY <2>1, <3>1, <3>2 DEF Planned, planSession, ParamsFor
  <2>6. Agreed' /\ Layout' /\ Encoded' /\ Emitted'
    BY <2>2 DEF Agreed, Layout, Encoded, Emitted, Accepted, LaidOut
  <2>. QED
    BY <2>4, <2>5, <2>6
<1>. QED
  BY <1>1, <1>2

LEMMA NewKeeps ==
    ASSUME EncIInv, New
    PROVE  EncIInv'
<1>. USE DEF EncIInv
<1>. DEFINE p == [params EXCEPT !.payload_size = payload + TAG]
<1>0. /\ pc = "new" /\ UNCHANGED <<payload, overhead>>
      /\ UNCHANGED <<blocks, offset, per_block, cursors, round, at, out>>
      /\ params \in SessionParams /\ payload \in Nat /\ overhead \in Nat
      /\ TAG \in Nat
  BY LimitsAssumption DEF New, SendRefused, EncTypeOK
<1>1. CASE ~(validate_params(p) /\ ChunkParams(p))
  <2>1. pc' = "refused" /\ UNCHANGED params
    BY <1>1 DEF New, SendRefused
  <2>. QED
    BY <1>0, <2>1 DEF EncTypeOK, Planned, Agreed, Layout, Encoded, Emitted, Accepted, LaidOut
<1>2. CASE validate_params(p) /\ ChunkParams(p)
  <2>1. params' = p /\ pc' = "layout"
    BY <1>2 DEF New
  <2>2. PICK n \in MIN_FEC_SYMBOL_SIZE .. MAX_FEC_SYMBOL_SIZE, count \in 1 .. MAX_BLOCK_COUNT :
           params = planSession(payload, n, count, overhead)
    BY <1>0 DEF Planned
  <2>3. overhead \in 0 .. MAX_OVERHEAD
    BY <1>0, LimitsAssumption DEF Planned
  <2>4. payload + TAG <= MAX_PAYLOAD_SIZE
    BY <1>0, <1>2 DEF ChunkParams, SessionParams
  <2>5. /\ p \in SessionParams /\ p.payload_size = payload + TAG
        /\ p.block_count = params.block_count /\ p.symbol_size = params.symbol_size
        /\ p.source_symbols_per_block = params.source_symbols_per_block
        /\ p.total_symbols_per_block = params.total_symbols_per_block
    BY <1>0 DEF SessionParams
  <2>. DEFINE source == div_ceil(div_ceil(payload + TAG, count), n)
  <2>. HIDE DEF p, source
  <2>6. /\ params.block_count = count /\ params.symbol_size = n
        /\ params.source_symbols_per_block = source
        /\ params.total_symbols_per_block = source + ((source * overhead) \div 100) + SPARE
    BY <1>0, <2>2, <2>3, <2>4, PlanFits DEF source
  <2>7. EncTypeOK'
    BY <1>0, <2>1, <2>5 DEF EncTypeOK
  <2>8. Agreed'
    <3>1. large_size' = div_ceil(payload + TAG, count)
      BY <2>1, <2>5, <2>6 DEF large_size
    <3>2. source = div_ceil(large_size', n)
      BY <3>1 DEF source
    <3>. QED
      BY <1>0, <2>1, <2>4, <2>5, <2>6, <3>2 DEF Agreed, CiphertextLen
  <2>9. Accepted'
    BY <2>1 DEF Accepted
  <2>10. Layout'
    <3>1. blocks' = <<>> /\ offset' = 0
      BY <1>0 DEF Encoded
    <3>2. StartOf(0)' = 0
      <4>1. small_size' \in Nat /\ remainder' \in Nat
        <5>1. payload + TAG \in Nat /\ count \in Nat \ {0}
          BY <1>0
        <5>2. small_size' = (payload + TAG) \div count /\ remainder' = (payload + TAG) % count
          BY <2>1, <2>5, <2>6 DEF small_size, remainder
        <5>. QED
          BY <5>1, <5>2, DivMod
      <4>2. StartOf(0)' = 0 * small_size' + (IF 0 < remainder' THEN 0 ELSE remainder')
        BY DEF StartOf
      <4>. QED
        BY <4>1, <4>2
    <3>3. params'.block_count \in Nat
      BY <2>7 DEF EncTypeOK, SessionParams
    <3>. QED
      BY <3>1, <3>2, <3>3 DEF Layout
  <2>11. Encoded' /\ Emitted' /\ Planned'
    BY <1>0, <2>1 DEF Encoded, Emitted, Planned, Accepted, LaidOut
  <2>. QED
    BY <2>7, <2>8, <2>10, <2>11
<1>. QED
  BY <1>1, <1>2

LEMMA LayoutBlockKeeps ==
    ASSUME EncIInv, LayoutBlock
    PROVE  EncIInv'
<1>. USE DEF EncIInv
<1>. DEFINE k == Len(blocks)  size == SizeOf(k)
            new == [start |-> offset, size |-> size, symbol_count |-> symbol_count(size)]
<1>0. /\ pc = "layout" /\ k < params.block_count /\ k \in Nat
      /\ UNCHANGED <<payload, overhead, params, per_block, cursors, round, at, out>>
      /\ Accepted
  BY DEF LayoutBlock, PushBlock, SendRefused, Accepted, EncTypeOK
<1>1. CASE symbol_count(size) >= U32
  <2>1. pc' = "refused" /\ UNCHANGED <<blocks, offset>>
    BY <1>1 DEF LayoutBlock, PushBlock, SendRefused, SizeOf
  <2>. QED
    BY <1>0, <2>1 DEF EncTypeOK, Planned, Agreed, Layout, Encoded, Emitted, Accepted, LaidOut
<1>2. CASE ~(symbol_count(size) >= U32)
  <2>1. blocks' = Append(blocks, new) /\ offset' = offset + size /\ pc' = pc
    BY <1>2 DEF LayoutBlock, PushBlock, SizeOf
  <2>2. size \in Nat /\ StartOf(k) \in Nat /\ StartOf(k + 1) = StartOf(k) + size
    BY <1>0, StartAdvances
  <2>3. symbol_count(size) \in 0 .. U32 - 1
    <3>1. params.symbol_size \in Nat \ {0}
      BY <1>0, LayoutNumbers
    <3>2. symbol_count(size) \in Nat
      BY <2>2, <3>1, DivCeil DEF symbol_count
    <3>. QED
      BY <1>2, <3>2, LimitsAssumption
  <2>4. offset = StartOf(k) /\ offset \in Nat
    BY <1>0 DEF Layout, EncTypeOK
  <2>. HIDE DEF size
  <2>5. new \in BlockInfo
    BY <2>2, <2>3, <2>4 DEF BlockInfo
  <2>6. /\ blocks' \in Seq(BlockInfo) /\ Len(blocks') = k + 1
        /\ \A i \in 1 .. k : blocks'[i] = blocks[i]
        /\ blocks'[k + 1] = new
    BY <2>1, <2>5 DEF EncTypeOK
  <2>7. EncTypeOK'
    BY <1>0, <2>1, <2>2, <2>4, <2>6 DEF EncTypeOK
  <2>8. Planned' /\ Agreed'
    BY <1>0, <2>1 DEF Planned, Agreed, Accepted, large_size, CiphertextLen
  <2>9. Layout'
    <3>1. \A i \in Nat : StartOf(i)' = StartOf(i) /\ SizeOf(i)' = SizeOf(i)
      BY <1>0 DEF StartOf, SizeOf, remainder, small_size, large_size
    <3>2. \A i \in Nat : symbol_count(SizeOf(i))' = symbol_count(SizeOf(i))
      BY <1>0, <3>1 DEF symbol_count
    <3>3. Len(blocks') <= params'.block_count
      BY <1>0, <2>6, LayoutNumbers
    <3>4. offset' = StartOf(Len(blocks))'
      <4>1. StartOf(Len(blocks))' = StartOf(k + 1)
        BY <1>0, <2>6 DEF StartOf, remainder, small_size
      <4>. QED
        BY <2>1, <2>2, <2>4, <4>1
    <3>5. ASSUME NEW i \in 1 .. Len(blocks')
          PROVE  /\ blocks'[i].start = StartOf(i - 1)'
                 /\ blocks'[i].size = SizeOf(i - 1)'
                 /\ blocks'[i].symbol_count = symbol_count(SizeOf(i - 1))'
      <4>1. i - 1 \in Nat
        BY <1>0, <2>6
      <4>2. CASE i \in 1 .. k
        BY <1>0, <2>6, <3>1, <3>2, <4>1, <4>2 DEF Layout
      <4>3. CASE i = k + 1
        <5>1. i - 1 = k
          BY <1>0, <4>3
        <5>2. blocks'[i].start = offset /\ blocks'[i].size = size
              /\ blocks'[i].symbol_count = symbol_count(size)
          BY <2>6, <4>3
        <5>. QED
          BY <2>4, <3>1, <3>2, <4>1, <5>1, <5>2 DEF size
      <4>. QED
        BY <1>0, <2>6, <4>2, <4>3
    <3>. QED
      BY <3>3, <3>4, <3>5 DEF Layout
  <2>10. Encoded' /\ Emitted'
    <3>1. per_block' = <<>> /\ cursors' = cursors /\ out' = <<>> /\ at' = 1 /\ Len(cursors) = 0
      BY <1>0 DEF Encoded, Emitted
    <3>. QED
      BY <1>0, <2>1, <2>6, <3>1 DEF Encoded, Emitted, Accepted, LaidOut
  <2>. QED
    BY <2>7, <2>8, <2>9, <2>10
<1>. QED
  BY <1>1, <1>2

LEMMA LayoutEndsKeeps ==
    ASSUME EncIInv, LayoutEnds
    PROVE  EncIInv'
<1>. USE DEF EncIInv
<1>0. /\ pc = "layout" /\ pc' = "encode" /\ Len(blocks) = params.block_count
      /\ UNCHANGED <<payload, overhead, params, blocks, offset, per_block, cursors,
                     round, at, out>>
  <2>1. Accepted
    BY DEF LayoutEnds, Accepted
  <2>2. params.payload_size = payload + TAG
    BY <2>1 DEF Agreed, CiphertextLen
  <2>. QED
    BY <2>2 DEF LayoutEnds
<1>. USE <1>0
<1>1. EncTypeOK' /\ Planned'
  BY DEF EncTypeOK, Planned
<1>2. Agreed' /\ Layout'
  BY DEF Agreed, Layout, Accepted, large_size, small_size, remainder, CiphertextLen,
         StartOf, SizeOf, symbol_count
<1>3. Encoded' /\ Emitted'
  BY DEF Encoded, Emitted, Accepted, LaidOut, repair_count
<1>. QED
  BY <1>1, <1>2, <1>3

\* A block of the layout with bytes in it has a number of packets.
LEMMA PacketsOfBlock ==
    ASSUME EncIInv, Accepted, NEW i \in 1 .. Len(blocks), blocks[i].size # 0
    PROVE  SourcePackets(blocks[i].size, params.symbol_size) + repair_count \in Nat
<1>1. SourcePackets(blocks[i].size, params.symbol_size) \in Nat
  <2>1. blocks[i].size = SizeOf(i - 1) /\ i - 1 \in Nat
    BY DEF EncIInv, Layout, EncTypeOK
  <2>2. /\ SizeOf(i - 1) \in Nat /\ SizeOf(i - 1) <= CiphertextLen
    BY <2>1, SizeBounded DEF EncIInv
  <2>3. CiphertextLen <= MAX_PAYLOAD_SIZE /\ CiphertextLen \in Nat
    <3>1. payload \in Nat /\ TAG \in Nat
      BY LimitsAssumption DEF EncIInv, EncTypeOK
    <3>2. CiphertextLen <= MAX_PAYLOAD_SIZE
      BY DEF EncIInv, Agreed
    <3>. QED
      BY <3>1, <3>2 DEF CiphertextLen
  <2>4. blocks[i].size \in 1 .. MAX_PAYLOAD_SIZE
    BY <2>1, <2>2, <2>3, LimitsAssumption
  <2>5. params.symbol_size \in MIN_FEC_SYMBOL_SIZE .. MAX_FEC_SYMBOL_SIZE
    BY DEF EncIInv, Agreed
  <2>. QED
    BY <2>4, <2>5, PacketsAssumption
<1>2. repair_count \in Nat
  BY DEF repair_count, EncIInv, EncTypeOK, SessionParams
<1>. QED
  BY <1>1, <1>2

LEMMA EncodeBlockKeeps ==
    ASSUME EncIInv, EncodeBlock
    PROVE  EncIInv'
<1>. USE DEF EncIInv
<1>. DEFINE k == Len(per_block)
            frames == IF blocks[k + 1].size = 0 THEN 0
                      ELSE SourcePackets(blocks[k + 1].size, params.symbol_size) + repair_count
<1>0. /\ pc = "encode" /\ k < Len(blocks) /\ k \in Nat /\ Len(blocks) \in Nat
      /\ UNCHANGED <<payload, overhead, params, blocks, offset, round, at, out>>
      /\ Accepted
  BY DEF EncodeBlock, SendRefused, Accepted, EncTypeOK
<1>1. CASE pc' = "refused" /\ UNCHANGED <<per_block, cursors>>
  BY <1>0, <1>1 DEF EncTypeOK, Planned, Agreed, Layout, Encoded, Emitted, Accepted, LaidOut
<1>2. CASE /\ pc' = pc
           /\ per_block' = Append(per_block, frames) /\ cursors' = Append(cursors, 0)
  <2>1. frames \in Nat
    BY <1>0, PacketsOfBlock
  <2>. HIDE DEF frames
  <2>2. /\ per_block' \in Seq(Nat) /\ Len(per_block') = k + 1
        /\ \A i \in 1 .. k : per_block'[i] = per_block[i]
        /\ per_block'[k + 1] = frames
        /\ cursors' \in Seq(Nat) /\ Len(cursors') = Len(cursors) + 1
    BY <1>2, <2>1 DEF EncTypeOK
  <2>3. EncTypeOK' /\ Planned'
    BY <1>0, <1>2, <2>2 DEF EncTypeOK, Planned
  <2>4. Agreed' /\ Layout'
    BY <1>0, <1>2 DEF Agreed, Layout, Accepted, large_size, small_size, remainder,
                      CiphertextLen, StartOf, SizeOf, symbol_count
  <2>5. Encoded'
    <3>1. repair_count' = repair_count
      BY <1>0 DEF repair_count
    <3>2. ASSUME NEW i \in 1 .. Len(per_block')
          PROVE  per_block'[i] =
                    IF blocks'[i].size = 0 THEN 0
                    ELSE SourcePackets(blocks'[i].size, params'.symbol_size) + repair_count'
      <4>1. CASE i \in 1 .. k
        BY <1>0, <2>2, <3>1, <4>1 DEF Encoded
      <4>2. CASE i = k + 1
        BY <1>0, <2>2, <3>1, <4>2 DEF frames
      <4>. QED
        BY <1>0, <2>2, <4>1, <4>2
    <3>3. /\ Len(per_block') <= Len(blocks') /\ Len(cursors') = Len(per_block')
          /\ Len(blocks') = params'.block_count
      BY <1>0, <2>2 DEF Encoded, LaidOut
    <3>. QED
      BY <1>0, <1>2, <3>2, <3>3 DEF Encoded
  <2>6. Emitted'
    <3>1. out' = <<>> /\ at' = 1
      BY <1>0 DEF Emitted
    <3>. QED
      BY <1>0, <1>2, <3>1 DEF Emitted
  <2>. QED
    BY <2>3, <2>4, <2>5, <2>6
<1>. QED
  BY <1>1, <1>2 DEF EncodeBlock, SendRefused

LEMMA EncodeEndsKeeps ==
    ASSUME EncIInv, EncodeEnds
    PROVE  EncIInv'
<1>. USE DEF EncIInv, EncodeEnds
<1>1. EncTypeOK' /\ Planned'
  BY DEF EncTypeOK, Planned
<1>2. Agreed' /\ Layout'
  BY DEF Agreed, Layout, Accepted, large_size, small_size, remainder, CiphertextLen,
         StartOf, SizeOf, symbol_count
<1>3. Encoded'
  BY DEF Encoded, Accepted, LaidOut, repair_count
<1>4. Emitted'
  <2>1. Len(per_block) \in Nat \ {0}
    <3>1. Accepted /\ LaidOut
      BY DEF Accepted, LaidOut
    <3>. QED
      BY <3>1, LayoutNumbers DEF Encoded
  <2>. QED
    BY <2>1 DEF Emitted
<1>. QED
  BY <1>1, <1>2, <1>3, <1>4

LEMMA InterleaveKeeps ==
    ASSUME EncIInv, Interleave
    PROVE  EncIInv'
<1>. USE DEF EncIInv
<1>0. /\ pc = "interleave" /\ Accepted
      /\ UNCHANGED <<pc, payload, overhead, params, blocks, offset, per_block>>
      /\ at \in 1 .. Len(per_block) /\ Len(cursors) = Len(per_block)
      /\ per_block \in Seq(Nat) /\ cursors \in Seq(Nat) /\ Len(per_block) \in Nat
      /\ round \in Nat
  BY DEF Interleave, Accepted, Encoded, Emitted, EncTypeOK
<1>1. at' \in 1 .. Len(per_block) /\ round' \in Nat
  BY <1>0 DEF Interleave
<1>. DEFINE f == [block |-> at - 1, symbol |-> cursors[at]]
<1>2. /\ out' \in Seq([block: Nat, symbol: Nat])
      /\ cursors' \in Seq(Nat) /\ Len(cursors') = Len(per_block)
      /\ \A p \in 1 .. Len(out') :
            \/ p \in 1 .. Len(out) /\ out'[p] = out[p]
            \/ out'[p] = f /\ cursors[at] < per_block[at]
  <2>1. CASE cursors[at] < per_block[at]
    <3>1. out' = Append(out, f) /\ cursors' = [cursors EXCEPT ![at] = @ + 1]
      BY <2>1 DEF Interleave, TakeFrame
    <3>2. f \in [block: Nat, symbol: Nat] /\ out \in Seq([block: Nat, symbol: Nat])
      BY <1>0 DEF EncTypeOK
    <3>. HIDE DEF f
    <3>3. /\ out' \in Seq([block: Nat, symbol: Nat])
          /\ \A p \in 1 .. Len(out') :
                (p \in 1 .. Len(out) /\ out'[p] = out[p]) \/ out'[p] = f
      BY <3>1, <3>2
    <3>4. cursors' \in Seq(Nat) /\ Len(cursors') = Len(cursors)
      BY <1>0, <3>1
    <3>. QED
      BY <1>0, <2>1, <3>3, <3>4
  <2>2. CASE ~(cursors[at] < per_block[at])
    BY <1>0, <2>2 DEF Interleave, TakeFrame, EncTypeOK
  <2>. QED
    BY <2>1, <2>2
<1>3. EncTypeOK' /\ Planned'
  BY <1>0, <1>1, <1>2 DEF EncTypeOK, Planned
<1>4. Agreed' /\ Layout'
  BY <1>0 DEF Agreed, Layout, Accepted, large_size, small_size, remainder, CiphertextLen,
              StartOf, SizeOf, symbol_count
<1>5. Encoded'
  BY <1>0, <1>2 DEF Encoded, Accepted, LaidOut, repair_count
<1>6. Emitted'
  <2>1. ASSUME NEW p \in 1 .. Len(out')
        PROVE  /\ out'[p].block + 1 \in 1 .. Len(per_block')
               /\ out'[p].symbol < per_block'[out'[p].block + 1]
    <3>1. CASE p \in 1 .. Len(out) /\ out'[p] = out[p]
      BY <1>0, <3>1 DEF Emitted
    <3>2. CASE out'[p] = f /\ cursors[at] < per_block[at]
      <4>1. out'[p].block + 1 = at /\ out'[p].symbol = cursors[at]
        BY <1>0, <3>2
      <4>. QED
        BY <1>0, <3>2, <4>1
    <3>. QED
      BY <1>2, <3>1, <3>2
  <2>. QED
    BY <1>0, <1>1, <2>1 DEF Emitted
<1>. QED
  BY <1>3, <1>4, <1>5, <1>6

LEMMA InterleaveEndsKeeps ==
    ASSUME EncIInv, InterleaveEnds
    PROVE  EncIInv'
<1>. USE DEF EncIInv, InterleaveEnds
<1>1. EncTypeOK' /\ Planned'
  BY DEF EncTypeOK, Planned
<1>2. Agreed' /\ Layout'
  BY DEF Agreed, Layout, Accepted, large_size, small_size, remainder, CiphertextLen,
         StartOf, SizeOf, symbol_count
<1>3. Encoded' /\ Emitted'
  BY DEF Encoded, Emitted, Accepted, LaidOut, repair_count
<1>. QED
  BY <1>1, <1>2, <1>3

-----------------------------------------------------------------------------
(***************************************************************************)
(* The theorems                                                            *)
(***************************************************************************)

\* EncIInv holds in every reachable state.
THEOREM EncoderInvariant == EncSpec => []EncIInv
<1>1. EncInit => EncIInv
  <2>. SUFFICES ASSUME EncInit PROVE EncIInv
    OBVIOUS
  <2>1. EncTypeOK
    BY LimitsAssumption DEF EncInit, EncTypeOK, NoParams, SessionParams
  <2>2. Planned /\ Agreed /\ Layout /\ Encoded /\ Emitted
    BY DEF EncInit, Planned, Agreed, Layout, Encoded, Emitted, Accepted, LaidOut
  <2>. QED
    BY <2>1, <2>2 DEF EncIInv
<1>2. EncIInv /\ [EncNext]_encVars => EncIInv'
  <2>. SUFFICES ASSUME EncIInv, [EncNext]_encVars PROVE EncIInv'
    OBVIOUS
  <2>1. CASE UNCHANGED encVars
    BY <2>1 DEF encVars, EncIInv, EncTypeOK, Planned, Agreed, Layout, Encoded, Emitted,
                Accepted, LaidOut, large_size, small_size, remainder, CiphertextLen,
                StartOf, SizeOf, symbol_count, repair_count
  <2>2. ASSUME NEW len \in PayloadLens, NEW n \in SymbolSizes,
               NEW count \in BlockCounts, NEW pct \in Overheads,
               Plan(len, n, count, pct)
        PROVE  EncIInv'
    BY <2>2, PlanKeeps
  <2>3. CASE New
    BY <2>3, NewKeeps
  <2>4. CASE LayoutBlock
    BY <2>4, LayoutBlockKeeps
  <2>5. CASE LayoutEnds
    BY <2>5, LayoutEndsKeeps
  <2>6. CASE EncodeBlock
    BY <2>6, EncodeBlockKeeps
  <2>7. CASE EncodeEnds
    BY <2>7, EncodeEndsKeeps
  <2>8. CASE Interleave
    BY <2>8, InterleaveKeeps
  <2>9. CASE InterleaveEnds
    BY <2>9, InterleaveEndsKeeps
  <2>. QED
    BY <2>1, <2>2, <2>3, <2>4, <2>5, <2>6, <2>7, <2>8, <2>9 DEF EncNext
<1>. QED
  BY <1>1, <1>2, PTL DEF EncSpec

\* Type correctness of a send, the 32-bit counts included.
THEOREM EncoderTypes == EncSpec => []EncTypeOK
<1>1. EncIInv => EncTypeOK
  BY DEF EncIInv
<1>. QED
  BY <1>1, EncoderInvariant, PTL

\* The blocks compute_blocks lays out tile the ciphertext.
THEOREM LayoutTiles == EncSpec => []BlocksTile
<1>1. EncIInv => BlocksTile
  <2>. SUFFICES ASSUME EncIInv, LaidOut
                PROVE  /\ Len(blocks) = params.block_count
                       /\ blocks[1].start = 0
                       /\ \A i \in 1 .. Len(blocks) - 1 :
                             blocks[i + 1].start = blocks[i].start + blocks[i].size
                       /\ blocks[Len(blocks)].start + blocks[Len(blocks)].size = CiphertextLen
    BY DEF BlocksTile
  <2>. USE DEF EncIInv
  <2>1. Accepted
    BY DEF LaidOut, Accepted
  <2>2. /\ params.block_count \in Nat \ {0} /\ small_size \in Nat
        /\ remainder \in 0 .. params.block_count - 1
        /\ CiphertextLen = params.block_count * small_size + remainder
    BY <2>1, LayoutNumbers
  <2>3. Len(blocks) = params.block_count
    BY DEF Encoded
  <2>4. \A i \in 1 .. Len(blocks) :
           blocks[i].start = StartOf(i - 1) /\ blocks[i].size = SizeOf(i - 1)
    BY <2>1 DEF Layout
  <2>5. \A i \in Nat : StartOf(i + 1) = StartOf(i) + SizeOf(i)
    BY <2>1, StartAdvances
  <2>6. StartOf(0) = 0
    BY <2>2 DEF StartOf
  <2>7. StartOf(params.block_count) = CiphertextLen
    BY <2>2 DEF StartOf
  <2>8. blocks[1].start = 0
    BY <2>2, <2>3, <2>4, <2>6
  <2>9. ASSUME NEW i \in 1 .. Len(blocks) - 1
        PROVE  blocks[i + 1].start = blocks[i].start + blocks[i].size
    <3>1. i - 1 \in Nat /\ (i - 1) + 1 = i /\ i \in 1 .. Len(blocks) /\ i + 1 \in 1 .. Len(blocks)
          /\ (i + 1) - 1 = i
      BY <2>2, <2>3
    <3>2. StartOf(i) = StartOf(i - 1) + SizeOf(i - 1)
      BY <2>5, <3>1
    <3>. QED
      BY <2>4, <3>1, <3>2
  <2>10. blocks[Len(blocks)].start + blocks[Len(blocks)].size = CiphertextLen
    <3>. DEFINE b == params.block_count
    <3>1. b - 1 \in Nat /\ (b - 1) + 1 = b /\ b \in 1 .. Len(blocks)
      BY <2>2, <2>3
    <3>2. StartOf(b) = StartOf(b - 1) + SizeOf(b - 1)
      BY <2>5, <3>1
    <3>. QED
      BY <2>3, <2>4, <2>7, <3>1, <3>2
  <2>. QED
    BY <2>3, <2>8, <2>9, <2>10
<1>. QED
  BY <1>1, EncoderInvariant, PTL

\* A block has at most the planned number of source symbols.
LEMMA SourceBounded ==
    ASSUME EncIInv, Accepted, NEW i \in 1 .. Len(blocks)
    PROVE  /\ blocks[i].symbol_count \in Nat
           /\ blocks[i].symbol_count <= params.source_symbols_per_block
<1>. USE DEF EncIInv
<1>1. i - 1 \in Nat /\ blocks[i].symbol_count = symbol_count(SizeOf(i - 1))
  BY DEF Layout, EncTypeOK
<1>2. SizeOf(i - 1) \in Nat /\ SizeOf(i - 1) <= large_size /\ large_size \in Nat
  BY <1>1, SizeBounded, LayoutNumbers
<1>3. params.symbol_size \in Nat \ {0}
  BY LayoutNumbers
<1>4. /\ div_ceil(SizeOf(i - 1), params.symbol_size) \in Nat
      /\ div_ceil(SizeOf(i - 1), params.symbol_size)
            <= div_ceil(large_size, params.symbol_size)
      /\ div_ceil(large_size, params.symbol_size) \in Nat
  <2>1. /\ div_ceil(SizeOf(i - 1), params.symbol_size) \in Nat
        /\ div_ceil(large_size, params.symbol_size) \in Nat
    BY <1>2, <1>3, DivCeil
  <2>2. params.symbol_size <= params.symbol_size
    BY <1>3
  <2>3. div_ceil(SizeOf(i - 1), params.symbol_size)
          <= div_ceil(large_size, params.symbol_size)
    BY <1>2, <1>3, <2>2, DivCeilMonotone
  <2>. QED
    BY <2>1, <2>3
<1>5. params.source_symbols_per_block = div_ceil(large_size, params.symbol_size)
  BY DEF Agreed
<1>. QED
  BY <1>1, <1>4, <1>5 DEF symbol_count

\* What the plan leaves for repair.
LEMMA RepairPlanned ==
    ASSUME EncIInv, Accepted
    PROVE  /\ params.source_symbols_per_block \in Nat
           /\ params.total_symbols_per_block =
                 params.source_symbols_per_block + repair_count
           /\ repair_count =
                 ((params.source_symbols_per_block * overhead) \div 100) + SPARE
           /\ repair_count \in Nat
<1>. DEFINE s == params.source_symbols_per_block
            t == params.total_symbols_per_block
            r == (s * overhead) \div 100
<1>1. s \in Nat /\ t \in Nat /\ overhead \in Nat /\ SPARE \in Nat
  BY LimitsAssumption DEF EncIInv, EncTypeOK, SessionParams
<1>2. s * overhead \in Nat
  BY <1>1
<1>3. r \in Nat
  BY <1>2, DivMod
<1>4. t = s + r + SPARE
  BY DEF EncIInv, Agreed
<1>. HIDE DEF r
<1>5. repair_count = r + SPARE
  <2>1. repair_count = IF t > s THEN t - s ELSE 0
    BY DEF repair_count
  <2>. HIDE DEF s, t
  <2>2. t - s = r + SPARE /\ (t > s \/ r + SPARE = 0)
    BY <1>1, <1>3, <1>4
  <2>. QED
    BY <1>1, <1>3, <2>1, <2>2
<1>. QED
  BY <1>1, <1>3, <1>4, <1>5 DEF r

\* No emitted symbol index is outside the receiver's bitmap, as mark_held says.
THEOREM EmittedFits == EncSpec => []EmittedInBitmap
<1>1. EncIInv => EmittedInBitmap
  <2>. SUFFICES ASSUME EncIInv, LaidOut, LibraryAgrees
                PROVE  /\ \A i \in DOMAIN per_block :
                             per_block[i] <= params.total_symbols_per_block
                       /\ \A p \in DOMAIN out :
                             out[p].symbol < params.total_symbols_per_block
    BY DEF EmittedInBitmap
  <2>. USE DEF EncIInv
  <2>1. Accepted
    BY DEF LaidOut, Accepted
  <2>2. /\ DOMAIN per_block = 1 .. Len(per_block) /\ DOMAIN out = 1 .. Len(out)
        /\ DOMAIN blocks = 1 .. Len(blocks) /\ Len(per_block) <= Len(blocks)
        /\ Len(per_block) \in Nat /\ Len(blocks) \in Nat
        /\ per_block \in Seq(Nat) /\ out \in Seq([block: Nat, symbol: Nat])
        /\ blocks \in Seq(BlockInfo)
    BY <2>1 DEF EncTypeOK, Encoded
  <2>3. /\ params.source_symbols_per_block \in Nat /\ repair_count \in Nat
        /\ params.total_symbols_per_block = params.source_symbols_per_block + repair_count
    BY <2>1, RepairPlanned
  <2>4. ASSUME NEW i \in 1 .. Len(per_block)
        PROVE  per_block[i] <= params.total_symbols_per_block
    <3>1. i \in 1 .. Len(blocks)
      BY <2>2
    <3>2. CASE blocks[i].size = 0
      BY <2>1, <2>3, <3>2 DEF Encoded
    <3>3. CASE blocks[i].size # 0
      <4>1. blocks[i].size > 0
        <5>1. blocks[i] \in BlockInfo
          BY <2>2, <3>1
        <5>2. blocks[i].size \in Nat
          BY <5>1 DEF BlockInfo
        <5>. QED
          BY <3>3, <5>2
      <4>2. SourcePackets(blocks[i].size, params.symbol_size) = blocks[i].symbol_count
        BY <2>2, <3>1, <4>1 DEF LibraryAgrees
      <4>3. per_block[i] = blocks[i].symbol_count + repair_count
        BY <2>1, <3>3, <4>2 DEF Encoded
      <4>4. /\ blocks[i].symbol_count \in Nat
            /\ blocks[i].symbol_count <= params.source_symbols_per_block
        BY <2>1, <3>1, SourceBounded
      <4>. QED
        BY <2>3, <4>3, <4>4
    <3>. QED
      BY <3>2, <3>3
  <2>5. ASSUME NEW p \in 1 .. Len(out)
        PROVE  out[p].symbol < params.total_symbols_per_block
    <3>1. /\ out[p].block + 1 \in 1 .. Len(per_block)
          /\ out[p].symbol < per_block[out[p].block + 1]
          /\ out[p].symbol \in Nat
      <4>1. out[p] \in [block: Nat, symbol: Nat]
        <5>. DEFINE F == [block: Nat, symbol: Nat]
        <5>1. out \in Seq(F)
          BY <2>2
        <5>. HIDE DEF F
        <5>2. out[p] \in F
          BY <5>1
        <5>. QED
          BY <5>2 DEF F
      <4>2. /\ out[p].block + 1 \in 1 .. Len(per_block)
            /\ out[p].symbol < per_block[out[p].block + 1]
        BY <2>1 DEF Emitted
      <4>. QED
        BY <4>1, <4>2
    <3>2. /\ per_block[out[p].block + 1] <= params.total_symbols_per_block
          /\ per_block[out[p].block + 1] \in Nat
      BY <2>2, <2>4, <3>1
    <3>. QED
      BY <2>3, <3>1, <3>2
  <2>. QED
    BY <2>2, <2>4, <2>5
<1>. QED
  BY <1>1, EncoderInvariant, PTL

\* Every block has the repair symbols -overhead asks for.
THEOREM KeepsOverhead == EncSpec => []OverheadKept
<1>1. EncIInv => OverheadKept
  <2>. SUFFICES ASSUME EncIInv, LaidOut, NEW i \in DOMAIN blocks
                PROVE  repair_count >= ((blocks[i].symbol_count * overhead) \div 100) + SPARE
    BY DEF OverheadKept
  <2>. DEFINE c == blocks[i].symbol_count  s == params.source_symbols_per_block
              x == c * overhead  y == s * overhead
  <2>1. Accepted
    BY DEF LaidOut, Accepted
  <2>2. c \in Nat /\ c <= s
    <3>1. i \in 1 .. Len(blocks)
      BY DEF EncIInv, EncTypeOK
    <3>. QED
      BY <2>1, <3>1, SourceBounded
  <2>3. s \in Nat /\ repair_count = (y \div 100) + SPARE
    BY <2>1, RepairPlanned
  <2>4. overhead \in Nat /\ SPARE \in Nat
    BY LimitsAssumption DEF EncIInv, EncTypeOK
  <2>5. x \in Nat /\ y \in Nat /\ x <= y
    BY <2>2, <2>3, <2>4
  <2>. HIDE DEF x, y
  <2>6. x \div 100 \in Nat /\ y \div 100 \in Nat /\ x \div 100 <= y \div 100
    BY <2>5
  <2>7. repair_count >= (x \div 100) + SPARE
    BY <2>3, <2>4, <2>6
  <2>. QED
    BY <2>7 DEF x
<1>. QED
  BY <1>1, EncoderInvariant, PTL

-----------------------------------------------------------------------------
(***************************************************************************)
(* The walk over the lists                                                 *)
(***************************************************************************)

\* How often the walk has been at list i.
Visits(i) == round + (IF i < at THEN 1 ELSE 0)

\* A cursor is as far as the visits to it, or at the end of its list.
Walked ==
    /\ pc \in {"plan", "new", "layout", "encode"} => round = 0
    /\ Accepted => \A i \in 1 .. Len(per_block) :
          cursors[i] = IF Visits(i) <= per_block[i] THEN Visits(i) ELSE per_block[i]
    /\ pc = "done" => \A i \in 1 .. Len(per_block) : cursors[i] = per_block[i]

\* The stream has the frames the cursors have passed, and no frame twice.
TakenOnce ==
    Accepted =>
        /\ \A p, q \in 1 .. Len(out) : out[p] = out[q] => p = q
        /\ \A p \in 1 .. Len(out) : out[p].symbol < cursors[out[p].block + 1]
        /\ \A i \in 1 .. Len(per_block) : \A s \in 0 .. cursors[i] - 1 :
              \E p \in 1 .. Len(out) : out[p].block = i - 1 /\ out[p].symbol = s

StreamIInv == Walked /\ TakenOnce

\* Of at most three numbers, one is the largest.
LEMMA LargestOfThree ==
    ASSUME NEW a \in Nat, NEW b \in Nat, NEW S, S \subseteq {0, a, b}, S # {}
    PROVE  /\ Max(S) \in S
           /\ \A y \in S : y \in Nat /\ y <= Max(S)
<1>1. \A y \in S : y \in Nat
  OBVIOUS
<1>2. \E x \in S : \A y \in S : x >= y
  <2>1. CASE a \in S /\ (b \in S => b <= a)
    BY <2>1
  <2>2. CASE b \in S /\ (a \in S => a <= b)
    BY <2>2
  <2>3. CASE a \notin S /\ b \notin S
    <3>1. \A y \in S : y = 0
      BY <2>3
    <3>2. \A x \in S : \A y \in S : x >= y
      BY <3>1
    <3>. QED
      BY <3>2
  <2>. QED
    BY <1>1, <2>1, <2>2, <2>3
<1>. QED
  BY <1>1, <1>2 DEF Max

\* The blocks have at most two sizes, so there is a longest list.
LEMMA LongestList ==
    ASSUME EncIInv, pc = "interleave"
    PROVE  \A i \in 1 .. Len(per_block) :
              per_block[i] \in Nat /\ Max(Range(per_block)) \in Nat
              /\ per_block[i] <= Max(Range(per_block))
<1>. USE DEF EncIInv
<1>1. /\ Accepted /\ LaidOut /\ Len(per_block) = Len(blocks) /\ Len(blocks) = params.block_count
      /\ Len(blocks) \in Nat /\ per_block \in Seq(Nat) /\ at \in 1 .. Len(per_block)
      /\ DOMAIN per_block = 1 .. Len(per_block)
  BY DEF Accepted, LaidOut, Encoded, EncTypeOK, Emitted
<1>. DEFINE packets(size) == IF size = 0 THEN 0
                             ELSE SourcePackets(size, params.symbol_size) + repair_count
            a == IF \E i \in 1 .. Len(per_block) : blocks[i].size = large_size
                 THEN packets(large_size) ELSE 0
            b == IF \E i \in 1 .. Len(per_block) : blocks[i].size = small_size
                 THEN packets(small_size) ELSE 0
<1>2. \A i \in 1 .. Len(per_block) : per_block[i] = packets(blocks[i].size)
  BY <1>1 DEF Encoded
<1>3. \A i \in 1 .. Len(per_block) : blocks[i].size \in {large_size, small_size}
  BY <1>1 DEF Layout, SizeOf
<1>4. \A i \in 1 .. Len(per_block) : packets(blocks[i].size) \in Nat
  BY <1>1, <1>2
<1>. HIDE DEF packets
<1>5. a \in Nat /\ b \in Nat
  BY <1>4
<1>6. \A i \in 1 .. Len(per_block) : per_block[i] \in {0, a, b}
  BY <1>2, <1>3
<1>. HIDE DEF a, b
<1>7. Range(per_block) \subseteq {0, a, b} /\ Range(per_block) # {}
  BY <1>1, <1>6 DEF Range
<1>8. /\ Max(Range(per_block)) \in Range(per_block)
      /\ \A y \in Range(per_block) : y \in Nat /\ y <= Max(Range(per_block))
  BY <1>5, <1>7, LargestOfThree
<1>9. \A i \in 1 .. Len(per_block) : per_block[i] \in Range(per_block)
  BY <1>1 DEF Range
<1>. QED
  BY <1>8, <1>9

\* Until the lists are walked nothing is taken.
LEMMA NothingTakenYet ==
    ASSUME EncIInv, StreamIInv,
           \/ \E len \in PayloadLens, n \in SymbolSizes, count \in BlockCounts, pct \in Overheads :
                 Plan(len, n, count, pct)
           \/ New \/ LayoutBlock \/ LayoutEnds \/ EncodeEnds
    PROVE  StreamIInv'
<1>. USE DEF EncIInv, StreamIInv
<1>1. /\ pc \in {"plan", "new", "layout", "encode"}
      /\ UNCHANGED <<per_block, cursors, round, at, out>>
      /\ pc' # "done"
      /\ pc' \in {"new", "layout", "encode"} \/ pc' = "refused" \/ (pc = "encode" /\ pc' = "interleave")
  BY DEF Plan, New, LayoutBlock, PushBlock, LayoutEnds, EncodeEnds, SendRefused
<1>2. /\ out = <<>> /\ at = 1 /\ round = 0
  BY <1>1 DEF Emitted, Walked
<1>3. pc # "encode" => per_block = <<>>
  BY <1>1 DEF Encoded
<1>4. \A i \in 1 .. Len(per_block) : per_block[i] \in Nat /\ cursors[i] = 0
  BY <1>1, <1>2, <1>3 DEF Walked, Visits, Accepted, EncTypeOK
<1>5. \A i \in 1 .. Len(per_block) : Visits(i)' = 0
  BY <1>1, <1>2 DEF Visits
<1>6. Walked'
  BY <1>1, <1>2, <1>4, <1>5 DEF Walked
<1>7. TakenOnce'
  BY <1>1, <1>2, <1>4 DEF TakenOnce
<1>. QED
  BY <1>6, <1>7

\* A block adds a list and a cursor at its start.
LEMMA EncodeBlockTakes ==
    ASSUME EncIInv, StreamIInv, EncodeBlock, EncIInv'
    PROVE  StreamIInv'
<1>. USE DEF EncIInv, StreamIInv
<1>1. /\ pc = "encode" /\ UNCHANGED <<round, at, out>> /\ out = <<>> /\ at = 1 /\ round = 0
      /\ Accepted /\ Len(cursors) = Len(per_block) /\ Len(per_block) \in Nat
      /\ per_block \in Seq(Nat) /\ cursors \in Seq(Nat)
  BY DEF EncodeBlock, SendRefused, Emitted, Walked, Accepted, Encoded, EncTypeOK
<1>2. CASE pc' = "refused"
  BY <1>1, <1>2 DEF Walked, TakenOnce, Accepted
<1>3. CASE pc' = pc /\ cursors' = Append(cursors, 0) /\ Len(per_block') = Len(per_block) + 1
           /\ (\A i \in 1 .. Len(per_block) : per_block'[i] = per_block[i])
  <2>0. per_block' \in Seq(Nat)
    BY DEF EncTypeOK
  <2>1. \A i \in 1 .. Len(per_block') : per_block'[i] \in Nat
    BY ONLY <2>0
  <2>2. \A i \in 1 .. Len(per_block) : cursors[i] = 0
    BY <1>1 DEF Walked, Visits, EncTypeOK
  <2>3. \A i \in 1 .. Len(per_block') : cursors'[i] = 0
    BY <1>1, <1>3, <2>2
  <2>4. \A i \in 1 .. Len(per_block') : Visits(i)' = 0
    BY <1>1 DEF Visits, EncTypeOK
  <2>. QED
    BY <1>1, <1>3, <2>1, <2>3, <2>4 DEF Walked, TakenOnce
<1>4. EncodeBlock => pc' = "refused" \/
        (/\ pc' = pc /\ cursors' = Append(cursors, 0)
         /\ \E x : per_block' = Append(per_block, x))
  BY DEF EncodeBlock, SendRefused
<1>5. ASSUME NEW x, per_block' = Append(per_block, x)
      PROVE  /\ Len(per_block') = Len(per_block) + 1
             /\ \A i \in 1 .. Len(per_block) : per_block'[i] = per_block[i]
  BY <1>1, <1>5
<1>. QED
  BY <1>2, <1>3, <1>4, <1>5

\* One visit takes the next frame of a list that has one.
LEMMA InterleaveTakes ==
    ASSUME EncIInv, StreamIInv, Interleave, EncIInv'
    PROVE  StreamIInv'
<1>. USE DEF EncIInv, StreamIInv
<1>. DEFINE n == Len(per_block)
<1>1. /\ pc = "interleave" /\ pc' = pc /\ Accepted /\ Accepted' /\ per_block' = per_block
      /\ at \in 1 .. n /\ n \in Nat /\ Len(cursors) = n /\ round \in Nat
      /\ per_block \in Seq(Nat) /\ cursors \in Seq(Nat)
      /\ \A i \in 1 .. n : per_block[i] \in Nat /\ cursors[i] \in Nat
  <2>1. /\ pc = "interleave" /\ pc' = pc /\ per_block' = per_block /\ Accepted /\ Accepted'
    BY DEF Interleave, Accepted
  <2>2. at \in 1 .. n /\ n \in Nat /\ Len(cursors) = n /\ round \in Nat
        /\ per_block \in Seq(Nat) /\ cursors \in Seq(Nat)
    BY <2>1 DEF Encoded, Emitted, EncTypeOK
  <2>. QED
    BY <2>1, <2>2
<1>2. \A i \in 1 .. n : cursors[i] = IF Visits(i) <= per_block[i] THEN Visits(i) ELSE per_block[i]
  BY <1>1 DEF Walked
<1>3. \A i \in 1 .. n : Visits(i)' = IF i = at THEN Visits(i) + 1 ELSE Visits(i)
  <2>1. CASE at < n
    BY <1>1, <2>1 DEF Interleave, Visits
  <2>2. CASE at = n
    BY <1>1, <2>2 DEF Interleave, Visits
  <2>. QED
    BY <1>1, <2>1, <2>2
<1>4. /\ \A i \in 1 .. n : Visits(i) \in Nat
      /\ Visits(at) = round
  BY <1>1 DEF Visits
<1>5. \A i \in 1 .. n : cursors'[i] =
        IF i = at /\ cursors[at] < per_block[at] THEN cursors[i] + 1 ELSE cursors[i]
  <2>1. CASE cursors[at] < per_block[at]
    <3>1. cursors' = [cursors EXCEPT ![at] = cursors[at] + 1]
      BY <2>1 DEF Interleave, TakeFrame
    <3>. QED
      BY <1>1, <2>1, <3>1
  <2>2. CASE ~(cursors[at] < per_block[at])
    BY <2>2 DEF Interleave, TakeFrame
  <2>. QED
    BY <2>1, <2>2
<1>6. Walked'
  <2>1. \A i \in 1 .. n :
          cursors'[i] = IF Visits(i)' <= per_block[i] THEN Visits(i)' ELSE per_block[i]
    <3>. SUFFICES ASSUME NEW i \in 1 .. n
                  PROVE  cursors'[i] = IF Visits(i)' <= per_block[i] THEN Visits(i)' ELSE per_block[i]
      OBVIOUS
    <3>1. /\ per_block[i] \in Nat /\ cursors[i] \in Nat /\ Visits(i) \in Nat
          /\ cursors[i] = IF Visits(i) <= per_block[i] THEN Visits(i) ELSE per_block[i]
          /\ Visits(i)' = IF i = at THEN Visits(i) + 1 ELSE Visits(i)
          /\ cursors'[i] = IF i = at /\ cursors[i] < per_block[i] THEN cursors[i] + 1 ELSE cursors[i]
      BY <1>1, <1>2, <1>3, <1>4, <1>5
    <3>. QED
      BY <3>1
  <2>. QED
    BY <1>1, <2>1 DEF Walked
<1>7. TakenOnce'
  <2>1. CASE ~(cursors[at] < per_block[at])
    BY <1>1, <2>1 DEF Interleave, TakeFrame, TakenOnce
  <2>2. CASE cursors[at] < per_block[at]
    <3>. DEFINE F == [block: Nat, symbol: Nat]
                f == [block |-> at - 1, symbol |-> cursors[at]]
                k == Len(out) + 1
    <3>1. out' = Append(out, f)
      BY <2>2 DEF Interleave, TakeFrame
    <3>2. /\ out \in Seq(F) /\ f \in F /\ f.block = at - 1 /\ f.block + 1 = at
          /\ f.symbol = cursors[at]
      BY <1>1 DEF EncTypeOK
    <3>3. \A p \in 1 .. Len(out) :
            /\ out[p].block + 1 \in 1 .. n /\ out[p].symbol < cursors[out[p].block + 1]
            /\ out[p].symbol \in Nat /\ out[p].block \in Nat
      <4>1. \A p \in 1 .. Len(out) : out[p] \in F
        <5>. HIDE DEF F
        <5>. QED
          BY <3>2
      <4>. QED
        BY <1>1, <4>1 DEF Emitted, TakenOnce
    <3>. HIDE DEF f, F
    <3>4. /\ Len(out) \in Nat /\ k \in Nat /\ Len(out') = k /\ out'[k] = f
          /\ \A p \in 1 .. Len(out) : out'[p] = out[p]
      BY <3>1, <3>2
    <3>5. \A p \in 1 .. Len(out) : out[p] # f
      <4>1. \A x, y : x.block + 1 = at /\ x.symbol < cursors[x.block + 1] /\ x.symbol \in Nat
                        /\ cursors[at] \in Nat /\ y.symbol = cursors[at] => x # y
        OBVIOUS
      <4>2. cursors[at] \in Nat
        BY <1>1
      <4>. QED
        BY ONLY <3>2, <3>3, <4>1, <4>2
    <3>6. \A p, q \in 1 .. Len(out') : out'[p] = out'[q] => p = q
      <4>1. \A p, q \in 1 .. Len(out) : out[p] = out[q] => p = q
        BY <1>1 DEF TakenOnce
      <4>2. \A p \in 1 .. Len(out') : p = k \/ p \in 1 .. Len(out)
        BY <3>4
      <4>. HIDE DEF k
      <4>. QED
        BY <3>4, <3>5, <4>1, <4>2
    <3>7. ASSUME NEW p \in 1 .. Len(out')
          PROVE  out'[p].symbol < cursors'[out'[p].block + 1]
      <4>1. CASE p = k
        <5>1. cursors[at] < cursors'[at]
          BY <1>1, <1>5, <2>2
        <5>2. out'[p] = f
          BY ONLY <3>4, <4>1
        <5>. QED
          BY ONLY <3>2, <5>1, <5>2
      <4>2. CASE p \in 1 .. Len(out)
        <5>1. /\ out'[p] = out[p] /\ out[p].symbol < cursors[out[p].block + 1]
              /\ out[p].block + 1 \in 1 .. n /\ out[p].symbol \in Nat
          BY <3>3, <3>4, <4>2
        <5>2. cursors[out[p].block + 1] <= cursors'[out[p].block + 1]
              /\ cursors[out[p].block + 1] \in Nat /\ cursors'[out[p].block + 1] \in Nat
          <6>. DEFINE j == out[p].block + 1
          <6>1. j \in 1 .. n
            BY <5>1
          <6>. HIDE DEF j
          <6>2. cursors[j] \in Nat /\ cursors'[j] \in {cursors[j], cursors[j] + 1}
            BY <1>1, <1>5, <6>1
          <6>3. cursors[j] <= cursors'[j] /\ cursors[j] \in Nat /\ cursors'[j] \in Nat
            BY <6>2
          <6>. QED
            BY <6>3 DEF j
        <5>. QED
          BY <5>1, <5>2
      <4>. QED
        BY <3>4, <4>1, <4>2
    <3>8. ASSUME NEW i \in 1 .. n, NEW s \in 0 .. cursors'[i] - 1
          PROVE  \E p \in 1 .. Len(out') : out'[p].block = i - 1 /\ out'[p].symbol = s
      <4>1. CASE i = at /\ s = cursors[at]
        <5>1. k \in 1 .. Len(out') /\ out'[k].block = i - 1 /\ out'[k].symbol = s
          BY <3>2, <3>4, <4>1
        <5>. QED
          BY <5>1
      <4>2. CASE ~(i = at /\ s = cursors[at])
        <5>1. s \in 0 .. cursors[i] - 1
          BY <1>1, <1>5, <4>2
        <5>2. PICK p \in 1 .. Len(out) : out[p].block = i - 1 /\ out[p].symbol = s
          BY <1>1, <5>1 DEF TakenOnce
        <5>3. p \in 1 .. Len(out') /\ out'[p] = out[p]
          BY <3>4
        <5>. QED
          BY <5>2, <5>3
      <4>. QED
        BY <4>1, <4>2
    <3>. QED
      BY <1>1, <3>6, <3>7, <3>8 DEF TakenOnce
  <2>. QED
    BY <2>1, <2>2
<1>. QED
  BY <1>6, <1>7

\* The walk ends when no list has a frame left.
LEMMA InterleaveEndsTakes ==
    ASSUME EncIInv, StreamIInv, InterleaveEnds
    PROVE  StreamIInv'
<1>. USE DEF EncIInv, StreamIInv
<1>1. /\ pc = "interleave" /\ pc' = "done" /\ Accepted /\ Accepted'
      /\ UNCHANGED <<per_block, cursors, round, at, out>> /\ round = Max(Range(per_block))
      /\ round \in Nat
  BY DEF InterleaveEnds, Accepted, EncTypeOK
<1>2. \A i \in 1 .. Len(per_block) : Visits(i)' = Visits(i)
  BY <1>1 DEF Visits
<1>3. \A i \in 1 .. Len(per_block) : per_block[i] \in Nat /\ per_block[i] <= round
  BY <1>1, LongestList
<1>4. \A i \in 1 .. Len(per_block) : Visits(i) \in Nat /\ round <= Visits(i)
  BY <1>1 DEF Visits, EncTypeOK
<1>5. \A i \in 1 .. Len(per_block) : cursors[i] = per_block[i]
  BY <1>1, <1>3, <1>4 DEF Walked
<1>6. Walked'
  BY <1>1, <1>2, <1>5 DEF Walked
<1>7. TakenOnce'
  BY <1>1 DEF TakenOnce
<1>. QED
  BY <1>6, <1>7

\* StreamIInv holds in every reachable state.
THEOREM StreamInvariant == EncSpec => []StreamIInv
<1>1. EncInit => StreamIInv
  BY DEF EncInit, StreamIInv, Walked, TakenOnce, Accepted
<1>2. EncIInv /\ EncIInv' /\ StreamIInv /\ [EncNext]_encVars => StreamIInv'
  <2>. SUFFICES ASSUME EncIInv, EncIInv', StreamIInv, [EncNext]_encVars PROVE StreamIInv'
    OBVIOUS
  <2>1. CASE UNCHANGED encVars
    BY <2>1 DEF encVars, StreamIInv, Walked, TakenOnce, Visits, Accepted
  <2>. QED
    BY <2>1, NothingTakenYet, EncodeBlockTakes, InterleaveTakes, InterleaveEndsTakes DEF EncNext
<1>. QED
  BY <1>1, <1>2, EncoderInvariant, PTL DEF EncSpec

\* The stream has every frame of every block, each once, for lists of any lengths
\* (interleave).
THEOREM StreamComplete == EncSpec => []EveryFrameOnce
<1>1. EncIInv /\ StreamIInv => EveryFrameOnce
  <2>. SUFFICES ASSUME EncIInv, StreamIInv, pc = "done"
                PROVE  /\ IsInjective(out)
                       /\ Range(out) =
                            UNION {{[block |-> i - 1, symbol |-> s] : s \in 0 .. per_block[i] - 1} :
                                      i \in DOMAIN per_block}
    BY DEF EveryFrameOnce
  <2>. USE DEF EncIInv, StreamIInv
  <2>. DEFINE F == [block: Nat, symbol: Nat]
  <2>1. /\ Accepted /\ DOMAIN per_block = 1 .. Len(per_block) /\ DOMAIN out = 1 .. Len(out)
        /\ Len(per_block) \in Nat /\ out \in Seq(F)
        /\ \A i \in 1 .. Len(per_block) : per_block[i] \in Nat /\ cursors[i] = per_block[i]
    BY DEF Accepted, EncTypeOK, Walked
  <2>2. \A p \in 1 .. Len(out) : out[p] \in F
    <3>. HIDE DEF F
    <3>. QED
      BY <2>1
  <2>3. IsInjective(out)
    BY <2>1 DEF IsInjective, TakenOnce
  <2>4. ASSUME NEW p \in 1 .. Len(out)
        PROVE  \E i \in DOMAIN per_block : \E s \in 0 .. per_block[i] - 1 :
                  out[p] = [block |-> i - 1, symbol |-> s]
    <3>. DEFINE i == out[p].block + 1  s == out[p].symbol
    <3>1. i \in 1 .. Len(per_block) /\ s < per_block[i] /\ s \in Nat /\ out[p].block = i - 1
      BY <2>1, <2>2 DEF Emitted
    <3>2. s \in 0 .. per_block[i] - 1
      BY <2>1, <3>1
    <3>3. out[p] = [block |-> i - 1, symbol |-> s]
      BY <2>2, <3>1
    <3>. QED
      BY <2>1, <3>1, <3>2, <3>3
  <2>5. ASSUME NEW i \in DOMAIN per_block, NEW s \in 0 .. per_block[i] - 1
        PROVE  \E p \in 1 .. Len(out) : out[p] = [block |-> i - 1, symbol |-> s]
    <3>1. PICK p \in 1 .. Len(out) : out[p].block = i - 1 /\ out[p].symbol = s
      BY <2>1 DEF TakenOnce
    <3>2. out[p] = [block |-> i - 1, symbol |-> s]
      BY <2>2, <3>1
    <3>. QED
      BY <3>2
  <2>6. \A x : x \in Range(out) <=> \E p \in 1 .. Len(out) : x = out[p]
    BY <2>1 DEF Range
  <2>. QED
    <3>. DEFINE Of(i) == {[block |-> i - 1, symbol |-> s] : s \in 0 .. per_block[i] - 1}
    <3>1. \A p \in 1 .. Len(out) : \E i \in DOMAIN per_block : out[p] \in Of(i)
      BY <2>4
    <3>2. \A i \in DOMAIN per_block : \A x \in Of(i) : \E p \in 1 .. Len(out) : x = out[p]
      BY <2>5
    <3>3. Range(out) = UNION {Of(i) : i \in DOMAIN per_block}
      <4>. HIDE DEF Of
      <4>1. ASSUME NEW x \in Range(out) PROVE x \in UNION {Of(i) : i \in DOMAIN per_block}
        <5>1. PICK p \in 1 .. Len(out) : x = out[p]
          BY <2>6
        <5>2. PICK i \in DOMAIN per_block : x \in Of(i)
          BY <3>1, <5>1
        <5>. QED
          BY <5>2
      <4>2. ASSUME NEW x \in UNION {Of(i) : i \in DOMAIN per_block} PROVE x \in Range(out)
        <5>1. PICK i \in DOMAIN per_block : x \in Of(i)
          OBVIOUS
        <5>. QED
          BY <2>6, <3>2, <5>1
      <4>. QED
        BY <4>1, <4>2
    <3>. QED
      BY <2>3, <3>3
<1>. QED
  BY <1>1, EncoderInvariant, StreamInvariant, PTL

-----------------------------------------------------------------------------
(***************************************************************************)
(* Where a frame stands in the stream                                      *)
(***************************************************************************)

\* The blocks with bytes in them come first, and there are this many.
Live == IF small_size = 0 THEN remainder ELSE params.block_count

\* Every round but the last has a frame of every block with bytes, the last one
\* of the first of them, so a frame's position follows from its block and index.
Levelled ==
    /\ pc \in {"interleave", "done"} =>
          \A p \in 1 .. Len(out) :
              out[p].block < Live /\ p = out[p].symbol * Live + out[p].block + 1
    /\ pc = "interleave" =>
          /\ at <= Live /\ round < per_block[at] => Len(out) = round * Live + at - 1
          /\ at > Live /\ round < per_block[Live] => Len(out) = round * Live + Live

\* A number of pieces is at least one piece.
LEMMA TimesAtLeast ==
    ASSUME NEW a \in Nat \ {0}, NEW b \in Nat
    PROVE  b <= a * b
<1>1. a - 1 \in Nat /\ a * b = (a - 1) * b + b
  OBVIOUS
<1>2. \A c \in Nat : c * b \in Nat
  OBVIOUS
<1>. QED
  BY <1>1, <1>2

\* Multiplication keeps the order.
LEMMA TimesMonotone ==
    ASSUME NEW a \in Nat, NEW b \in Nat, NEW c \in Nat, a <= b
    PROVE  a * c <= c * b
<1>1. b - a \in Nat /\ c * b = a * c + (b - a) * c
  OBVIOUS
<1>2. \A x \in Nat : x * c \in Nat
  OBVIOUS
<1>. QED
  BY <1>1, <1>2

\* A ciphertext is never empty, so some block has bytes.
LEMMA SomeLive ==
    ASSUME EncIInv, Accepted
    PROVE  Live \in Nat \ {0} /\ Live <= params.block_count
<1>. DEFINE size == params.payload_size  count == params.block_count
<1>1. size \in Nat \ {0} /\ count \in Nat \ {0}
  <2>1. size = payload + TAG /\ count \in 1 .. MAX_BLOCK_COUNT
    BY DEF EncIInv, Agreed, CiphertextLen
  <2>2. payload \in Nat /\ TAG \in Nat \ {0} /\ MAX_BLOCK_COUNT \in Nat
    BY LimitsAssumption DEF EncIInv, EncTypeOK
  <2>. QED
    BY <2>1, <2>2
<1>2. /\ small_size \in Nat /\ remainder \in 0 .. count - 1
      /\ size = count * small_size + remainder
  BY <1>1, DivMod DEF small_size, remainder
<1>3. small_size = 0 => remainder # 0
  BY <1>1, <1>2
<1>. QED
  BY <1>1, <1>2, <1>3 DEF Live

\* The lengths of the lists: the first blocks may have one frame more, the empty
\* ones, at the end, have none.
LEMMA ListShape ==
    ASSUME EncIInv, pc \in {"interleave", "done"}
    PROVE  /\ Live \in 1 .. Len(per_block)
           /\ LiveBlocks = 1 .. Live
           /\ \A i \in 1 .. Len(per_block) : per_block[i] \in Nat
           /\ \A i \in 1 .. Live : per_block[i] \in {per_block[Live], per_block[Live] + 1}
           /\ \A i, j \in 1 .. Live : i <= j => per_block[j] <= per_block[i]
           /\ \A i \in 1 .. Len(per_block) : i > Live => per_block[i] = 0
<1>. USE DEF EncIInv
<1>. DEFINE size == params.payload_size  count == params.block_count  n == params.symbol_size
            packets(s) == IF s = 0 THEN 0 ELSE SourcePackets(s, n) + repair_count
<1>1. /\ Accepted /\ LaidOut /\ Len(per_block) = count /\ Len(blocks) = count
      /\ per_block \in Seq(Nat) /\ blocks \in Seq(BlockInfo)
      /\ DOMAIN blocks = 1 .. count
      /\ size = payload + TAG /\ size <= MAX_PAYLOAD_SIZE /\ payload \in Nat
      /\ count \in Nat \ {0} /\ n \in MIN_FEC_SYMBOL_SIZE .. MAX_FEC_SYMBOL_SIZE
      /\ MAX_PAYLOAD_SIZE \in Nat /\ TAG \in Nat \ {0} /\ size \in Nat \ {0}
  <2>1. Accepted /\ LaidOut
    BY DEF Accepted, LaidOut
  <2>2. /\ Len(blocks) = count /\ Len(per_block) = count
        /\ per_block \in Seq(Nat) /\ blocks \in Seq(BlockInfo) /\ payload \in Nat
    BY <2>1 DEF Encoded, EncTypeOK
  <2>3. /\ size = payload + TAG /\ size <= MAX_PAYLOAD_SIZE
        /\ count \in 1 .. MAX_BLOCK_COUNT /\ n \in MIN_FEC_SYMBOL_SIZE .. MAX_FEC_SYMBOL_SIZE
    BY <2>1 DEF Agreed, CiphertextLen
  <2>4. MAX_PAYLOAD_SIZE \in Nat /\ TAG \in Nat \ {0} /\ MAX_BLOCK_COUNT \in Nat
    BY LimitsAssumption
  <2>5. DOMAIN blocks = 1 .. count
    BY ONLY <2>2
  <2>. QED
    BY <2>1, <2>2, <2>3, <2>4, <2>5
<1>2. /\ small_size \in Nat /\ remainder \in 0 .. count - 1
      /\ size = count * small_size + remainder
      /\ large_size = IF remainder = 0 THEN small_size ELSE small_size + 1
  BY <1>1, DivMod, LargeIsSmallPlusOne DEF small_size, remainder, large_size
<1>3. small_size <= size
  <2>1. small_size <= count * small_size
    BY <1>1, <1>2, TimesAtLeast
  <2>. QED
    BY <1>1, <1>2, <2>1
<1>4. Live \in 1 .. count
  BY <1>1, SomeLive
<1>5. \A i \in 1 .. count :
        /\ blocks[i].size = IF i <= remainder THEN small_size + 1 ELSE small_size
        /\ per_block[i] = packets(blocks[i].size) /\ per_block[i] \in Nat
  <2>1. \A i \in 1 .. count : blocks[i].size = SizeOf(i - 1) /\ per_block[i] = packets(blocks[i].size)
    BY <1>1 DEF Layout, Encoded
  <2>2. \A i \in 1 .. count : SizeOf(i - 1) = IF i <= remainder THEN small_size + 1 ELSE small_size
    BY <1>1, <1>2 DEF SizeOf
  <2>. QED
    BY <1>1, <2>1, <2>2
<1>6. \A i \in 1 .. count : blocks[i].size > 0 <=> i <= Live
  <2>. SUFFICES ASSUME NEW i \in 1 .. count PROVE blocks[i].size > 0 <=> i <= Live
    OBVIOUS
  <2>1. CASE small_size = 0
    BY <1>1, <1>2, <1>5, <2>1 DEF Live
  <2>2. CASE small_size # 0
    <3>1. Live = count
      BY <2>2 DEF Live
    <3>2. blocks[i].size \in {small_size, small_size + 1}
      BY <1>5
    <3>. HIDE DEF count
    <3>. QED
      BY ONLY <1>1, <1>2, <2>2, <3>1, <3>2, i \in 1 .. count
  <2>. QED
    BY <2>1, <2>2
<1>7. LiveBlocks = 1 .. Live
  BY <1>1, <1>4, <1>6 DEF LiveBlocks
<1>8. \A i \in 1 .. count : i > Live => per_block[i] = 0
  <2>1. \A i \in 1 .. count : blocks[i].size \in Nat
    BY <1>2, <1>5
  <2>. QED
    BY <1>4, <1>5, <1>6, <2>1
<1>9. small_size # 0 /\ remainder # 0 =>
        packets(small_size + 1) \in {packets(small_size), packets(small_size) + 1}
  <2>. SUFFICES ASSUME small_size # 0, remainder # 0
                PROVE  packets(small_size + 1) \in {packets(small_size), packets(small_size) + 1}
    OBVIOUS
  <2>1. small_size + 1 <= size
    <3>1. small_size <= count * small_size
      BY <1>1, <1>2, TimesAtLeast
    <3>. QED
      BY <1>1, <1>2, <3>1
  <2>2. small_size \in 1 .. MAX_PAYLOAD_SIZE - 1 /\ small_size \in 1 .. MAX_PAYLOAD_SIZE
    BY <1>1, <1>2, <2>1
  <2>3. SourcePackets(small_size + 1, n) \in {SourcePackets(small_size, n), SourcePackets(small_size, n) + 1}
    BY <1>1, <2>2, CutsAssumption
  <2>4. SourcePackets(small_size, n) \in Nat
    BY <1>1, <2>2, PacketsAssumption
  <2>5. repair_count \in Nat
    BY <1>1 DEF repair_count, EncTypeOK, SessionParams
  <2>. QED
    BY <1>2, <2>3, <2>4, <2>5
<1>. HIDE DEF packets
<1>10. \A i \in 1 .. Live : per_block[i] =
        IF small_size = 0 \/ i <= remainder THEN packets(small_size + 1) ELSE packets(small_size)
  BY <1>1, <1>2, <1>4, <1>5 DEF Live
<1>11. small_size # 0 /\ remainder # 0 =>
        /\ packets(small_size) \in Nat
        /\ packets(small_size + 1) \in {packets(small_size), packets(small_size) + 1}
  <2>. SUFFICES ASSUME small_size # 0, remainder # 0 PROVE packets(small_size) \in Nat
    BY <1>9
  <2>1. count \in 1 .. count /\ ~(count <= remainder)
    BY <1>1, <1>2
  <2>. QED
    BY <1>5, <2>1
<1>12. \A i, j \in 1 .. Live : i <= j => per_block[i] \in {per_block[j], per_block[j] + 1}
  <2>. SUFFICES ASSUME NEW i \in 1 .. Live, NEW j \in 1 .. Live, i <= j
                PROVE  per_block[i] \in {per_block[j], per_block[j] + 1}
    OBVIOUS
  <2>1. CASE small_size = 0
    BY <1>10, <2>1
  <2>2. CASE small_size # 0 /\ remainder = 0
    <3>1. ~(i <= remainder) /\ ~(j <= remainder)
      BY <1>4, <2>2
    <3>. QED
      BY <1>10, <2>2, <3>1
  <2>3. CASE small_size # 0 /\ remainder # 0
    <3>1. j <= remainder => i <= remainder
      BY <1>2, <1>4
    <3>. QED
      BY <1>10, <1>11, <2>3, <3>1
  <2>. QED
    BY <2>1, <2>2, <2>3
<1>13. \A i \in 1 .. Live : per_block[i] \in Nat
  BY <1>1, <1>4, <1>5
<1>14. \A i, j \in 1 .. Live : i <= j => per_block[j] <= per_block[i]
  BY <1>12, <1>13
<1>15. \A i \in 1 .. Live : per_block[i] \in {per_block[Live], per_block[Live] + 1}
  <2>1. Live \in 1 .. Live /\ \A i \in 1 .. Live : i <= Live
    BY <1>4
  <2>. QED
    BY <1>12, <2>1
<1>. QED
  BY <1>1, <1>4, <1>5, <1>7, <1>8, <1>14, <1>15

\* Until the walk begins there is nothing in the stream, and then it is at the
\* first list.
LEMMA WalkBegins ==
    ASSUME EncIInv, StreamIInv, EncodeEnds, EncIInv'
    PROVE  Levelled'
<1>1. /\ pc = "encode" /\ pc' = "interleave" /\ out' = <<>> /\ at' = 1 /\ round' = 0
  BY DEF EncodeEnds, EncIInv, StreamIInv, Emitted, Walked
<1>2. Live' \in Nat \ {0}
  <2>1. Accepted /\ params' = params
    BY <1>1 DEF Accepted, EncodeEnds
  <2>2. Live' = Live
    BY <2>1 DEF Live, small_size, remainder
  <2>. QED
    BY <2>1, <2>2, SomeLive
<1>3. Len(out') = 0
  BY <1>1
<1>4. at' <= Live' => Len(out') = round' * Live' + at' - 1
  <2>1. \A x \in Nat : 0 = 0 * x + 1 - 1
    OBVIOUS
  <2>. QED
    BY <1>1, <1>2, <1>3, <2>1
<1>5. ~(at' > Live')
  BY <1>1, <1>2
<1>. QED
  BY <1>1, <1>3, <1>4, <1>5 DEF Levelled

\* One visit: the frame goes to its place, and the next list is a place further.
LEMMA VisitLevels ==
    ASSUME EncIInv, StreamIInv, Levelled, Interleave, EncIInv'
    PROVE  Levelled'
<1>. USE DEF EncIInv, StreamIInv
<1>. DEFINE n == Len(per_block)
<1>1. /\ pc = "interleave" /\ pc' = pc /\ Accepted
      /\ per_block' = per_block /\ params' = params /\ at \in 1 .. n /\ n \in Nat
      /\ round \in Nat /\ cursors \in Seq(Nat) /\ Len(cursors) = n
      /\ round' = IF at < n THEN round ELSE round + 1
      /\ at' = IF at < n THEN at + 1 ELSE 1
  <2>1. /\ pc = "interleave" /\ pc' = pc /\ Accepted /\ per_block' = per_block /\ params' = params
    BY DEF Interleave, Accepted
  <2>2. /\ at \in 1 .. n /\ n \in Nat /\ round \in Nat /\ cursors \in Seq(Nat) /\ Len(cursors) = n
    BY <2>1 DEF Encoded, Emitted, EncTypeOK
  <2>3. /\ round' = IF at < n THEN round ELSE round + 1
        /\ at' = IF at < n THEN at + 1 ELSE 1
    BY DEF Interleave
  <2>. QED
    BY <2>1, <2>2, <2>3
<1>2. Live' = Live
  BY <1>1 DEF Live, small_size, remainder
<1>3. /\ Live \in 1 .. n
      /\ \A i \in 1 .. n : per_block[i] \in Nat
      /\ \A i \in 1 .. Live : per_block[i] \in {per_block[Live], per_block[Live] + 1}
      /\ \A i, j \in 1 .. Live : i <= j => per_block[j] <= per_block[i]
      /\ \A i \in 1 .. n : i > Live => per_block[i] = 0
  BY <1>1, ListShape
<1>4. /\ cursors[at] \in Nat /\ per_block[at] \in Nat
      /\ cursors[at] < per_block[at] <=> round < per_block[at]
      /\ round < per_block[at] => cursors[at] = round
  <2>1. cursors[at] = IF Visits(at) <= per_block[at] THEN Visits(at) ELSE per_block[at]
    BY <1>1 DEF Walked
  <2>2. Visits(at) = round
    BY <1>1 DEF Visits
  <2>3. per_block[at] \in Nat /\ cursors[at] \in Nat
    BY <1>1, <1>3
  <2>. QED
    BY <1>1, <2>1, <2>2, <2>3
<1>5. /\ \A p \in 1 .. Len(out) : out[p].block < Live /\ p = out[p].symbol * Live + out[p].block + 1
      /\ at <= Live /\ round < per_block[at] => Len(out) = round * Live + at - 1
      /\ at > Live /\ round < per_block[Live] => Len(out) = round * Live + Live
  BY <1>1 DEF Levelled
<1>6. Len(out) \in Nat /\ round * Live \in Nat /\ (round + 1) * Live = round * Live + Live
  <2>1. Len(out) \in Nat
    BY DEF EncTypeOK
  <2>. QED
    BY <1>1, <1>3, <2>1
<1>7. CASE round < per_block[at]
  <2>. DEFINE F == [block: Nat, symbol: Nat]
              f == [block |-> at - 1, symbol |-> round]
  <2>1. at <= Live /\ Len(out) = round * Live + at - 1
    BY <1>1, <1>3, <1>5, <1>7
  <2>2. out' = Append(out, f)
    BY <1>4, <1>7 DEF Interleave, TakeFrame
  <2>3. out \in Seq(F) /\ f \in F /\ f.block = at - 1 /\ f.symbol = round
    BY <1>1 DEF EncTypeOK
  <2>. HIDE DEF f, F
  <2>4. /\ Len(out') = Len(out) + 1 /\ out'[Len(out) + 1] = f
        /\ \A p \in 1 .. Len(out) : out'[p] = out[p]
    BY <2>2, <2>3
  <2>5. ASSUME NEW p \in 1 .. Len(out')
        PROVE  out'[p].block < Live /\ p = out'[p].symbol * Live + out'[p].block + 1
    <3>1. CASE p \in 1 .. Len(out)
      BY <1>5, <2>4, <3>1
    <3>2. CASE p = Len(out) + 1
      <4>1. out'[p].block = at - 1 /\ out'[p].symbol = round
        BY <2>3, <2>4, <3>2
      <4>2. at - 1 < Live /\ Len(out) + 1 = round * Live + (at - 1) + 1
        BY <1>1, <1>3, <1>6, <2>1
      <4>. QED
        BY <3>2, <4>1, <4>2
    <3>. QED
      BY <1>6, <2>4, <3>1, <3>2
  <2>6. at' <= Live /\ round' < per_block[at'] => Len(out') = round' * Live + at' - 1
    <3>. SUFFICES ASSUME at' <= Live, round' < per_block[at']
                  PROVE  Len(out') = round' * Live + at' - 1
      OBVIOUS
    <3>1. CASE at < n
      <4>1. at' = at + 1 /\ round' = round
        BY <1>1, <3>1
      <4>. QED
        BY <1>1, <1>6, <2>1, <2>4, <4>1
    <3>2. CASE at = n
      <4>1. at' = 1 /\ round' = round + 1 /\ at = Live
        BY <1>1, <1>3, <2>1, <3>2
      <4>2. Len(out') = (round + 1) * Live
        BY <1>1, <1>3, <1>6, <2>1, <2>4, <4>1
      <4>. QED
        BY <1>3, <1>6, <4>1, <4>2
    <3>. QED
      BY <1>1, <3>1, <3>2
  <2>7. at' > Live => Len(out') = round' * Live + Live
    <3>. SUFFICES ASSUME at' > Live PROVE Len(out') = round' * Live + Live
      OBVIOUS
    <3>1. at < n /\ at' = at + 1 /\ round' = round /\ at = Live
      BY <1>1, <1>3, <2>1
    <3>. QED
      BY <1>1, <1>3, <1>6, <2>1, <2>4, <3>1
  <2>. QED
    BY <1>1, <1>2, <2>5, <2>6, <2>7 DEF Levelled
<1>8. CASE ~(round < per_block[at])
  <2>1. out' = out
    BY <1>4, <1>8 DEF Interleave, TakeFrame
  <2>2. at' <= Live /\ round' < per_block[at'] => Len(out) = round' * Live + at' - 1
    <3>. SUFFICES ASSUME at' <= Live, round' < per_block[at']
                  PROVE  Len(out) = round' * Live + at' - 1
      OBVIOUS
    <3>1. CASE at < n
      <4>1. at' = at + 1 /\ round' = round /\ at \in 1 .. Live /\ at' \in 1 .. Live
        BY <1>1, <1>3, <3>1
      <4>2. per_block[at'] <= per_block[at] /\ per_block[at'] \in Nat
        BY <1>1, <1>3, <4>1
      <4>. QED
        BY <1>1, <1>4, <1>8, <4>1, <4>2
    <3>2. CASE at = n
      <4>1. at' = 1 /\ round' = round + 1
        BY <1>1, <3>2
      <4>2. /\ per_block[1] \in {per_block[Live], per_block[Live] + 1}
            /\ per_block[Live] \in Nat
        BY <1>1, <1>3
      <4>3. round < per_block[Live]
        BY <1>1, <4>1, <4>2
      <4>4. at # Live
        BY <1>1, <1>8, <4>2, <4>3
      <4>5. Len(out) = round * Live + Live
        BY <1>1, <1>3, <1>5, <3>2, <4>3, <4>4
      <4>. QED
        BY <1>3, <1>6, <4>1, <4>5
    <3>. QED
      BY <1>1, <3>1, <3>2
  <2>3. at' > Live /\ round' < per_block[Live] => Len(out) = round' * Live + Live
    <3>. SUFFICES ASSUME at' > Live, round' < per_block[Live]
                  PROVE  Len(out) = round' * Live + Live
      OBVIOUS
    <3>1. at < n /\ at' = at + 1 /\ round' = round
      BY <1>1, <1>3
    <3>2. at # Live
      BY <1>1, <1>3, <1>8, <3>1
    <3>. QED
      BY <1>1, <1>3, <1>5, <3>1, <3>2
  <2>. QED
    BY <1>1, <1>2, <1>5, <2>1, <2>2, <2>3 DEF Levelled
<1>. QED
  BY <1>1, <1>4, <1>7, <1>8

\* Levelled holds in every reachable state.
THEOREM StreamLevelled == EncSpec => []Levelled
<1>1. EncInit => Levelled
  BY DEF EncInit, Levelled
<1>2. EncIInv /\ EncIInv' /\ StreamIInv /\ Levelled /\ [EncNext]_encVars => Levelled'
  <2>. SUFFICES ASSUME EncIInv, EncIInv', StreamIInv, Levelled, [EncNext]_encVars PROVE Levelled'
    OBVIOUS
  <2>1. CASE \/ \E len \in PayloadLens, n \in SymbolSizes, count \in BlockCounts, pct \in Overheads :
                   Plan(len, n, count, pct)
             \/ New \/ LayoutBlock \/ LayoutEnds \/ EncodeBlock
    <3>1. pc' \notin {"interleave", "done"}
      BY <2>1 DEF Plan, New, LayoutBlock, PushBlock, LayoutEnds, EncodeBlock, SendRefused
    <3>. QED
      BY <3>1 DEF Levelled
  <2>2. CASE InterleaveEnds
    <3>1. /\ pc = "interleave" /\ pc' = "done" /\ out' = out /\ params' = params
      BY <2>2 DEF InterleaveEnds
    <3>. QED
      BY <3>1 DEF Levelled, Live, small_size, remainder
  <2>3. CASE UNCHANGED encVars
    BY <2>3 DEF encVars, Levelled, Live, small_size, remainder
  <2>. QED
    BY <2>1, <2>2, <2>3, WalkBegins, VisitLevels DEF EncNext
<1>. QED
  BY <1>1, <1>2, EncoderInvariant, StreamInvariant, PTL DEF EncSpec

\* Of the positions that are a multiple of the number of blocks from each other,
\* a run of r rounds has at most r.
LEMMA WindowBounded ==
    ASSUME NEW L \in Nat \ {0}, NEW r \in Nat, NEW i \in 1 .. L, NEW p \in Nat \ {0},
           NEW f, NEW S, \A q \in S : /\ f[q] \in Nat /\ q = f[q] * L + i
                                      /\ p <= q /\ q <= p + r * L - 1
    PROVE  Cardinality(S) <= r
<1>. DEFINE a == (p + L - i - 1) \div L
<1>1. p + L - i - 1 \in Nat
  OBVIOUS
<1>2. a \in Nat /\ L * a <= p + L - i - 1 /\ p + L - i - 1 < L * a + L
  <2>. DEFINE x == p + L - i - 1
  <2>1. x \in Nat
    BY <1>1
  <2>. HIDE DEF x
  <2>2. x \div L \in Nat /\ x % L \in 0 .. L - 1 /\ x = L * (x \div L) + (x % L)
    BY ONLY <2>1, L \in Nat \ {0}, DivMod
  <2>3. x \div L \in Nat /\ L * (x \div L) <= x /\ x < L * (x \div L) + L
    BY ONLY <2>1, <2>2, L \in Nat \ {0}
  <2>. QED
    BY <2>3 DEF x
<1>. HIDE DEF a
<1>3. ASSUME NEW q \in S PROVE f[q] \in a .. a + r - 1
  <2>1. f[q] \in Nat /\ q = f[q] * L + i /\ p <= q /\ q <= p + r * L - 1
    OBVIOUS
  <2>2. ASSUME f[q] + 1 <= a PROVE FALSE
    <3>1. (f[q] + 1) * L <= L * a
      BY <1>2, <2>1, <2>2, TimesMonotone
    <3>2. (f[q] + 1) * L = f[q] * L + L
      BY <2>1
    <3>. QED
      BY <1>2, <2>1, <3>1, <3>2
  <2>3. ASSUME a + r <= f[q] PROVE FALSE
    <3>1. (a + r) * L <= L * f[q]
      BY <1>2, <2>1, <2>3, TimesMonotone
    <3>2. (a + r) * L = L * a + r * L /\ L * f[q] = f[q] * L
      BY <1>2, <2>1
    <3>. QED
      BY <1>2, <2>1, <3>1, <3>2
  <2>. QED
    BY <1>2, <2>1, <2>2, <2>3
<1>. DEFINE T == a .. a + r - 1
            g == [q \in S |-> f[q]]
<1>4. g \in Injection(S, T)
  <2>1. g \in [S -> T]
    BY <1>3
  <2>2. ASSUME NEW x \in S, NEW y \in S, g[x] = g[y] PROVE x = y
    <3>1. f[x] = f[y]
      BY <2>2
    <3>. QED
      BY <3>1
  <2>. QED
    BY <2>1, <2>2 DEF Injection, IsInjective
<1>5. IsFiniteSet(T) /\ Cardinality(T) = r
  <2>1. a \in Int /\ a + r - 1 \in Int
    BY <1>2
  <2>2. IsFiniteSet(T) /\ Cardinality(T) = IF a > a + r - 1 THEN 0 ELSE (a + r - 1) - a + 1
    BY <2>1, FS_Interval
  <2>. QED
    BY <1>2, <2>2
<1>. HIDE DEF T, g
<1>6. Cardinality(S) <= Cardinality(T)
  BY <1>4, <1>5, FS_Injection
<1>. QED
  BY <1>5, <1>6

\* A run of as many missed frames as the blocks have repair symbols between them,
\* wherever it falls, costs no block more than it has: for every layout, overhead
\* and library that cuts evenly (encode, interleave).
THEOREM OutageSpread == EncSpec => []OutageAbsorbed
<1>1. EncIInv /\ Levelled => OutageAbsorbed
  <2>. SUFFICES ASSUME EncIInv, Levelled, pc = "done", NEW p \in DOMAIN out, NEW i \in LiveBlocks
                PROVE  LostIn(i, p, repair_count * Cardinality(LiveBlocks)) <= repair_count
    BY DEF OutageAbsorbed
  <2>1. Live \in Nat \ {0} /\ i \in 1 .. Live /\ LiveBlocks = 1 .. Live
    <3>1. Accepted
      BY DEF Accepted
    <3>. QED
      BY <3>1, SomeLive, ListShape
  <2>2. Cardinality(LiveBlocks) = Live
    <3>1. Cardinality(1 .. Live) = IF 1 > Live THEN 0 ELSE Live - 1 + 1
      BY <2>1, FS_Interval
    <3>. QED
      BY <2>1, <3>1
  <2>3. repair_count \in Nat
    BY DEF EncIInv, EncTypeOK, SessionParams, repair_count
  <2>. DEFINE F == [block: Nat, symbol: Nat]
              r == repair_count
              S == {q \in p .. p + r * Live - 1 : q \in DOMAIN out /\ out[q].block = i - 1}
              f == [q \in S |-> out[q].symbol]
  <2>4. out \in Seq(F) /\ DOMAIN out = 1 .. Len(out) /\ Len(out) \in Nat /\ p \in Nat \ {0}
    BY DEF EncIInv, EncTypeOK
  <2>5. \A q \in 1 .. Len(out) : out[q] \in F
    <3>. HIDE DEF F
    <3>. QED
      BY <2>4
  <2>6. ASSUME NEW q \in S
        PROVE  f[q] \in Nat /\ q = f[q] * Live + i /\ p <= q /\ q <= p + r * Live - 1
    <3>1. q \in 1 .. Len(out) /\ out[q].block = i - 1 /\ f[q] = out[q].symbol
          /\ p <= q /\ q <= p + r * Live - 1
      BY <2>1, <2>3, <2>4
    <3>2. q = out[q].symbol * Live + out[q].block + 1 /\ out[q].symbol \in Nat
      BY <2>5, <3>1 DEF Levelled
    <3>3. out[q].symbol * Live \in Nat
      BY <2>1, <3>2
    <3>. QED
      BY <2>1, <3>1, <3>2, <3>3
  <2>. HIDE DEF f, S, r
  <2>7. r \in Nat
    BY <2>3 DEF r
  <2>8. Cardinality(S) <= r
    BY <2>1, <2>4, <2>6, <2>7, WindowBounded
  <2>. QED
    BY <2>2, <2>8 DEF LostIn, S, r
<1>. QED
  BY <1>1, EncoderInvariant, StreamLevelled, PTL

-----------------------------------------------------------------------------
(***************************************************************************)
(* From a payload to its symbols and back (Chunks)                         *)
(***************************************************************************)

\* The payload is some number of bytes, each its position.
PayloadBytes ==
    /\ input \in Seq(Nat) /\ block_count \in Nat \ {0} /\ symbol_size \in Nat \ {0}
    /\ \A k \in 1 .. Len(input) : input[k] = k

SymbolCount(i) == ceil_div(BlockSize(i), symbol_size)

\* How many symbols of block i went across.
Taken(i) ==
    IF i < cursor.block THEN SymbolCount(i) ELSE IF i = cursor.block THEN cursor.symbol ELSE 0

\* The cursor is within the layout.
CursorPlaced ==
    /\ cursor \in [block: Nat, symbol: Nat]
    /\ cursor.block <= block_count
    /\ cursor.block < block_count => cursor.symbol <= SymbolCount(cursor.block)

\* What was collected of a block is the block as far as it goes, and padding only
\* behind its end.
Gathered ==
    /\ collected \in Seq(Seq(Nat)) /\ Len(collected) = block_count
    /\ \A i \in 0 .. block_count - 1 :
          /\ Len(collected[i + 1]) = Taken(i) * symbol_size
          /\ \A k \in 1 .. Len(collected[i + 1]) :
                k <= BlockSize(i) => collected[i + 1][k] = BlockStart(i) + k

\* What is put together is the payload up to the next block.
JoinedSoFar ==
    /\ joined \in 0 .. block_count /\ rebuilt \in Seq(Nat)
    /\ joined > 0 => cursor.block = block_count
    /\ Len(rebuilt) = BlockStart(joined)
    /\ \A k \in 1 .. Len(rebuilt) : rebuilt[k] = k

ChunksIInv == PayloadBytes /\ CursorPlaced /\ Gathered /\ JoinedSoFar /\ refused = FALSE

\* A block starts after i small ones and a byte for each large one.
LEMMA StartClosed ==
    ASSUME PayloadBytes, NEW i \in 0 .. block_count
    PROVE  /\ SmallSize \in Nat /\ Remainder \in 0 .. block_count - 1
           /\ Len(input) = block_count * SmallSize + Remainder
           /\ BlockStart(i) = i * SmallSize + (IF i < Remainder THEN i ELSE Remainder)
           /\ BlockSize(i) = IF i < Remainder THEN SmallSize + 1 ELSE SmallSize
<1>1. Len(input) \in Nat /\ block_count \in Nat \ {0}
  BY DEF PayloadBytes
<1>2. /\ SmallSize \in Nat /\ Remainder \in 0 .. block_count - 1
      /\ Len(input) = block_count * SmallSize + Remainder
  BY <1>1, DivMod DEF SmallSize, Remainder
<1>3. LargeSize = IF Remainder = 0 THEN SmallSize ELSE SmallSize + 1
  <2>1. LargeSize = div_ceil(Len(input), block_count)
    BY DEF LargeSize, ceil_div, div_ceil
  <2>. QED
    BY <1>1, <2>1, LargeIsSmallPlusOne DEF Remainder, SmallSize
<1>4. BlockSize(i) = IF i < Remainder THEN SmallSize + 1 ELSE SmallSize
  BY <1>2, <1>3 DEF BlockSize
<1>5. BlockStart(i) = i * SmallSize + (IF i < Remainder THEN i ELSE Remainder)
  <2>. DEFINE s == SmallSize  r == Remainder
  <2>0. s \in Nat /\ r \in Nat /\ i \in Nat
    BY <1>1, <1>2
  <2>1. CASE i < r
    <3>1. BlockStart(i) = i * (s + 1)
      BY <1>2, <1>3, <2>1 DEF BlockStart
    <3>. HIDE DEF s, r
    <3>2. i * (s + 1) = i * s + i
      BY <2>0
    <3>. QED
      BY <2>1, <3>1, <3>2 DEF s, r
  <2>2. CASE ~(i < r) /\ r = 0
    <3>1. BlockStart(i) = 0 * LargeSize + (i - 0) * s
      BY <2>2 DEF BlockStart
    <3>2. LargeSize \in Nat
      BY <1>2, <1>3
    <3>. HIDE DEF s, r
    <3>. QED
      BY <2>0, <2>2, <3>1, <3>2 DEF r, s
  <2>3. CASE ~(i < r) /\ r # 0
    <3>1. BlockStart(i) = r * (s + 1) + (i - r) * s
      BY <1>3, <2>3 DEF BlockStart
    <3>. HIDE DEF s, r
    <3>2. r * (s + 1) + (i - r) * s = i * s + r
      BY <2>0, <2>3
    <3>. QED
      BY <2>3, <3>1, <3>2 DEF s, r
  <2>. QED
    BY <2>1, <2>2, <2>3
<1>. QED
  BY <1>2, <1>4, <1>5

\* The blocks tile the payload.
LEMMA BlocksAdjoin ==
    ASSUME PayloadBytes, NEW i \in 0 .. block_count - 1
    PROVE  /\ BlockStart(i) \in Nat /\ BlockSize(i) \in Nat
           /\ BlockStart(i + 1) = BlockStart(i) + BlockSize(i)
           /\ BlockStart(i + 1) <= Len(input)
           /\ BlockStart(0) = 0 /\ BlockStart(block_count) = Len(input)
<1>. DEFINE s == SmallSize  r == Remainder
<1>1. block_count \in Nat \ {0} /\ i \in 0 .. block_count /\ i + 1 \in 0 .. block_count
      /\ block_count \in 0 .. block_count /\ 0 \in 0 .. block_count
  BY DEF PayloadBytes
<1>2. s \in Nat /\ r \in 0 .. block_count - 1 /\ Len(input) = block_count * s + r
  BY <1>1, StartClosed
<1>3. /\ BlockStart(i) = i * s + (IF i < r THEN i ELSE r)
      /\ BlockSize(i) = IF i < r THEN s + 1 ELSE s
      /\ BlockStart(i + 1) = (i + 1) * s + (IF i + 1 < r THEN i + 1 ELSE r)
      /\ BlockStart(0) = 0 * s + (IF 0 < r THEN 0 ELSE r)
      /\ BlockStart(block_count) = block_count * s + (IF block_count < r THEN block_count ELSE r)
  BY <1>1, StartClosed
<1>. HIDE DEF s, r
<1>4. (i + 1) * s = i * s + s /\ i * s \in Nat /\ 0 * s = 0
  BY <1>1, <1>2
<1>5. (i + 1) * s <= s * block_count /\ s * block_count = block_count * s
  BY <1>1, <1>2, TimesMonotone
<1>. QED
  BY <1>1, <1>2, <1>3, <1>4, <1>5

\* A symbol lies within its block, and one that is not full ends it.
LEMMA SymbolWithin ==
    ASSUME NEW size \in Nat, NEW n \in Nat \ {0}, NEW j \in Nat, j < ceil_div(size, n),
           NEW m, m = IF size % n # 0 /\ j = ceil_div(size, n) - 1 THEN size % n ELSE n
    PROVE  /\ m \in 1 .. n /\ j * n \in Nat /\ j * n + m <= size
           /\ m < n => j * n + m = size
<1>. DEFINE q == size \div n  r == size % n
<1>1. q \in Nat /\ r \in 0 .. n - 1 /\ size = n * q + r
  BY DivMod
<1>2. ceil_div(size, n) = IF r = 0 THEN q ELSE q + 1
  BY LargeIsSmallPlusOne DEF ceil_div, div_ceil
<1>3. j * n \in Nat /\ (j + 1) * n = j * n + n
  OBVIOUS
<1>. HIDE DEF q, r
<1>4. CASE j = q
  <2>1. r # 0 /\ m = r
    BY <1>1, <1>2, <1>4 DEF r
  <2>2. j * n = n * q
    BY <1>1, <1>4
  <2>. QED
    BY <1>1, <1>3, <2>1, <2>2
<1>5. CASE j # q
  <2>1. j + 1 <= q
    BY <1>1, <1>2, <1>5
  <2>2. m = n
    BY <1>1, <1>2, <1>5 DEF r
  <2>3. (j + 1) * n <= n * q
    BY <1>1, <2>1, TimesMonotone
  <2>. QED
    BY <1>1, <1>3, <2>2, <2>3
<1>. QED
  BY <1>4, <1>5

\* A part of a sequence.
LEMMA PartOf ==
    ASSUME NEW s \in Seq(Nat), NEW a \in Nat, NEW m \in Nat, a + m <= Len(s)
    PROVE  /\ SubSeq(s, a + 1, a + m) \in Seq(Nat)
           /\ Len(SubSeq(s, a + 1, a + m)) = m
           /\ \A k \in 1 .. m : SubSeq(s, a + 1, a + m)[k] = s[a + k]
<1>1. a + 1 \in Int /\ a + m \in Int /\ \A k \in a + 1 .. a + m : s[k] \in Nat
  OBVIOUS
<1>2. /\ SubSeq(s, a + 1, a + m) \in Seq(Nat)
      /\ Len(SubSeq(s, a + 1, a + m)) = IF a + 1 <= a + m THEN (a + m) - (a + 1) + 1 ELSE 0
      /\ \A k \in 1 .. (a + m) - (a + 1) + 1 : SubSeq(s, a + 1, a + m)[k] = s[(a + 1) + k - 1]
  BY <1>1, SubSeqProperties
<1>3. (a + m) - (a + 1) + 1 = m
  OBVIOUS
<1>4. \A k \in 1 .. m : (a + 1) + k - 1 = a + k
  OBVIOUS
<1>. QED
  BY <1>2, <1>3, <1>4

\* The layout, and how many symbols went across, as far as a step leaves them.
LEMMA LayoutStays ==
    ASSUME UNCHANGED <<input, block_count, symbol_size>>
    PROVE  /\ PayloadBytes' <=> PayloadBytes
           /\ \A i : BlockSize(i)' = BlockSize(i) /\ BlockStart(i)' = BlockStart(i)
                     /\ SymbolCount(i)' = SymbolCount(i)
BY DEF PayloadBytes, BlockSize, BlockStart, SymbolCount, Remainder, LargeSize, SmallSize

\* The symbol that goes across: its bytes, and padding up to the symbol size.
LEMMA SymbolBytes ==
    ASSUME ChunksIInv, cursor.block < block_count, cursor.symbol < SymbolCount(cursor.block)
    PROVE  \E symbol \in Seq(Nat) :
              /\ UNION {extract_symbol(block, cursor.block, cursor.symbol) :
                           block \in extract_block(input, cursor.block)} = {symbol}
              /\ Len(symbol) = symbol_size
              /\ \A k \in 1 .. symbol_size :
                    cursor.symbol * symbol_size + k <= BlockSize(cursor.block) =>
                        symbol[k] = BlockStart(cursor.block) + (cursor.symbol * symbol_size + k)
<1>. DEFINE i == cursor.block  j == cursor.symbol  n == symbol_size
            st == BlockStart(i)  sz == BlockSize(i)  inf == symbol_info(i, j)  m == inf.size
            block == SubSeq(input, st + 1, st + sz)
            part == SubSeq(block, j * n + 1, j * n + m)
            pad == [k \in 1 .. n - m |-> Pad]
<1>1. /\ i \in 0 .. block_count - 1 /\ j \in Nat /\ n \in Nat \ {0} /\ input \in Seq(Nat)
      /\ PayloadBytes /\ \A k \in 1 .. Len(input) : input[k] = k
  BY DEF ChunksIInv, PayloadBytes, CursorPlaced
<1>2. st \in Nat /\ sz \in Nat /\ st + sz <= Len(input)
  BY <1>1, BlocksAdjoin
<1>3. /\ inf.start = j * n
      /\ m = IF sz % n # 0 /\ j = ceil_div(sz, n) - 1 THEN sz % n ELSE n
  BY DEF symbol_info, block_info
<1>4. j < ceil_div(sz, n)
  BY DEF SymbolCount
<1>. HIDE DEF i, j, n, st, sz, inf, m
<1>5. m \in 1 .. n /\ j * n \in Nat /\ j * n + m <= sz /\ (m < n => j * n + m = sz)
  BY <1>1, <1>2, <1>3, <1>4, SymbolWithin
<1>6. /\ block \in Seq(Nat) /\ Len(block) = sz
      /\ \A k \in 1 .. sz : block[k] = st + k
  <2>1. /\ block \in Seq(Nat) /\ Len(block) = sz
        /\ \A k \in 1 .. sz : block[k] = input[st + k]
    BY <1>1, <1>2, PartOf
  <2>2. \A k \in 1 .. sz : st + k \in 1 .. Len(input)
    BY <1>1, <1>2
  <2>. QED
    BY <1>1, <2>1, <2>2
<1>7. extract_block(input, i) = {block}
  BY <1>1, <1>2 DEF extract_block, st, sz
<1>. HIDE DEF block
<1>8. /\ part \in Seq(Nat) /\ Len(part) = m
      /\ \A k \in 1 .. m : part[k] = st + (j * n + k)
  <2>1. /\ part \in Seq(Nat) /\ Len(part) = m
        /\ \A k \in 1 .. m : part[k] = block[j * n + k]
    <3>. DEFINE a == j * n
    <3>1. a \in Nat /\ m \in Nat /\ a + m <= Len(block) /\ block \in Seq(Nat)
      BY <1>1, <1>5, <1>6
    <3>. HIDE DEF a
    <3>2. /\ SubSeq(block, a + 1, a + m) \in Seq(Nat)
          /\ Len(SubSeq(block, a + 1, a + m)) = m
          /\ \A k \in 1 .. m : SubSeq(block, a + 1, a + m)[k] = block[a + k]
      BY ONLY <3>1, PartOf
    <3>. QED
      BY <3>2 DEF a
  <2>2. \A k \in 1 .. m : j * n + k \in 1 .. sz
    BY <1>1, <1>2, <1>5
  <2>. QED
    BY <1>6, <2>1, <2>2
<1>9. extract_symbol(block, i, j) = {part \o pad}
  <2>1. ~(inf.start + inf.size > Len(block))
    BY <1>1, <1>2, <1>3, <1>5, <1>6 DEF m
  <2>2. extract_symbol(block, i, j) =
          {SubSeq(block, inf.start + 1, inf.start + inf.size) \o [k \in 1 .. symbol_size - inf.size |-> Pad]}
    BY <2>1 DEF extract_symbol, inf
  <2>. QED
    BY <1>3, <2>2 DEF m, n
<1>10. pad \in Seq(Nat) /\ Len(pad) = n - m
  <2>1. n - m \in Nat
    BY <1>1, <1>5
  <2>. QED
    BY <2>1 DEF Pad
<1>. HIDE DEF part, pad
<1>11. /\ part \o pad \in Seq(Nat) /\ Len(part \o pad) = Len(part) + Len(pad)
       /\ \A k \in 1 .. Len(part) + Len(pad) :
            (part \o pad)[k] = IF k <= Len(part) THEN part[k] ELSE pad[k - Len(part)]
  BY <1>8, <1>10, ConcatProperties
<1>12. Len(part \o pad) = n
  BY <1>1, <1>5, <1>8, <1>10, <1>11
<1>13. ASSUME NEW k \in 1 .. n, j * n + k <= sz PROVE (part \o pad)[k] = st + (j * n + k)
  <2>1. k <= m
    BY <1>1, <1>2, <1>5, <1>13
  <2>2. k \in 1 .. m /\ k \in 1 .. Len(part) + Len(pad) /\ k <= Len(part)
    BY <1>1, <1>5, <1>8, <1>10, <2>1
  <2>. QED
    BY <1>8, <1>11, <2>2
<1>14. UNION {extract_symbol(x, i, j) : x \in extract_block(input, i)} = {part \o pad}
  BY <1>7, <1>9
<1>. QED
  <2>. DEFINE symbol == part \o pad
  <2>1. symbol \in Seq(Nat) /\ Len(symbol) = n
    BY <1>11, <1>12
  <2>2. \A k \in 1 .. n : j * n + k <= sz => symbol[k] = st + (j * n + k)
    BY <1>13
  <2>3. UNION {extract_symbol(x, i, j) : x \in extract_block(input, i)} = {symbol}
    BY <1>14
  <2>. HIDE DEF symbol
  <2>. QED
    BY <2>1, <2>2, <2>3 DEF i, j, n, st, sz

\* A symbol is appended to what was collected of its block.
LEMMA ExtractSymbolKeeps ==
    ASSUME ChunksIInv, ExtractSymbol
    PROVE  ChunksIInv'
<1>. DEFINE i == cursor.block  j == cursor.symbol  n == symbol_size
<1>1. /\ i \in 0 .. block_count - 1 /\ j \in Nat /\ n \in Nat \ {0} /\ j < SymbolCount(i)
      /\ block_count \in Nat \ {0}
      /\ PayloadBytes /\ refused = FALSE
      /\ UNCHANGED <<input, block_count, symbol_size, joined, rebuilt>>
  BY DEF ChunksIInv, PayloadBytes, CursorPlaced, ExtractSymbol, block_info, SymbolCount
<1>2. /\ PayloadBytes'
      /\ \A x : BlockSize(x)' = BlockSize(x) /\ BlockStart(x)' = BlockStart(x)
                /\ SymbolCount(x)' = SymbolCount(x)
  BY <1>1, LayoutStays
<1>3. PICK symbol \in Seq(Nat) :
        /\ UNION {extract_symbol(block, i, j) : block \in extract_block(input, i)} = {symbol}
        /\ Len(symbol) = n
        /\ \A k \in 1 .. n : j * n + k <= BlockSize(i) => symbol[k] = BlockStart(i) + (j * n + k)
  <2>1. cursor.block < block_count /\ cursor.symbol < SymbolCount(cursor.block)
    BY <1>1
  <2>. QED
    BY <2>1, SymbolBytes
<1>4. /\ collected' = [collected EXCEPT ![i + 1] = collected[i + 1] \o symbol]
      /\ cursor' = [cursor EXCEPT !.symbol = j + 1]
      /\ refused' = refused
  BY <1>3 DEF ExtractSymbol
<1>5. /\ collected \in Seq(Seq(Nat)) /\ Len(collected) = block_count
      /\ Len(collected[i + 1]) = j * n
      /\ \A k \in 1 .. Len(collected[i + 1]) :
            k <= BlockSize(i) => collected[i + 1][k] = BlockStart(i) + k
  <2>1. Taken(i) = j
    BY <1>1 DEF Taken
  <2>. QED
    BY <1>1, <2>1 DEF ChunksIInv, Gathered
<1>6. i + 1 \in 1 .. block_count /\ collected[i + 1] \in Seq(Nat)
  BY <1>1, <1>5
<1>7. /\ cursor' \in [block: Nat, symbol: Nat] /\ cursor'.block = i /\ cursor'.symbol = j + 1
  <2>1. cursor \in [block: Nat, symbol: Nat]
    BY DEF ChunksIInv, CursorPlaced
  <2>. QED
    BY <1>4, <2>1
<1>8. \A x \in 0 .. block_count - 1 : Taken(x)' = IF x = i THEN j + 1 ELSE Taken(x)
  BY <1>1, <1>2, <1>7 DEF Taken
<1>9. CursorPlaced'
  <2>1. SymbolCount(i) \in Nat
    <3>1. BlockSize(i) \in Nat
      BY <1>1, BlocksAdjoin
    <3>2. SymbolCount(i) = div_ceil(BlockSize(i), n)
      BY DEF SymbolCount, ceil_div, div_ceil
    <3>. QED
      BY <1>1, <3>1, <3>2, DivCeil
  <2>2. j + 1 <= SymbolCount(i)
    BY <1>1, <2>1
  <2>3. SymbolCount(cursor.block)' = SymbolCount(i)
    BY <1>1, <1>7 DEF SymbolCount, BlockSize, Remainder, LargeSize, SmallSize
  <2>. QED
    BY <1>1, <1>7, <2>2, <2>3 DEF CursorPlaced
<1>. DEFINE c == collected[i + 1] \o symbol
<1>. HIDE DEF c
<1>10. /\ c \in Seq(Nat) /\ Len(c) = (j + 1) * n
       /\ \A k \in 1 .. Len(c) : c[k] = IF k <= j * n THEN collected[i + 1][k] ELSE symbol[k - j * n]
  <2>1. /\ c \in Seq(Nat) /\ Len(c) = Len(collected[i + 1]) + Len(symbol)
        /\ \A k \in 1 .. Len(collected[i + 1]) + Len(symbol) :
              c[k] = IF k <= Len(collected[i + 1]) THEN collected[i + 1][k]
                     ELSE symbol[k - Len(collected[i + 1])]
    <3>. DEFINE d == collected[i + 1]
    <3>1. d \in Seq(Nat)
      BY <1>6
    <3>. HIDE DEF d
    <3>2. /\ d \o symbol \in Seq(Nat) /\ Len(d \o symbol) = Len(d) + Len(symbol)
          /\ \A k \in 1 .. Len(d) + Len(symbol) :
                (d \o symbol)[k] = IF k <= Len(d) THEN d[k] ELSE symbol[k - Len(d)]
      BY ONLY symbol \in Seq(Nat), <3>1, ConcatProperties
    <3>. QED
      BY <3>2 DEF d, c
  <2>2. j * n + n = (j + 1) * n
    BY <1>1
  <2>. QED
    BY <1>3, <1>5, <2>1, <2>2
<1>11. \A k \in 1 .. Len(c) : k <= BlockSize(i) => c[k] = BlockStart(i) + k
  <2>. SUFFICES ASSUME NEW k \in 1 .. Len(c), k <= BlockSize(i) PROVE c[k] = BlockStart(i) + k
    OBVIOUS
  <2>1. j * n \in Nat /\ (j + 1) * n = j * n + n
    BY <1>1
  <2>2. CASE k <= j * n
    <3>1. k \in 1 .. Len(collected[i + 1])
      BY <1>5, <2>1, <2>2
    <3>. QED
      BY <1>5, <1>10, <2>2, <3>1
  <2>3. CASE ~(k <= j * n)
    <3>. DEFINE h == k - j * n
    <3>1. h \in 1 .. n /\ j * n + h = k
      <4>1. \A x \in Nat : \A y \in 1 .. x + n : ~(y <= x) => y - x \in 1 .. n /\ x + (y - x) = y
        BY <1>1
      <4>2. k \in 1 .. j * n + n
        BY <1>10, <2>1
      <4>. QED
        BY <2>1, <2>3, <4>1, <4>2
    <3>2. c[k] = symbol[h]
      BY <1>10, <2>3
    <3>. HIDE DEF h
    <3>3. j * n + h <= BlockSize(i) => symbol[h] = BlockStart(i) + (j * n + h)
      BY <1>3, <3>1
    <3>. QED
      BY <3>1, <3>2, <3>3
  <2>. QED
    BY <2>2, <2>3
<1>12. /\ collected' \in Seq(Seq(Nat)) /\ Len(collected') = block_count
       /\ \A x \in 1 .. block_count : collected'[x] = IF x = i + 1 THEN c ELSE collected[x]
  <2>1. collected' = [collected EXCEPT ![i + 1] = c]
    BY <1>4 DEF c
  <2>. QED
    BY <1>1, <1>5, <1>6, <1>10, <2>1
<1>13. Gathered'
  <2>1. ASSUME NEW x \in 0 .. block_count - 1
        PROVE  /\ Len(collected'[x + 1]) = Taken(x)' * n
               /\ \A k \in 1 .. Len(collected'[x + 1]) :
                     k <= BlockSize(x) => collected'[x + 1][k] = BlockStart(x) + k
    <3>1. CASE x = i
      <4>1. collected'[x + 1] = c /\ Taken(x)' = j + 1
        BY <1>6, <1>8, <1>12, <3>1
      <4>. QED
        BY <1>10, <1>11, <3>1, <4>1
    <3>2. CASE x # i
      <4>1. collected'[x + 1] = collected[x + 1] /\ Taken(x)' = Taken(x)
        BY <1>1, <1>8, <1>12, <3>2
      <4>2. /\ Len(collected[x + 1]) = Taken(x) * n
            /\ \A k \in 1 .. Len(collected[x + 1]) :
                  k <= BlockSize(x) => collected[x + 1][k] = BlockStart(x) + k
        BY DEF ChunksIInv, Gathered
      <4>. QED
        BY <4>1, <4>2
    <3>. QED
      BY <3>1, <3>2
  <2>. QED
    BY <1>1, <1>2, <1>12, <2>1 DEF Gathered
<1>14. JoinedSoFar'
  <2>1. joined = 0
    BY <1>1 DEF ChunksIInv, JoinedSoFar
  <2>. QED
    BY <1>1, <1>2, <2>1 DEF ChunksIInv, JoinedSoFar
<1>. QED
  BY <1>1, <1>2, <1>4, <1>9, <1>13, <1>14 DEF ChunksIInv

\* A block that has no more symbols has all of them.
LEMMA NextBlockKeeps ==
    ASSUME ChunksIInv, NextBlock
    PROVE  ChunksIInv'
<1>. DEFINE i == cursor.block  j == cursor.symbol
<1>1. /\ i \in 0 .. block_count - 1 /\ j \in Nat /\ block_count \in Nat \ {0}
      /\ symbol_size \in Nat \ {0}
      /\ j >= SymbolCount(i) /\ j <= SymbolCount(i)
      /\ PayloadBytes /\ refused = FALSE
      /\ UNCHANGED <<input, block_count, symbol_size, collected, joined, rebuilt, refused>>
      /\ cursor' = [block |-> i + 1, symbol |-> 0]
  BY DEF ChunksIInv, PayloadBytes, CursorPlaced, NextBlock, block_info, SymbolCount
<1>2. /\ PayloadBytes'
      /\ \A x : BlockSize(x)' = BlockSize(x) /\ BlockStart(x)' = BlockStart(x)
                /\ SymbolCount(x)' = SymbolCount(x)
  BY <1>1, LayoutStays
<1>3. \A x \in 0 .. block_count - 1 : SymbolCount(x) \in Nat
  <2>. SUFFICES ASSUME NEW x \in 0 .. block_count - 1 PROVE SymbolCount(x) \in Nat
    OBVIOUS
  <2>1. BlockSize(x) \in Nat
    BY <1>1, BlocksAdjoin
  <2>2. SymbolCount(x) = div_ceil(BlockSize(x), symbol_size)
    BY DEF SymbolCount, ceil_div, div_ceil
  <2>. QED
    BY <1>1, <2>1, <2>2, DivCeil
<1>4. j = SymbolCount(i)
  BY <1>1, <1>3
<1>5. \A x \in 0 .. block_count - 1 : Taken(x)' = Taken(x)
  BY <1>1, <1>2, <1>4 DEF Taken
<1>6. CursorPlaced'
  BY <1>1, <1>2, <1>3 DEF CursorPlaced
<1>7. Gathered'
  BY <1>1, <1>2, <1>5 DEF ChunksIInv, Gathered
<1>8. JoinedSoFar'
  <2>1. joined = 0
    BY <1>1 DEF ChunksIInv, JoinedSoFar
  <2>. QED
    BY <1>1, <1>2, <2>1 DEF ChunksIInv, JoinedSoFar
<1>. QED
  BY <1>1, <1>2, <1>6, <1>7, <1>8 DEF ChunksIInv

\* A block that was collected whole adds its bytes and none of its padding.
LEMMA JoinBlockKeeps ==
    ASSUME ChunksIInv, JoinBlock
    PROVE  ChunksIInv'
<1>. DEFINE i == joined  n == symbol_size  st == BlockStart(i)  sz == BlockSize(i)
            part == SubSeq(collected[i + 1], 1, sz)
<1>1. /\ i \in 0 .. block_count - 1 /\ cursor.block = block_count /\ block_count \in Nat \ {0}
      /\ n \in Nat \ {0} /\ PayloadBytes /\ refused = FALSE
      /\ UNCHANGED <<input, block_count, symbol_size, cursor, collected>>
      /\ rebuilt \in Seq(Nat) /\ Len(rebuilt) = st /\ \A k \in 1 .. Len(rebuilt) : rebuilt[k] = k
      /\ collected \in Seq(Seq(Nat)) /\ Len(collected) = block_count
  BY DEF ChunksIInv, PayloadBytes, JoinBlock, JoinedSoFar, Gathered
<1>2. /\ PayloadBytes'
      /\ \A x : BlockSize(x)' = BlockSize(x) /\ BlockStart(x)' = BlockStart(x)
                /\ SymbolCount(x)' = SymbolCount(x)
  BY <1>1, LayoutStays
<1>3. st \in Nat /\ sz \in Nat /\ BlockStart(i + 1) = st + sz
  BY <1>1, BlocksAdjoin
<1>4. /\ collected[i + 1] \in Seq(Nat) /\ Len(collected[i + 1]) >= sz
      /\ \A k \in 1 .. sz : collected[i + 1][k] = st + k
  <2>1. collected[i + 1] \in Seq(Nat) /\ Len(collected[i + 1]) \in Nat
    BY <1>1
  <2>2. Taken(i) = div_ceil(sz, n)
    BY <1>1 DEF Taken, SymbolCount, ceil_div, div_ceil
  <2>3. /\ Len(collected[i + 1]) = Taken(i) * n
        /\ \A k \in 1 .. Len(collected[i + 1]) : k <= sz => collected[i + 1][k] = st + k
    BY <1>1 DEF ChunksIInv, Gathered
  <2>4. div_ceil(sz, n) \in Nat /\ sz <= n * div_ceil(sz, n)
    BY <1>1, <1>3, DivCeil
  <2>. HIDE DEF sz, st, n, i
  <2>5. div_ceil(sz, n) * n = n * div_ceil(sz, n)
    BY <1>1, <2>4
  <2>6. sz <= Len(collected[i + 1])
    BY <2>2, <2>3, <2>4, <2>5
  <2>. QED
    BY <1>3, <2>1, <2>3, <2>6
<1>5. /\ rebuilt' = rebuilt \o part /\ joined' = i + 1 /\ refused' = refused
  <2>1. ~(Len(collected) # block_count \/ Len(collected[joined + 1]) < BlockSize(joined))
    BY <1>1, <1>3, <1>4
  <2>. QED
    BY <2>1 DEF JoinBlock
<1>6. /\ part \in Seq(Nat) /\ Len(part) = sz
      /\ \A k \in 1 .. sz : part[k] = st + k
  <2>. HIDE DEF sz, st, i
  <2>1. /\ SubSeq(collected[i + 1], 0 + 1, 0 + sz) \in Seq(Nat)
        /\ Len(SubSeq(collected[i + 1], 0 + 1, 0 + sz)) = sz
        /\ \A k \in 1 .. sz : SubSeq(collected[i + 1], 0 + 1, 0 + sz)[k] = collected[i + 1][0 + k]
    BY <1>3, <1>4, PartOf
  <2>2. 0 + 1 = 1 /\ 0 + sz = sz /\ \A k \in 1 .. sz : 0 + k = k
    BY <1>3
  <2>. QED
    BY <1>4, <2>1, <2>2
<1>. HIDE DEF part, st, sz
<1>7. /\ rebuilt' \in Seq(Nat) /\ Len(rebuilt') = st + sz
      /\ \A k \in 1 .. Len(rebuilt') : rebuilt'[k] = k
  <2>1. /\ rebuilt \o part \in Seq(Nat) /\ Len(rebuilt \o part) = Len(rebuilt) + Len(part)
        /\ \A k \in 1 .. Len(rebuilt) + Len(part) :
              (rebuilt \o part)[k] = IF k <= Len(rebuilt) THEN rebuilt[k] ELSE part[k - Len(rebuilt)]
    BY <1>1, <1>6, ConcatProperties
  <2>2. ASSUME NEW k \in 1 .. st + sz PROVE rebuilt'[k] = k
    <3>1. CASE k <= st
      BY <1>1, <1>3, <1>5, <1>6, <2>1, <3>1
    <3>2. CASE ~(k <= st)
      <4>1. k - st \in 1 .. sz /\ st + (k - st) = k
        BY <1>3, <3>2
      <4>2. rebuilt'[k] = part[k - st]
        BY <1>1, <1>3, <1>5, <1>6, <2>1, <3>2
      <4>. QED
        BY <1>6, <4>1, <4>2
    <3>. QED
      BY <3>1, <3>2
  <2>. QED
    BY <1>1, <1>5, <1>6, <2>1, <2>2
<1>8. JoinedSoFar'
  <2>1. BlockStart(joined)' = st + sz
    <3>1. BlockStart(joined)' = BlockStart(i + 1)
      BY <1>1, <1>5 DEF BlockStart, Remainder, LargeSize, SmallSize
    <3>. QED
      BY <1>3, <3>1
  <2>. QED
    BY <1>1, <1>5, <1>7, <2>1 DEF JoinedSoFar
<1>9. CursorPlaced'
  BY <1>1, <1>2 DEF ChunksIInv, CursorPlaced
<1>10. Gathered'
  <2>1. \A x \in 0 .. block_count - 1 : Taken(x)' = Taken(x)
    BY <1>1, <1>2 DEF Taken
  <2>. QED
    BY <1>1, <1>2, <2>1 DEF ChunksIInv, Gathered
<1>. QED
  BY <1>1, <1>2, <1>5, <1>8, <1>9, <1>10 DEF ChunksIInv

\* ChunksIInv holds in every reachable state.
THEOREM ChunksInvariant == ChunksSpec => []ChunksIInv
<1>1. ChunksInit => ChunksIInv
  <2>. SUFFICES ASSUME ChunksInit PROVE ChunksIInv
    OBVIOUS
  <2>1. PICK len \in 0 .. MaxPayload : input = [k \in 1 .. len |-> k]
    BY DEF ChunksInit
  <2>2. len \in Nat /\ block_count \in Nat \ {0} /\ symbol_size \in Nat \ {0}
    BY ChunksAssumption DEF ChunksInit
  <2>3. input \in Seq(Nat) /\ Len(input) = len /\ \A k \in 1 .. Len(input) : input[k] = k
    BY <2>1, <2>2
  <2>4. PayloadBytes
    BY <2>2, <2>3 DEF PayloadBytes
  <2>5. /\ cursor = [block |-> 0, symbol |-> 0] /\ joined = 0 /\ rebuilt = <<>> /\ refused = FALSE
        /\ collected = [i \in 1 .. block_count |-> <<>>]
    BY DEF ChunksInit
  <2>6. 0 \in 0 .. block_count - 1
    BY <2>2
  <2>7. BlockStart(0) = 0
    BY <2>4, <2>6, BlocksAdjoin
  <2>8. JoinedSoFar
    BY <2>2, <2>5, <2>7 DEF JoinedSoFar
  <2>9. SymbolCount(0) \in Nat
    <3>1. BlockSize(0) \in Nat
      BY <2>4, <2>6, BlocksAdjoin
    <3>2. SymbolCount(0) = div_ceil(BlockSize(0), symbol_size)
      BY DEF SymbolCount, ceil_div, div_ceil
    <3>. QED
      BY <2>2, <3>1, <3>2, DivCeil
  <2>10. CursorPlaced
    BY <2>2, <2>5, <2>9 DEF CursorPlaced
  <2>11. Gathered
    <3>1. \A i \in 0 .. block_count - 1 : Taken(i) = 0 /\ 0 * symbol_size = 0
      BY <2>2, <2>5 DEF Taken
    <3>2. <<>> \in Seq(Nat) /\ Len(<<>>) = 0
      OBVIOUS
    <3>3. collected \in Seq(Seq(Nat)) /\ Len(collected) = block_count
      BY <2>2, <2>5, <3>2
    <3>4. \A i \in 0 .. block_count - 1 : collected[i + 1] = <<>>
      BY <2>2, <2>5
    <3>. QED
      BY <3>1, <3>2, <3>3, <3>4 DEF Gathered
  <2>. QED
    BY <2>4, <2>5, <2>8, <2>10, <2>11 DEF ChunksIInv
<1>2. ChunksIInv /\ [ChunksNext]_chunkVars => ChunksIInv'
  <2>. SUFFICES ASSUME ChunksIInv, [ChunksNext]_chunkVars PROVE ChunksIInv'
    OBVIOUS
  <2>1. CASE UNCHANGED chunkVars
    <3>1. \A i : BlockSize(i)' = BlockSize(i) /\ BlockStart(i)' = BlockStart(i)
                 /\ SymbolCount(i)' = SymbolCount(i) /\ Taken(i)' = Taken(i)
      BY <2>1, LayoutStays DEF chunkVars, Taken
    <3>. QED
      BY <2>1, <3>1
         DEF chunkVars, ChunksIInv, PayloadBytes, CursorPlaced, Gathered, JoinedSoFar
  <2>. QED
    BY <2>1, ExtractSymbolKeeps, NextBlockKeeps, JoinBlockKeeps DEF ChunksNext
<1>. QED
  BY <1>1, <1>2, PTL DEF ChunksSpec

\* No symbol and no block of the chunker's own making is refused, and a payload that
\* is put together is the one that was taken apart, for every payload length, number
\* of blocks and symbol size (extract_block, extract_symbol, reassemble).
THEOREM PayloadRebuilt == ChunksSpec => []RebuiltExactly
<1>1. ChunksIInv => RebuiltExactly
  <2>. SUFFICES ASSUME ChunksIInv, joined = block_count PROVE rebuilt = input
    BY DEF RebuiltExactly, ChunksIInv
  <2>1. PayloadBytes /\ 0 \in 0 .. block_count - 1
    BY DEF ChunksIInv, PayloadBytes
  <2>2. BlockStart(block_count) = Len(input)
    BY <2>1, BlocksAdjoin
  <2>3. /\ input \in Seq(Nat) /\ rebuilt \in Seq(Nat) /\ Len(rebuilt) = Len(input)
        /\ \A k \in 1 .. Len(input) : rebuilt[k] = input[k]
    BY <2>2 DEF ChunksIInv, PayloadBytes, JoinedSoFar
  <2>. QED
    BY <2>3, SeqEqual
<1>. QED
  BY <1>1, ChunksInvariant, PTL

\* What is left to do: the blocks that are not across, less what is across of the
\* next one, and the blocks that are not joined.  A block has at most as many
\* symbols as the payload has bytes.
ChunksLeft ==
    (IF cursor.block < block_count
     THEN (block_count - cursor.block) * (Len(input) + 1) - cursor.symbol ELSE 0)
    + (block_count - joined)

\* A block has no more symbols than the payload has bytes.
LEMMA SymbolsBounded ==
    ASSUME PayloadBytes, NEW i \in 0 .. block_count - 1
    PROVE  SymbolCount(i) \in Nat /\ SymbolCount(i) <= Len(input)
<1>1. /\ BlockStart(i) \in Nat /\ BlockSize(i) \in Nat
      /\ BlockStart(i + 1) = BlockStart(i) + BlockSize(i) /\ BlockStart(i + 1) <= Len(input)
  BY BlocksAdjoin
<1>2. Len(input) \in Nat /\ symbol_size \in Nat \ {0}
  BY DEF PayloadBytes
<1>3. BlockSize(i) <= Len(input)
  BY <1>1, <1>2
<1>4. SymbolCount(i) = div_ceil(BlockSize(i), symbol_size)
  BY DEF SymbolCount, ceil_div, div_ceil
<1>5. BlockSize(i) <= symbol_size * BlockSize(i)
  BY <1>1, <1>2, TimesAtLeast
<1>6. div_ceil(BlockSize(i), symbol_size) \in Nat
      /\ div_ceil(BlockSize(i), symbol_size) <= BlockSize(i)
  BY <1>1, <1>2, <1>5, DivCeil, DivCeilLeast
<1>. QED
  BY <1>1, <1>2, <1>3, <1>4, <1>6

\* The part of what is left that is about taking apart.
LEMMA LeftShape ==
    ASSUME ChunksIInv, cursor.block < block_count
    PROVE  /\ (block_count - cursor.block) * (Len(input) + 1) \in Nat
           /\ (block_count - (cursor.block + 1)) * (Len(input) + 1) \in Nat
           /\ (block_count - cursor.block) * (Len(input) + 1)
                = (block_count - (cursor.block + 1)) * (Len(input) + 1) + Len(input) + 1
           /\ cursor.symbol \in Nat /\ cursor.symbol <= Len(input)
           /\ Len(input) \in Nat
<1>1. /\ PayloadBytes /\ Len(input) \in Nat /\ block_count \in Nat
      /\ cursor.block \in Nat /\ cursor.symbol \in Nat
      /\ cursor.symbol <= SymbolCount(cursor.block)
  BY DEF ChunksIInv, PayloadBytes, CursorPlaced
<1>2. cursor.block \in 0 .. block_count - 1
  BY <1>1
<1>3. SymbolCount(cursor.block) \in Nat /\ SymbolCount(cursor.block) <= Len(input)
  BY <1>1, <1>2, SymbolsBounded
<1>. DEFINE k == block_count - (cursor.block + 1)
            c == Len(input) + 1
<1>4. k \in Nat /\ c \in Nat /\ block_count - cursor.block = k + 1
  BY <1>1, <1>2
<1>5. c = Len(input) + 1
  OBVIOUS
<1>. HIDE DEF k, c
<1>6. k * c \in Nat /\ (k + 1) * c = k * c + c /\ (k + 1) * c \in Nat
  BY <1>4
<1>7. /\ (block_count - cursor.block) * c \in Nat
      /\ (block_count - cursor.block) * c = k * c + Len(input) + 1
  <2>1. (block_count - cursor.block) * c = (k + 1) * c
    BY <1>4
  <2>2. k * c + c = k * c + Len(input) + 1
    BY <1>1, <1>5, <1>6
  <2>. QED
    BY <1>6, <2>1, <2>2, Zenon
<1>. QED
  BY <1>1, <1>3, <1>6, <1>7 DEF k, c

\* Every step leaves less to do.
ChunksAdvance == [][ChunksLeft' < ChunksLeft]_chunkVars

\* Taking a payload apart and putting it together takes a number of steps that is
\* bounded when it begins, blocks without bytes included (extract_symbol, reassemble).
THEOREM ChunksShrink == ChunksSpec => [](ChunksLeft \in Nat) /\ ChunksAdvance
<1>1. ChunksIInv => ChunksLeft \in Nat
  <2>. SUFFICES ASSUME ChunksIInv PROVE ChunksLeft \in Nat
    OBVIOUS
  <2>1. block_count - joined \in Nat
    BY DEF ChunksIInv, JoinedSoFar, PayloadBytes
  <2>2. CASE cursor.block < block_count
    <3>. DEFINE t == (block_count - cursor.block) * (Len(input) + 1)
                u == (block_count - (cursor.block + 1)) * (Len(input) + 1)
    <3>1. /\ t \in Nat /\ u \in Nat /\ t = u + Len(input) + 1 /\ cursor.symbol \in Nat
          /\ cursor.symbol <= Len(input) /\ Len(input) \in Nat
      BY <2>2, LeftShape
    <3>2. ChunksLeft = t - cursor.symbol + (block_count - joined)
      BY <2>2 DEF ChunksLeft
    <3>. HIDE DEF t, u
    <3>. QED
      BY <2>1, <3>1, <3>2
  <2>3. CASE ~(cursor.block < block_count)
    BY <2>1, <2>3 DEF ChunksLeft
  <2>. QED
    BY <2>2, <2>3
<1>2. ChunksIInv /\ ChunksIInv' /\ [ChunksNext]_chunkVars => [ChunksLeft' < ChunksLeft]_chunkVars
  <2>. SUFFICES ASSUME ChunksIInv, ChunksIInv', ChunksNext PROVE ChunksLeft' < ChunksLeft
    OBVIOUS
  <2>1. /\ block_count \in Nat /\ joined \in Nat /\ block_count - joined \in Nat
        /\ cursor \in [block: Nat, symbol: Nat] /\ cursor.block <= block_count
    BY DEF ChunksIInv, JoinedSoFar, PayloadBytes, CursorPlaced
  <2>2. refused' = FALSE
    BY DEF ChunksIInv
  <2>. DEFINE t == (block_count - cursor.block) * (Len(input) + 1)
              u == (block_count - (cursor.block + 1)) * (Len(input) + 1)
  <2>3. CASE ExtractSymbol
    <3>1. /\ cursor.block < block_count /\ UNCHANGED <<input, block_count, joined>>
          /\ cursor' = [cursor EXCEPT !.symbol = @ + 1]
      BY <2>2, <2>3 DEF ExtractSymbol
    <3>2. cursor'.block = cursor.block /\ cursor'.symbol = cursor.symbol + 1
      BY <2>1, <3>1
    <3>3. t \in Nat /\ cursor.symbol \in Nat
      BY <3>1, LeftShape
    <3>4. ChunksLeft = t - cursor.symbol + (block_count - joined)
      BY <3>1 DEF ChunksLeft
    <3>5. ChunksLeft' = t - (cursor.symbol + 1) + (block_count - joined)
      BY <3>1, <3>2 DEF ChunksLeft
    <3>. HIDE DEF t
    <3>. QED
      BY <2>1, <3>3, <3>4, <3>5
  <2>4. CASE NextBlock
    <3>1. /\ cursor.block < block_count /\ UNCHANGED <<input, block_count, joined>>
          /\ cursor'.block = cursor.block + 1 /\ cursor'.symbol = 0
      BY <2>4 DEF NextBlock
    <3>2. /\ t \in Nat /\ u \in Nat /\ t = u + Len(input) + 1 /\ cursor.symbol \in Nat
          /\ cursor.symbol <= Len(input) /\ Len(input) \in Nat
      BY <3>1, LeftShape
    <3>3. ChunksLeft = t - cursor.symbol + (block_count - joined)
      BY <3>1 DEF ChunksLeft
    <3>4. ChunksLeft' = (IF cursor.block + 1 < block_count THEN u - 0 ELSE 0)
                        + (block_count - joined)
      BY <3>1 DEF ChunksLeft
    <3>. HIDE DEF t, u
    <3>. QED
      BY <2>1, <3>2, <3>3, <3>4
  <2>5. CASE JoinBlock
    <3>1. /\ cursor.block = block_count /\ UNCHANGED <<input, block_count, cursor>>
          /\ joined' = joined + 1
      BY <2>2, <2>5 DEF JoinBlock
    <3>2. ChunksLeft = block_count - joined /\ ChunksLeft' = block_count - (joined + 1)
      BY <2>1, <3>1 DEF ChunksLeft
    <3>. QED
      BY <2>1, <3>2
  <2>. QED
    BY <2>3, <2>4, <2>5 DEF ChunksNext
<1>. QED
  BY <1>1, <1>2, ChunksInvariant, PTL DEF ChunksSpec, ChunksAdvance
=============================================================================
