---------------------------- MODULE DecoderProofs ----------------------------
(***************************************************************************)
(* What the decoder holds after any stream of frames, for every layout,     *)
(* every set of frames and every fountain code that never gets worse.       *)
(***************************************************************************)
EXTENDS Decoder, FiniteSetTheorems, TLAPS

\* The shapes of the variables, without the bound on held_counts, which rests
\* on the count invariant.
Shapes ==
    /\ held \in [Blocks -> SUBSET (0 .. TotalSymbols - 1)]
    /\ held_counts \in [Blocks -> Nat]
    /\ packets \in [Blocks -> SUBSET Packet]
    /\ data \in [Blocks -> BlockData]
    /\ journal \in Seq(Frames)

CountsBits ==
    \A b \in Blocks : IsFiniteSet(held[b]) /\ held_counts[b] = Cardinality(held[b])

\* A pending block has given RaptorQ every symbol of the stream, and they do
\* not solve it; a block that is not pending is empty or solved by them.
PendingUnsolved ==
    \A b \in Blocks :
        /\ data[b] = "pending" =>
              /\ b \notin EmptyBlocks
              /\ SymbolsIn(packets[b]) = StreamSymbols(journal, b)
              /\ ~Solvable(b, StreamSymbols(journal, b))
        /\ data[b] # "pending" =>
              b \in EmptyBlocks \/ Solvable(b, StreamSymbols(journal, b))

HeldIsStream == held = HeldBy(journal)

\* What RaptorQ has of a pending block is as sound as the frames it came in,
\* and a block that holds the payload's bytes got them from sound frames.
SoundBlocks ==
    \A b \in Blocks :
        /\ \A p \in packets[b] : p.sound => p.symbol \in SoundSymbols(journal, b)
        /\ data[b] = "right" =>
              b \in EmptyBlocks \/ Solvable(b, SoundSymbols(journal, b))

DecIInv == Shapes /\ CountsBits /\ HeldIsStream /\ PendingUnsolved /\ SoundBlocks

-----------------------------------------------------------------------------
\* Appending a frame adds it, and nothing else, to what a stream contains.
LEMMA RangeAppend ==
    ASSUME NEW S, NEW j \in Seq(S), NEW f \in S
    PROVE  Range(Append(j, f)) = Range(j) \cup {f}
<1>1. DOMAIN Append(j, f) = 1 .. Len(j) + 1 /\ DOMAIN j = 1 .. Len(j) /\ Len(j) \in Nat
  OBVIOUS
<1>2. \A i \in 1 .. Len(j) : Append(j, f)[i] = j[i]
  OBVIOUS
<1>3. Append(j, f)[Len(j) + 1] = f
  OBVIOUS
<1>4. Range(Append(j, f)) \subseteq Range(j) \cup {f}
  <2>1. SUFFICES ASSUME NEW i \in DOMAIN Append(j, f)
                 PROVE  Append(j, f)[i] \in Range(j) \cup {f}
    BY DEF Range
  <2>2. CASE i \in 1 .. Len(j)
    BY <2>2, <1>1, <1>2 DEF Range
  <2>3. CASE i = Len(j) + 1
    BY <2>3, <1>3
  <2>4. QED
    BY <2>1, <2>2, <2>3, <1>1
<1>5. Range(j) \cup {f} \subseteq Range(Append(j, f))
  <2>1. \A i \in 1 .. Len(j) : j[i] \in Range(Append(j, f))
    BY <1>1, <1>2 DEF Range
  <2>2. f \in Range(Append(j, f))
    BY <1>1, <1>3 DEF Range
  <2>3. QED
    BY <2>1, <2>2, <1>1 DEF Range
<1>6. QED
  BY <1>4, <1>5

\* A stream of frames contains only frames.
LEMMA RangeSeq ==
    ASSUME NEW S, NEW j \in Seq(S)
    PROVE  Range(j) \subseteq S
BY DEF Range

\* The symbols a longer stream has of a block.
LEMMA StreamSymbolsAppend ==
    ASSUME NEW j \in Seq(Frames), NEW f \in Frames, NEW b \in Blocks
    PROVE  StreamSymbols(Append(j, f), b) =
             IF f.block = b THEN StreamSymbols(j, b) \cup {f.symbol}
                            ELSE StreamSymbols(j, b)
BY RangeAppend DEF StreamSymbols

\* They are symbols frames of that block carry, and natural numbers.
LEMMA StreamSymbolsType ==
    ASSUME NEW j \in Seq(Frames), NEW b \in Blocks
    PROVE  StreamSymbols(j, b) \in SUBSET SymbolsOf(b)
           /\ StreamSymbols(j, b) \subseteq Nat
BY RangeSeq, FramesAssumption DEF StreamSymbols, SymbolsOf, FrameType

\* The empty stream.
LEMMA StreamSymbolsEmpty ==
    ASSUME NEW b PROVE StreamSymbols(<<>>, b) = {}
BY DEF StreamSymbols, Range

\* Likewise for the sound ones.
LEMMA SoundSymbolsAppend ==
    ASSUME NEW j \in Seq(Frames), NEW f \in Frames, NEW b \in Blocks
    PROVE  /\ SoundSymbols(j, b) \subseteq SoundSymbols(Append(j, f), b)
           /\ f.block = b /\ f.sound => f.symbol \in SoundSymbols(Append(j, f), b)
BY RangeAppend DEF SoundSymbols

LEMMA SoundSymbolsType ==
    ASSUME NEW j \in Seq(Frames), NEW b \in Blocks
    PROVE  SoundSymbols(j, b) \in SUBSET SymbolsOf(b)
BY RangeSeq DEF SoundSymbols, SymbolsOf

-----------------------------------------------------------------------------
\* A packet RaptorQ already has is dropped, so what it has of a block is the
\* old symbols and the new one, in either case.
LEMMA AddPacketSymbols ==
    ASSUME NEW P \in SUBSET Packet, NEW f \in Frames
    PROVE  /\ AddPacket(P, f) \in SUBSET Packet
           /\ SymbolsIn(AddPacket(P, f)) = SymbolsIn(P) \cup {f.symbol}
<1>1. f.symbol \in Nat /\ f.sound \in BOOLEAN
  BY FramesAssumption DEF FrameType
<1>2. CASE \E p \in P : p.symbol = f.symbol
  <2>1. AddPacket(P, f) = P
    BY <1>2 DEF AddPacket
  <2>2. f.symbol \in SymbolsIn(P)
    BY <1>2 DEF SymbolsIn
  <2>3. QED
    BY <2>1, <2>2
<1>3. CASE ~ \E p \in P : p.symbol = f.symbol
  <2>1. AddPacket(P, f) = P \cup {[symbol |-> f.symbol, sound |-> f.sound]}
    BY <1>3 DEF AddPacket
  <2>2. [symbol |-> f.symbol, sound |-> f.sound] \in Packet
    BY <1>1 DEF Packet
  <2>3. ASSUME NEW q, q.symbol = f.symbol
        PROVE  SymbolsIn(P \cup {q}) = SymbolsIn(P) \cup {f.symbol}
    BY <2>3 DEF SymbolsIn
  <2>4. QED
    BY <2>1, <2>2, <2>3
<1>4. QED
  BY <1>2, <1>3

\* A frame accept takes names a block of the layout.
LEMMA AdmissibleBlock ==
    ASSUME NEW f \in Frames, Admissible(f)
    PROVE  f.block \in Blocks /\ f.symbol \in Nat
BY FramesAssumption DEF Admissible, FrameType

\* mark_held keeps the bitmap a bitmap and its count the number of bits set.
LEMMA MarkHeldCounts ==
    ASSUME Shapes, CountsBits, NEW b \in Blocks, NEW s \in Nat, mark_held(b, s)
    PROVE  /\ held' \in [Blocks -> SUBSET (0 .. TotalSymbols - 1)]
           /\ held_counts' \in [Blocks -> Nat]
           /\ CountsBits'
<1>1. CASE s < TotalSymbols /\ s \notin held[b]
  <2>1. held' = [held EXCEPT ![b] = @ \cup {s}]
        /\ held_counts' = [held_counts EXCEPT ![b] = @ + 1]
    BY <1>1 DEF mark_held
  <2>2. s \in 0 .. TotalSymbols - 1
    BY <1>1, LayoutAssumption
  <2>3. IsFiniteSet(held[b]) /\ held_counts[b] = Cardinality(held[b])
    BY DEF CountsBits
  <2>4. IsFiniteSet(held[b] \cup {s})
        /\ Cardinality(held[b] \cup {s}) = Cardinality(held[b]) + 1
    BY <1>1, <2>3, FS_AddElement
  <2>5. held' \in [Blocks -> SUBSET (0 .. TotalSymbols - 1)]
        /\ held_counts' \in [Blocks -> Nat]
    BY <2>1, <2>2 DEF Shapes
  <2>6. ASSUME NEW c \in Blocks
        PROVE  IsFiniteSet(held'[c]) /\ held_counts'[c] = Cardinality(held'[c])
    <3>1. CASE c = b
      BY <3>1, <2>1, <2>3, <2>4 DEF Shapes
    <3>2. CASE c # b
      BY <3>2, <2>1 DEF Shapes, CountsBits
    <3>3. QED
      BY <3>1, <3>2
  <2>7. QED
    BY <2>5, <2>6 DEF CountsBits
<1>2. CASE ~(s < TotalSymbols /\ s \notin held[b])
  BY <1>2 DEF mark_held, Shapes, CountsBits
<1>3. QED
  BY <1>1, <1>2

\* mark_held adds exactly the indices the bitmap has room for, so the bitmaps
\* stay what the longer stream determines.
LEMMA MarkHeldFollowsStream ==
    ASSUME Shapes, HeldIsStream, NEW f \in Frames, Admissible(f),
           mark_held(f.block, f.symbol), journal' = Append(journal, f)
    PROVE  HeldIsStream'
<1>0. f.block \in Blocks /\ f.symbol \in Nat
  BY AdmissibleBlock
<1>1. ASSUME NEW c \in Blocks
      PROVE  held'[c] = {s \in StreamSymbols(journal', c) : s < TotalSymbols}
  <2>1. held[c] = {s \in StreamSymbols(journal, c) : s < TotalSymbols}
    BY DEF HeldIsStream, HeldBy
  <2>2. StreamSymbols(journal', c) =
          IF f.block = c THEN StreamSymbols(journal, c) \cup {f.symbol}
                         ELSE StreamSymbols(journal, c)
    BY StreamSymbolsAppend DEF Shapes
  <2>3. CASE f.symbol < TotalSymbols /\ f.symbol \notin held[f.block]
    <3>1. held' = [held EXCEPT ![f.block] = @ \cup {f.symbol}]
      BY <2>3 DEF mark_held
    <3>2. CASE c = f.block
      BY <3>1, <3>2, <2>1, <2>2, <2>3 DEF Shapes
    <3>3. CASE c # f.block
      BY <3>1, <3>3, <2>1, <2>2 DEF Shapes
    <3>4. QED
      BY <3>2, <3>3
  <2>4. CASE ~(f.symbol < TotalSymbols /\ f.symbol \notin held[f.block])
    <3>1. held' = held
      BY <2>4 DEF mark_held
    <3>2. QED
      BY <3>1, <2>1, <2>2, <2>4
  <2>5. QED
    BY <2>3, <2>4
<1>2. held' \in [Blocks -> SUBSET (0 .. TotalSymbols - 1)]
  <2>1. CASE f.symbol < TotalSymbols /\ f.symbol \notin held[f.block]
    <3>1. f.symbol \in 0 .. TotalSymbols - 1
      BY <2>1, <1>0, LayoutAssumption
    <3>2. held' = [held EXCEPT ![f.block] = @ \cup {f.symbol}]
      BY <2>1 DEF mark_held
    <3>3. QED
      BY <3>1, <3>2, <1>0 DEF Shapes
  <2>2. CASE ~(f.symbol < TotalSymbols /\ f.symbol \notin held[f.block])
    BY <2>2 DEF mark_held, Shapes
  <2>3. QED
    BY <2>1, <2>2
<1>3. QED
  BY <1>1, <1>2 DEF HeldIsStream, HeldBy

\* Taking a symbol of a pending block, or ignoring one of a block that is
\* done, leaves every block pending exactly while its stream does not solve it.
LEMMA SymbolKeepsPending ==
    ASSUME Shapes, PendingUnsolved, NEW f \in Frames, Admissible(f),
           journal' = Append(journal, f), Redundant(f) \/ TakeSymbol(f)
    PROVE  /\ packets' \in [Blocks -> SUBSET Packet]
           /\ data' \in [Blocks -> BlockData]
           /\ PendingUnsolved'
<1>0. f.block \in Blocks /\ f.symbol \in Nat
  BY AdmissibleBlock
<1>a. ASSUME NEW c \in Blocks
      PROVE  /\ StreamSymbols(journal', c) =
                  IF f.block = c THEN StreamSymbols(journal, c) \cup {f.symbol}
                                 ELSE StreamSymbols(journal, c)
             /\ StreamSymbols(journal, c) \in SUBSET SymbolsOf(c)
             /\ StreamSymbols(journal', c) \in SUBSET SymbolsOf(c)
             /\ Solvable(c, StreamSymbols(journal, c))
                  => Solvable(c, StreamSymbols(journal', c))
  <2>1. journal \in Seq(Frames) /\ journal' \in Seq(Frames)
    BY DEF Shapes
  <2>2. StreamSymbols(journal', c) =
          IF f.block = c THEN StreamSymbols(journal, c) \cup {f.symbol}
                         ELSE StreamSymbols(journal, c)
    BY <2>1, StreamSymbolsAppend
  <2>3. StreamSymbols(journal, c) \in SUBSET SymbolsOf(c)
        /\ StreamSymbols(journal', c) \in SUBSET SymbolsOf(c)
    BY <2>1, StreamSymbolsType
  <2>4. StreamSymbols(journal, c) \subseteq StreamSymbols(journal', c)
    BY <2>2
  <2>5. QED
    BY <2>2, <2>3, <2>4, SolvableAssumption
<1>1. CASE Redundant(f)
  <2>1. data[f.block] # "pending" /\ packets' = packets /\ data' = data
    BY <1>1 DEF Redundant
  <2>2. ASSUME NEW c \in Blocks
        PROVE  /\ data[c] = "pending" =>
                    /\ c \notin EmptyBlocks
                    /\ SymbolsIn(packets[c]) = StreamSymbols(journal', c)
                    /\ ~Solvable(c, StreamSymbols(journal', c))
               /\ data[c] # "pending" =>
                    c \in EmptyBlocks \/ Solvable(c, StreamSymbols(journal', c))
    <3>1. data[c] = "pending" => StreamSymbols(journal', c) = StreamSymbols(journal, c)
      BY <2>1, <1>a
    <3>2. QED
      BY <3>1, <1>a DEF PendingUnsolved
  <2>3. QED
    BY <2>1, <2>2 DEF PendingUnsolved, Shapes
<1>2. CASE TakeSymbol(f)
  <2> DEFINE b == f.block
             P == AddPacket(packets[b], f)
  <2>1. data[b] = "pending"
    BY <1>2 DEF TakeSymbol
  <2>2. P \in SUBSET Packet /\ SymbolsIn(P) = SymbolsIn(packets[b]) \cup {f.symbol}
    BY <1>0, AddPacketSymbols DEF Shapes
  <2>3. SymbolsIn(P) = StreamSymbols(journal', b) /\ b \notin EmptyBlocks
    BY <2>1, <2>2, <1>0, <1>a DEF PendingUnsolved
  <2>4. ASSUME NEW c \in Blocks, c # b
        PROVE  StreamSymbols(journal', c) = StreamSymbols(journal, c)
    BY <2>4, <1>a
  <2>5. CASE Solvable(b, SymbolsIn(P))
    <3>1. data' = [data EXCEPT ![b] = Solution(P)]
          /\ packets' = [packets EXCEPT ![b] = {}]
      BY <1>2, <2>5 DEF TakeSymbol
    <3>2. Solution(P) \in {"right", "wrong"}
      BY DEF Solution
    <3>3. packets' \in [Blocks -> SUBSET Packet] /\ data' \in [Blocks -> BlockData]
      BY <3>1, <3>2, <1>0 DEF Shapes, BlockData
    <3>4. data'[b] # "pending" /\ Solvable(b, StreamSymbols(journal', b))
      BY <3>1, <3>2, <2>5, <2>3, <1>0 DEF Shapes
    <3>5. \A c \in Blocks : c # b => data'[c] = data[c] /\ packets'[c] = packets[c]
      BY <3>1, <1>0 DEF Shapes
    <3>6. QED
      BY <3>3, <3>4, <3>5, <2>4 DEF PendingUnsolved
  <2>6. CASE ~Solvable(b, SymbolsIn(P))
    <3>1. data' = data /\ packets' = [packets EXCEPT ![b] = P]
      BY <1>2, <2>6 DEF TakeSymbol
    <3>2. packets' \in [Blocks -> SUBSET Packet] /\ data' \in [Blocks -> BlockData]
      BY <3>1, <2>2, <1>0 DEF Shapes
    <3>3. packets'[b] = P
      BY <3>1, <1>0 DEF Shapes
    <3>4. \A c \in Blocks : c # b => packets'[c] = packets[c]
      BY <3>1, <1>0 DEF Shapes
    <3>5. QED
      BY <3>1, <3>2, <3>3, <3>4, <2>1, <2>3, <2>4, <2>6 DEF PendingUnsolved
  <2>7. QED
    BY <2>5, <2>6
<1>3. QED
  BY <1>1, <1>2

\* Likewise, a block gets the payload's bytes from sound symbols only.
LEMMA SymbolKeepsSound ==
    ASSUME Shapes, SoundBlocks, NEW f \in Frames, Admissible(f),
           journal' = Append(journal, f), Redundant(f) \/ TakeSymbol(f)
    PROVE  SoundBlocks'
<1>0. f.block \in Blocks /\ f.symbol \in Nat /\ journal \in Seq(Frames) /\ journal' \in Seq(Frames)
  BY AdmissibleBlock DEF Shapes
<1>a. ASSUME NEW c \in Blocks
      PROVE  /\ SoundSymbols(journal, c) \subseteq SoundSymbols(journal', c)
             /\ f.block = c /\ f.sound => f.symbol \in SoundSymbols(journal', c)
             /\ SoundSymbols(journal, c) \in SUBSET SymbolsOf(c)
             /\ SoundSymbols(journal', c) \in SUBSET SymbolsOf(c)
  BY <1>0, SoundSymbolsAppend, SoundSymbolsType
<1>b. ASSUME NEW c \in Blocks, Solvable(c, SoundSymbols(journal, c))
      PROVE  Solvable(c, SoundSymbols(journal', c))
  BY <1>a, <1>b, SolvableAssumption
\* A block the frame leaves alone.
<1>c. ASSUME NEW c \in Blocks, packets'[c] = packets[c], data'[c] = data[c]
      PROVE  /\ \A p \in packets'[c] : p.sound => p.symbol \in SoundSymbols(journal', c)
             /\ data'[c] = "right" =>
                   c \in EmptyBlocks \/ Solvable(c, SoundSymbols(journal', c))
  BY <1>a, <1>b, <1>c DEF SoundBlocks
<1>1. CASE Redundant(f)
  BY <1>1, <1>c DEF Redundant, SoundBlocks
<1>2. CASE TakeSymbol(f)
  <2> DEFINE b == f.block
             P == AddPacket(packets[b], f)
  <2>1. \A p \in P : p.sound => p.symbol \in SoundSymbols(journal', b)
    <3>1. \A p \in packets[b] : p.sound => p.symbol \in SoundSymbols(journal', b)
      BY <1>0, <1>a DEF SoundBlocks
    <3>2. \A p \in P : p \in packets[b] \/ p = [symbol |-> f.symbol, sound |-> f.sound]
      BY DEF AddPacket
    <3>3. QED
      BY <1>0, <1>a, <3>1, <3>2
  <2>2. P \in SUBSET Packet
    BY <1>0, AddPacketSymbols DEF Shapes
  <2>3. CASE Solvable(b, SymbolsIn(P))
    <3>1. data' = [data EXCEPT ![b] = Solution(P)]
          /\ packets' = [packets EXCEPT ![b] = {}]
      BY <1>2, <2>3 DEF TakeSymbol
    <3>2. packets'[b] = {} /\ data'[b] = Solution(P)
      BY <1>0, <3>1 DEF Shapes
    <3>3. Solution(P) = "right" => \A p \in P : p.sound
      BY DEF Solution
    <3>4. Solution(P) = "right" => SymbolsIn(P) \subseteq SoundSymbols(journal', b)
      BY <2>1, <3>3 DEF SymbolsIn
    <3>5. Solution(P) = "right" => Solvable(b, SoundSymbols(journal', b))
      <4> SUFFICES ASSUME Solution(P) = "right" PROVE Solvable(b, SoundSymbols(journal', b))
        OBVIOUS
      <4> HIDE DEF P
      <4>1. SymbolsIn(P) \in SUBSET SymbolsOf(b)
        BY <1>0, <1>a, <3>4
      <4>2. QED
        BY <1>0, <1>a, <2>3, <3>4, <4>1, SolvableAssumption
    <3>6. \A c \in Blocks : c # b => packets'[c] = packets[c] /\ data'[c] = data[c]
      BY <1>0, <3>1 DEF Shapes
    <3> HIDE DEF P
    <3>7. QED
      BY <1>c, <3>2, <3>5, <3>6 DEF SoundBlocks
  <2>4. CASE ~Solvable(b, SymbolsIn(P))
    <3>1. data' = data /\ packets' = [packets EXCEPT ![b] = P] /\ data[b] = "pending"
      BY <1>2, <2>4 DEF TakeSymbol
    <3>2. packets'[b] = P /\ \A c \in Blocks : c # b => packets'[c] = packets[c]
      BY <1>0, <3>1 DEF Shapes
    <3> HIDE DEF P
    <3>3. QED
      BY <1>c, <2>1, <3>1, <3>2 DEF SoundBlocks
  <2>5. QED
    BY <2>3, <2>4
<1>3. QED
  BY <1>1, <1>2

-----------------------------------------------------------------------------
\* A new decoder satisfies the invariant.
LEMMA NewDecoderInvariant == DecInit => DecIInv
<1> SUFFICES ASSUME DecInit PROVE DecIInv
  OBVIOUS
<1>1. Shapes
  BY DEF DecInit, Shapes, NewHeld, NewCounts, NewPackets, NewData, BlockData
<1>2. CountsBits
  BY FS_EmptySet DEF DecInit, CountsBits, NewHeld, NewCounts
<1>3. HeldIsStream
  BY StreamSymbolsEmpty DEF DecInit, HeldIsStream, HeldBy, NewHeld
<1>4. PendingUnsolved
  <2>1. \A c \in Blocks : StreamSymbols(journal, c) = {} /\ ~Solvable(c, {})
    BY StreamSymbolsEmpty, SolvableAssumption DEF DecInit
  <2>2. \A c \in Blocks : SymbolsIn(packets[c]) = {}
    BY DEF DecInit, NewPackets, SymbolsIn
  <2>3. QED
    BY <2>1, <2>2 DEF DecInit, NewData, PendingUnsolved
<1>5. SoundBlocks
  BY DEF DecInit, NewData, NewPackets, SoundBlocks
<1>6. QED
  BY <1>1, <1>2, <1>3, <1>4, <1>5 DEF DecIInv

\* accept keeps it, whatever frame it takes and whatever it does with it.
LEMMA AcceptInvariant ==
    ASSUME DecIInv, NEW f \in Frames, Accept(f)
    PROVE  DecIInv'
<1>0. /\ Shapes /\ CountsBits /\ HeldIsStream /\ PendingUnsolved /\ SoundBlocks
      /\ Admissible(f) /\ mark_held(f.block, f.symbol)
      /\ journal' = Append(journal, f) /\ (Redundant(f) \/ TakeSymbol(f))
  BY DEF DecIInv, Accept
<1>1. f.block \in Blocks /\ f.symbol \in Nat
  BY <1>0, AdmissibleBlock
<1>2. /\ held' \in [Blocks -> SUBSET (0 .. TotalSymbols - 1)]
      /\ held_counts' \in [Blocks -> Nat] /\ CountsBits'
  BY <1>0, <1>1, MarkHeldCounts
<1>3. HeldIsStream'
  BY <1>0, MarkHeldFollowsStream
<1>4. /\ packets' \in [Blocks -> SUBSET Packet]
      /\ data' \in [Blocks -> BlockData] /\ PendingUnsolved'
  BY <1>0, SymbolKeepsPending
<1>5. journal' \in Seq(Frames)
  BY <1>0 DEF Shapes
<1>6. SoundBlocks'
  BY <1>0, SymbolKeepsSound
<1>7. QED
  BY <1>2, <1>3, <1>4, <1>5, <1>6 DEF DecIInv, Shapes

\* A step that leaves the decoder alone keeps it.
LEMMA IdleInvariant ==
    ASSUME DecIInv, UNCHANGED decVars
    PROVE  DecIInv'
BY DEF DecIInv, decVars, Shapes, CountsBits, HeldIsStream, HeldBy,
       PendingUnsolved, StreamSymbols, SoundBlocks, SoundSymbols

\* The invariant of the decoder, for every stream of frames.
THEOREM DecoderInvariant == DecSpec => []DecIInv
<1>1. DecInit => DecIInv
  BY NewDecoderInvariant
<1>2. DecIInv /\ [DecNext]_decVars => DecIInv'
  <2> SUFFICES ASSUME DecIInv, [DecNext]_decVars PROVE DecIInv'
    OBVIOUS
  <2>1. ASSUME NEW f \in Frames, Accept(f) PROVE DecIInv'
    BY <2>1, AcceptInvariant
  <2>2. ASSUME NEW f \in Frames, Reject(f) PROVE DecIInv'
    BY <2>2, IdleInvariant DEF Reject
  <2>3. CASE UNCHANGED decVars
    BY <2>3, IdleInvariant
  <2>4. QED
    BY <2>1, <2>2, <2>3 DEF DecNext
<1>3. QED
  BY <1>1, <1>2, PTL DEF DecSpec

\* The invariant bounds every count by the length of the bitmap.
LEMMA InvariantTypes == DecIInv => DecTypeOK
<1> SUFFICES ASSUME DecIInv PROVE DecTypeOK
  OBVIOUS
<1>1. ASSUME NEW b \in Blocks PROVE held_counts[b] \in 0 .. TotalSymbols
  <2>1. held[b] \subseteq 0 .. TotalSymbols - 1
    BY DEF DecIInv, Shapes
  <2>2. TotalSymbols - 1 \in Int /\ 0 \in Int /\ TotalSymbols \in Nat
    BY LayoutAssumption
  <2>3. IsFiniteSet(0 .. TotalSymbols - 1)
        /\ Cardinality(0 .. TotalSymbols - 1) = TotalSymbols
    BY <2>2, LayoutAssumption, FS_Interval
  <2>4. Cardinality(held[b]) <= TotalSymbols
    BY <2>1, <2>3, FS_Subset
  <2>5. QED
    BY <2>2, <2>4 DEF DecIInv, Shapes, CountsBits
<1>2. QED
  BY <1>1 DEF DecIInv, Shapes, DecTypeOK

\* Type correctness: no frame makes a bitmap, a count or a block state leave
\* its type (accept, mark_held).
THEOREM DecoderTypes == DecSpec => []DecTypeOK
BY DecoderInvariant, InvariantTypes, PTL

\* For every layout and every fountain code, the bitmaps and the decoded
\* blocks are a function of the accepted stream (accept, mark_held): what a
\* replay of the journal relies on.
THEOREM StreamDetermines == DecSpec => []StreamDeterminesDecoder
<1>1. DecIInv => StreamDeterminesDecoder
  <2> SUFFICES ASSUME DecIInv PROVE StreamDeterminesDecoder
    OBVIOUS
  <2>1. held = HeldBy(journal)
    BY DEF DecIInv, HeldIsStream
  <2>2. \A b \in Blocks : data[b] # "pending" <=>
            (b \in EmptyBlocks \/ Solvable(b, StreamSymbols(journal, b)))
    BY DEF DecIInv, PendingUnsolved
  <2>3. QED
    BY <2>1, <2>2 DEF StreamDeterminesDecoder, DoneBy
<1>2. QED
  BY <1>1, DecoderInvariant, PTL

\* A saved decoder state is one the resume parser takes back: counts and
\* bitmaps agree and no bit is past the end (mark_held, BlockEntry::from_bytes).
THEOREM SavedStateAlwaysParses == DecSpec => []SavedStateParses
<1>1. DecIInv => SavedStateParses
  <2> SUFFICES ASSUME DecIInv PROVE SavedStateParses
    OBVIOUS
  <2>1. DOMAIN held = Blocks
    BY DEF DecIInv, Shapes
  <2>2. \A b \in Blocks : /\ held[b] \subseteq 0 .. TotalSymbols - 1
                          /\ held_counts[b] = Cardinality(held[b])
    BY DEF DecIInv, Shapes, CountsBits
  <2>3. QED
    BY <2>1, <2>2 DEF SavedStateParses, WellFormed, resume_state
<1>2. QED
  BY <1>1, DecoderInvariant, PTL
=============================================================================
