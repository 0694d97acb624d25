------------------------------- MODULE Decoder -------------------------------
(***************************************************************************)
(* The receiving half of the codec: PipelineDecoder of                     *)
(* core/dhow-codec/src/pipeline.rs with the frame parser it calls           *)
(* (frame.rs) and the resume record it publishes (resume.rs).               *)
(*                                                                         *)
(* A frame is a record of what the decoder looks at.  "intact" stands for   *)
(* Frame::from_bytes succeeding (magic, version, reserved, MAC, length and  *)
(* CRC32C); "sound" says whether the symbol bytes are those of the payload  *)
(* the sender committed to.  The two differ because the MAC covers header   *)
(* fields only and the payload is protected by a CRC alone, which is why    *)
(* finish checks a digest.  The rolling BLAKE3 over accepted frames is the  *)
(* sequence of those frames itself: no two streams share a digest.          *)
(*                                                                         *)
(* RaptorQ is a library, so what it does is stated here from how the code   *)
(* uses it: it ignores a packet whose symbol it has, and it yields a block  *)
(* once the symbols it has are solvable.  The symbol id RaptorQ reads inside *)
(* the payload is the one in the header, as the encoder writes both.        *)
(***************************************************************************)
EXTENDS Naturals, Sequences, FiniteSets, Functions

CONSTANTS
    Session,        \* the session id the decoder was created for
    Sessions,       \* every session id a frame or a resume file may carry
    NumBlocks,      \* blocks in the session's chunk map
    EmptyBlocks,    \* blocks of size zero
    TotalSymbols,   \* total_symbols_per_block, the length of a bitmap
    Frames,         \* every frame the medium may hand to the decoder
    Solvable(_, _), \* RaptorQ can solve this block from these symbols
    MaxJournal      \* bound: frames accepted by one decoder

PAYLOAD_ID_BYTES == 4
Blocks == 0 .. NumBlocks - 1

FrameType == [intact: BOOLEAN, session: Sessions, repair: BOOLEAN,
              block: Nat, symbol: Nat, length: Nat, sound: BOOLEAN]

ASSUME SessionAssumption == Session \in Sessions
ASSUME LayoutAssumption ==
    /\ NumBlocks \in Nat \ {0}
    /\ TotalSymbols \in Nat \ {0}
    /\ EmptyBlocks \subseteq Blocks
ASSUME FramesAssumption == Frames \subseteq FrameType
ASSUME BoundAssumption == MaxJournal \in Nat

\* Every symbol index a frame for the block may carry.
SymbolsOf(b) == {f.symbol : f \in {g \in Frames : g.block = b}}

\* A fountain code never gets worse with more symbols, and nothing decodes
\* from no symbols.
ASSUME SolvableAssumption ==
    \A b \in Blocks :
        /\ \A S \in SUBSET SymbolsOf(b) : Solvable(b, S) \in BOOLEAN
        /\ ~Solvable(b, {})
        /\ \A S, T \in SUBSET SymbolsOf(b) :
              S \subseteq T /\ Solvable(b, S) => Solvable(b, T)

VARIABLES
    held,        \* held: the bitmap of symbol indices seen, per block
    held_counts, \* held_counts: distinct symbol indices held, per block
    packets,     \* BlockState::Pending: the packets RaptorQ has, per block
    data,        \* BlockState::Done: what the block decoded to, per block
    journal      \* journal: the accepted frames, in order (their digest)

decVars == <<held, held_counts, packets, data, journal>>

Packet == [symbol: Nat, sound: BOOLEAN]

\* What a block holds: nothing yet, the payload's bytes, or other bytes.
BlockData == {"pending", "right", "wrong"}

\* The state PipelineDecoder::new builds.  An empty block is done on arrival.
NewHeld    == [b \in Blocks |-> {}]
NewCounts  == [b \in Blocks |-> 0]
NewPackets == [b \in Blocks |-> {}]
NewData    == [b \in Blocks |-> IF b \in EmptyBlocks THEN "right" ELSE "pending"]

DecInit ==
    /\ held = NewHeld
    /\ held_counts = NewCounts
    /\ packets = NewPackets
    /\ data = NewData
    /\ journal = <<>>

\* A fresh decoder replaces whatever the last process had.
NewDecoder ==
    /\ held' = NewHeld
    /\ held_counts' = NewCounts
    /\ packets' = NewPackets
    /\ data' = NewData
    /\ journal' = <<>>

-----------------------------------------------------------------------------
(***************************************************************************)
(* accept                                                                  *)
(***************************************************************************)

\* Frame::from_bytes: the frame parses and authenticates.
from_bytes(f) == f.intact

\* Every check accept makes before it touches any state.
Admissible(f) ==
    /\ from_bytes(f)
    /\ f.session = Session
    /\ f.repair
    /\ f.block \in Blocks
    /\ f.length > PAYLOAD_ID_BYTES

\* Fault: a bit that is already set is counted again.
mark_held_recounts(b, s) ==
    IF s < TotalSymbols
    THEN /\ held' = [held EXCEPT ![b] = @ \cup {s}]
         /\ held_counts' = [held_counts EXCEPT ![b] = @ + 1]
    ELSE UNCHANGED <<held, held_counts>>

\* mark_held: an index outside the bitmap is ignored, a set bit stays set.
mark_held(b, s) ==
    IF s < TotalSymbols /\ s \notin held[b]
    THEN /\ held' = [held EXCEPT ![b] = @ \cup {s}]
         /\ held_counts' = [held_counts EXCEPT ![b] = @ + 1]
    ELSE UNCHANGED <<held, held_counts>>

\* RaptorQ's add_new_packet: a symbol it already has is dropped.
AddPacket(P, f) ==
    IF \E p \in P : p.symbol = f.symbol
    THEN P
    ELSE P \cup {[symbol |-> f.symbol, sound |-> f.sound]}

SymbolsIn(P) == {p.symbol : p \in P}

\* The bytes RaptorQ returns are the payload's only if every symbol was.
Solution(P) == IF \A p \in P : p.sound THEN "right" ELSE "wrong"

\* The block is already Done: the frame is recorded, its symbol is not used.
Redundant(f) ==
    /\ data[f.block] # "pending"
    /\ UNCHANGED <<packets, data>>

\* The block is Pending: add the packet and ask RaptorQ for a result.
TakeSymbol(f) ==
    LET b == f.block
        P == AddPacket(packets[b], f)
    IN  /\ data[b] = "pending"
        /\ IF Solvable(b, SymbolsIn(P))
           THEN /\ data' = [data EXCEPT ![b] = Solution(P)]
                /\ packets' = [packets EXCEPT ![b] = {}]
           ELSE /\ packets' = [packets EXCEPT ![b] = P]
                /\ UNCHANGED data

\* Fault: the early return for a decoded block comes before mark_held.
Accept_early_return(f) ==
    /\ Admissible(f)
    /\ journal' = Append(journal, f)
    /\ \/ Redundant(f) /\ UNCHANGED <<held, held_counts>>
       \/ TakeSymbol(f) /\ mark_held(f.block, f.symbol)

\* accept returning Ok: bitmap and digest are updated for every such frame,
\* the redundant ones included.
Accept(f) ==
    /\ Admissible(f)
    /\ mark_held(f.block, f.symbol)
    /\ journal' = Append(journal, f)
    /\ Redundant(f) \/ TakeSymbol(f)

\* accept returning an error: nothing changed.
Reject(f) ==
    /\ ~Admissible(f)
    /\ UNCHANGED decVars

-----------------------------------------------------------------------------
(***************************************************************************)
(* What the decoder answers                                                *)
(***************************************************************************)

is_complete == \A b \in Blocks : data[b] # "pending"

\* Fault: the digest is not compared.
finish_unchecked == IF is_complete THEN "payload" ELSE "incomplete"

\* finish: the reassembled payload, checked against the session digest.
finish ==
    IF ~is_complete THEN "incomplete"
    ELSE IF \E b \in Blocks : data[b] = "wrong" THEN "mismatch" ELSE "payload"

\* resume_state: the resume file for a journal of the given length.
resume_state(journal_bytes) ==
    [session |-> Session, journal_bytes |-> journal_bytes, digest |-> journal,
     symbol_count |-> TotalSymbols, held |-> held, held_counts |-> held_counts]

\* ResumeFile::from_bytes on a file that passed its own digest: a block's
\* declared count is the number of bits set, and no bit is past the end.
WellFormed(st) ==
    \A b \in DOMAIN st.held :
        /\ st.held[b] \subseteq 0 .. st.symbol_count - 1
        /\ st.held_counts[b] = Cardinality(st.held[b])

\* verify_resume: does the decoder hold what the resume file says?
verify_resume(st) ==
    /\ st.session = Session
    /\ DOMAIN st.held = Blocks
    /\ st.digest = journal
    /\ st.symbol_count = TotalSymbols
    /\ st.held = held

-----------------------------------------------------------------------------
DecNext ==
    /\ Len(journal) < MaxJournal
    /\ \E f \in Frames : Accept(f) \/ Reject(f)

DecSpec == DecInit /\ [][DecNext]_decVars

-----------------------------------------------------------------------------
(***************************************************************************)
(* Properties                                                              *)
(***************************************************************************)

\* The decoder's variables hold values of their Rust types.
DecTypeOK ==
    /\ held \in [Blocks -> SUBSET (0 .. TotalSymbols - 1)]
    /\ held_counts \in [Blocks -> 0 .. TotalSymbols]
    /\ packets \in [Blocks -> SUBSET Packet]
    /\ data \in [Blocks -> BlockData]
    /\ journal \in Seq(Frames)

\* The symbols of block b in a stream of frames.
StreamSymbols(j, b) == {f.symbol : f \in {g \in Range(j) : g.block = b}}

\* The symbols among them whose bytes are the payload's.
SoundSymbols(j, b) == {f.symbol : f \in {g \in Range(j) : g.block = b /\ g.sound}}

\* What a decoder must hold, and have decoded, after a stream.
HeldBy(j) == [b \in Blocks |-> {s \in StreamSymbols(j, b) : s < TotalSymbols}]
DoneBy(j) == {b \in Blocks : b \in EmptyBlocks \/ Solvable(b, StreamSymbols(j, b))}

\* The bitmaps and the set of decoded blocks are a function of the accepted
\* stream alone, whatever the order and the duplicates: the reason replaying
\* a journal into a fresh decoder restores the one that was lost
\* (accept, mark_held).
StreamDeterminesDecoder ==
    /\ held = HeldBy(journal)
    /\ {b \in Blocks : data[b] # "pending"} = DoneBy(journal)

\* symbols_held is the number of bits set, so that a resume file built from
\* the two is one ResumeFile::from_bytes takes back (mark_held against
\* BlockEntry::from_bytes).
SavedStateParses == WellFormed(resume_state(0))
=============================================================================
