--------------------------------- MODULE Wire ---------------------------------
(***************************************************************************)
(* The three formats a receiver reads from outside: frames                  *)
(* (core/dhow-codec/src/frame.rs), session headers (session.rs) and resume  *)
(* files (resume.rs), each written by one side, damaged on the way and read *)
(* by the other.  The manifest has a module of its own.                     *)
(*                                                                         *)
(* A message is a record of its fields.  A checksum, a MAC and a digest are *)
(* the tuple of what they cover, so none of them collides; what they leave  *)
(* out is what this module is about.  Fields hold small numbers, and 9 is a *)
(* number no writer writes.  A bitmap is the set of its bits, and a byte    *)
(* has BITS of them.                                                        *)
(***************************************************************************)
EXTENDS Checks, FiniteSets, Functions

CONSTANTS
    BITS,          \* bits in a byte of a bitmap
    SymbolCounts,  \* the total_symbols_per_block sessions may have
    Payloads,      \* what frames carry: sequences of bytes
    MaxFaults      \* bound: changes on the way

ASSUME WireAssumption ==
    /\ BITS \in Nat \ {0}
    /\ SymbolCounts \subseteq Nat
    /\ \A p \in Payloads : p \in Seq(Range(p))
    /\ MaxFaults \in Nat

VARIABLES was, now, faults  \* the message as written, as it is, and the changes

wireVars == <<was, now, faults>>

Junk == 9
SessionKey == "key"

-----------------------------------------------------------------------------
(***************************************************************************)
(* Frames                                                                  *)
(***************************************************************************)

\* FrameHeader::new: the CRC is of the payload alone, and the MAC is not set yet.
FrameHeader(frame_type, session_id, block, symbol, payload) ==
    [kind |-> "frame", short |-> FALSE, magic |-> 0, version |-> 1, frame_type |-> frame_type,
     reserved |-> 0, session_id |-> session_id, block_index |-> block, symbol_index |-> symbol,
     payload_length |-> Len(payload), crc32c |-> payload, payload |-> payload, mac |-> <<>>]

\* Fault: the MAC leaves the payload length out.
compute_mac_lengthless(h, key) ==
    <<key, h.magic, h.version, h.frame_type, h.session_id, h.block_index, h.symbol_index>>

\* compute_mac: neither the reserved field nor the CRC, and so not the payload.
compute_mac(h, key) ==
    <<key, h.magic, h.version, h.frame_type, h.session_id, h.block_index, h.symbol_index,
      h.payload_length>>

\* Frame::build.
BuildFrame(h, key) == [h EXCEPT !.mac = compute_mac(h, key)]

\* The bytes of a payload a frame's length speaks for.
Carried(f) == SubSeq(f.payload, 1, IF f.payload_length < Len(f.payload) THEN f.payload_length
                                   ELSE Len(f.payload))

\* Frame::from_bytes, FrameHeader::from_bytes and FrameType::try_from.
FrameError(f) ==
    FirstError(<<When(f.short, "HeaderTooShort"), When(f.magic # 0, "InvalidMagic"),
                 When(f.version # 1, "UnsupportedVersion"),
                 When(f.frame_type \notin 0 .. 2, "UnknownFrameType"),
                 When(f.reserved # 0, "ReservedFieldNonZero"),
                 When(f.mac # compute_mac(f, SessionKey), "MacVerificationFailed"),
                 When(Len(f.payload) < f.payload_length, "Truncated"),
                 When(f.crc32c # Carried(f), "CrcMismatch")>>, "Ok")

\* Where a frame goes.
FrameTo(f) == <<f.frame_type, f.session_id, f.block_index, f.symbol_index>>

\* What the decoder is given: bytes past the payload are dropped.
FrameSays(f) == <<FrameTo(f), Carried(f)>>

-----------------------------------------------------------------------------
(***************************************************************************)
(* Session headers                                                         *)
(***************************************************************************)

\* The CRC covers everything from the version on.
SessionCrc(h) == <<h.version, h.reserved1, h.session_id, h.params, h.reserved2>>

\* SessionHeader::new and to_vec.
SessionHeader(session_id, params) ==
    LET h == [kind |-> "session", short |-> FALSE, magic |-> 0, version |-> 1, reserved1 |-> 0,
              session_id |-> session_id, params |-> params, reserved2 |-> 0, crc32c |-> <<>>]
    IN  [h EXCEPT !.crc32c = SessionCrc(h)]

\* SessionHeader::from_bytes: every error is InvalidParameters.  Whether the
\* parameters make sense is not asked here (validate), and bytes past the
\* header are ignored.
SessionError(h) ==
    FirstError(<<When(h.short, "too short"), When(h.magic # 0, "magic"),
                 When(h.version # 1, "version"), When(h.reserved1 # 0, "reserved"),
                 When(h.reserved2 # 0, "reserved 2"),
                 When(h.crc32c # SessionCrc(h), "crc")>>, "Ok")

SessionSays(h) == <<h.session_id, h.params>>

-----------------------------------------------------------------------------
(***************************************************************************)
(* Resume files                                                            *)
(***************************************************************************)

bitmap_bytes(count) == (count + BITS - 1) \div BITS

\* BlockEntry::new, of a bitmap with as many bytes as the symbols need.
BlockEntry(index, count, bitmap) ==
    [block_index |-> index, symbol_count |-> count, symbols_held |-> Cardinality(bitmap),
     bitmap |-> bitmap, bytes |-> bitmap_bytes(count)]

\* ResumeHeader::new: the CRC is of all before it, the digest of that and the
\* CRC.  Neither covers the entries.
ResumeCrc(h) ==
    <<h.magic, h.version, h.reserved1, h.session_id, h.block_count, h.journal_bytes,
      h.journal_digest, h.reserved2>>
ResumeDigest(h) == <<ResumeCrc(h), h.crc32c>>

\* ResumeFile::new and to_vec, for what PipelineDecoder::resume_state passes:
\* one entry per block, in order.
ResumeFile(session_id, journal_bytes, journal_digest, count, held) ==
    LET h == [kind |-> "resume", short |-> FALSE, magic |-> 0, version |-> 2, reserved1 |-> 0,
              session_id |-> session_id, block_count |-> Len(held),
              journal_bytes |-> journal_bytes, journal_digest |-> journal_digest,
              reserved2 |-> 0, crc32c |-> <<>>, integrity_digest |-> <<>>,
              entries |-> [i \in 1 .. Len(held) |-> BlockEntry(i - 1, count, held[i])]]
        c == [h EXCEPT !.crc32c = ResumeCrc(h)]
    IN  [c EXCEPT !.integrity_digest = ResumeDigest(c)]

\* ResumeHeader::from_bytes.
ResumeHeaderError(h) ==
    FirstError(<<When(h.short, "Truncated"), When(h.magic # 0, "InvalidMagic"),
                 When(h.version # 2, "UnsupportedVersion"),
                 When(h.reserved1 # 0, "ReservedNotZero"),
                 When(h.reserved2 # 0, "ReservedNotZero"),
                 When(h.crc32c # ResumeCrc(h), "IntegrityCheckFailed"),
                 When(h.integrity_digest # ResumeDigest(h), "IntegrityCheckFailed")>>, "Ok")

\* BlockEntry::from_bytes, and the index it must have.  An entry that claims
\* more or fewer bitmap bytes than were written ends short, leaves bytes over,
\* or makes the next one start inside another field, where its index is wrong.
BlockEntryError(e, index) ==
    FirstError(<<When(e.symbols_held > e.symbol_count, "InvalidSymbolCount"),
                 When(bitmap_bytes(e.symbol_count) # e.bytes, "Truncated"),
                 When(Cardinality(e.bitmap) # e.symbols_held, "HeldCountMismatch"),
                 When(\E bit \in e.bitmap : bit >= e.symbol_count, "InvalidSymbolCount"),
                 When(e.block_index # index, "BlockIndexOutOfRange")>>, "Ok")

\* ResumeFile::from_bytes: the declared blocks in order, and nothing after them.
ResumeError(f) ==
    IF ResumeHeaderError(f) # "Ok" THEN ResumeHeaderError(f)
    ELSE IF Len(f.entries) < f.block_count THEN "Truncated"
    ELSE FirstError([i \in 1 .. f.block_count |-> Pass(BlockEntryError(f.entries[i], i - 1))]
                        \o <<When(Len(f.entries) > f.block_count, "TrailingBytes")>>, "Ok")

\* Fault: the bitmaps are not compared.
verify_resume_file_bitless(f, d) ==
    /\ f.session_id = d.session_id
    /\ f.block_count = d.block_count
    /\ f.journal_digest = d.journal_digest

\* PipelineDecoder::verify_resume, for a decoder whose own file would be d.
verify_resume_file(f, d) ==
    /\ f.session_id = d.session_id
    /\ f.block_count = d.block_count
    /\ f.journal_digest = d.journal_digest
    /\ \A i \in DOMAIN f.entries :
        /\ f.entries[i].symbol_count = d.entries[i].symbol_count
        /\ f.entries[i].bitmap = d.entries[i].bitmap

ResumeSays(f) ==
    <<f.session_id, f.journal_bytes, f.journal_digest,
      [i \in DOMAIN f.entries |-> <<f.entries[i].symbol_count, f.entries[i].bitmap>>]>>

-----------------------------------------------------------------------------
(***************************************************************************)
(* Writing, damage, reading                                                *)
(***************************************************************************)

WrittenFrames ==
    {BuildFrame(FrameHeader(t, s, b, 0, p), SessionKey) :
        t \in 0 .. 2, s \in {1, 2}, b \in {0, 1}, p \in Payloads}
WrittenSessions == {SessionHeader(s, p) : s \in {1, 2}, p \in {1, 2}}
ResumesOf(count) ==
    {ResumeFile(s, n, n, count, held) :
        s \in {1, 2}, n \in {0, 1}, held \in [1 .. 2 -> SUBSET (0 .. count - 1)]}
WrittenResumes == UNION {ResumesOf(count) : count \in SymbolCounts}
Written == WrittenFrames \cup WrittenSessions \cup WrittenResumes

WireInit == was \in Written /\ now = was /\ faults = 0

\* The fields of a message that hold a number, and those made of others.
Numbers(m) ==
    DOMAIN m \cap {"magic", "version", "frame_type", "reserved", "reserved1", "reserved2",
                   "session_id", "block_index", "symbol_index", "payload_length", "params",
                   "block_count", "journal_bytes", "journal_digest"}
SumFields(m) == DOMAIN m \cap {"mac", "crc32c", "integrity_digest"}

\* A number changes, to that of another message or to none.
ChangeNumber ==
    \E x \in Numbers(now), v \in {0, 1, 2, Junk} :
        v # now[x] /\ now' = [now EXCEPT ![x] = v]

\* A check value changes.
ChangeSum == \E x \in SumFields(now) : now' = [now EXCEPT ![x] = <<Junk>>]

\* A frame's payload changes, is cut short or grows.
ChangePayload ==
    /\ now.kind = "frame"
    /\ \E p \in (Payloads \ {now.payload}) \cup {Append(now.payload, Junk)} :
            now' = [now EXCEPT !.payload = p]

\* A field of a block entry changes, a bit of its bitmap, or the whole entry goes.
ChangeEntry ==
    /\ now.kind = "resume"
    /\ \/ \E i \in DOMAIN now.entries :
            \/ \E x \in {"block_index", "symbol_count", "symbols_held"}, v \in 0 .. 4 :
                v # now.entries[i][x] /\ now' = [now EXCEPT !.entries[i][x] = v]
            \/ \E bit \in 0 .. (BITS * now.entries[i].bytes) - 1 :
                now' = [now EXCEPT !.entries[i].bitmap = (@ \ {bit}) \cup ({bit} \ @)]
       \/ now.entries # <<>> /\ now' = [now EXCEPT !.entries = Tail(@)]
       \/ now' = [now EXCEPT !.entries = Append(@, BlockEntry(Len(@), 0, {}))]

\* The message is cut inside its fixed part.
Cut == ~now.short /\ now' = [now EXCEPT !.short = TRUE]

\* Whoever changed it makes the sums that need no key right again.
Recompute ==
    /\ faults > 0
    /\ \/ now.kind = "frame" /\ now' = [now EXCEPT !.crc32c = Carried(now)]
       \/ now.kind = "session" /\ now' = [now EXCEPT !.crc32c = SessionCrc(now)]
       \/ now.kind = "resume"
          /\ now' = [now EXCEPT !.crc32c = ResumeCrc(now),
                                !.integrity_digest = <<ResumeCrc(now), ResumeCrc(now)>>]

WireNext ==
    /\ faults < MaxFaults
    /\ faults' = faults + 1
    /\ was' = was
    /\ ChangeNumber \/ ChangeSum \/ ChangePayload \/ ChangeEntry \/ Cut \/ Recompute

WireSpec == WireInit /\ [][WireNext]_wireVars

\* What the reader makes of a message, and what it then acts on.
Accepted(m) ==
    \/ m.kind = "frame" /\ FrameError(m) = "Ok"
    \/ m.kind = "session" /\ SessionError(m) = "Ok"
    \/ m.kind = "resume" /\ ResumeError(m) = "Ok"
Says(m) ==
    IF m.kind = "frame" THEN FrameSays(m)
    ELSE IF m.kind = "session" THEN SessionSays(m)
    ELSE ResumeSays(m)

-----------------------------------------------------------------------------
(***************************************************************************)
(* Properties                                                              *)
(***************************************************************************)

\* Whatever is changed in a frame, by whoever does not have the session key, a
\* frame that is accepted goes to the block and the symbol of a frame that was
\* sent in its session with that length (compute_mac).
FrameGoesWhereSent ==
    now.kind = "frame" /\ Accepted(now) =>
        \E f \in WrittenFrames :
            FrameTo(f) = FrameTo(now) /\ f.payload_length = now.payload_length

\* What one side writes the other takes, down to bitmaps that fill their last
\* byte and sessions without symbols, and one change to a frame, a session header
\* or a resume file is noticed or makes no difference, the block entries included,
\* which no checksum covers: those are noticed at the latest when a replay is
\* compared with them (from_bytes of all three, verify_resume_file).
OneFaultNoticed ==
    LET taken == Accepted(now) /\ (now.kind = "resume" => verify_resume_file(now, was))
    IN  /\ faults = 0 => taken
        /\ faults = 1 /\ taken => Says(now) = Says(was)
=============================================================================
