--------------------------- MODULE ReceiverProofs ---------------------------
(***************************************************************************)
(* The receiver's files and its decoder, for every layout, every set of     *)
(* frames, any number of runs, kills, power losses, failing calls and       *)
(* changes to the state directory.                                          *)
(***************************************************************************)
EXTENDS ReceiverRefinement, DecoderProofs

\* A journal record is a frame, or what rot made of one.
StoredFrame == Frames \cup {f \in FrameType : ~f.intact}
JournalImage == [exists: BOOLEAN, recs: Seq(StoredFrame), torn: BOOLEAN]

\* What an index may hold, whatever happened to it: no tampering changes the
\* digest or the length, so both are those of one Save.
Recorded == {st \in IndexFile : /\ st.state.digest \in saves
                                /\ st.state.journal_bytes = RECORD * Len(st.state.digest)}
IndexImage(i) == i \subseteq Recorded /\ \A s, t \in i : s = t

PCs == Receiving \cup {"off", "replay", "append", "discardIndex"}
Exits == {"none", "ok", "input", "verify", "incomplete", "killed"}
SavingPCs == {"sync", "tmp", "rename"}

ProcShapes ==
    /\ pc \in PCs
    /\ exit \in Exits
    /\ accepted \in Nat /\ written \in Nat
    /\ seen \subseteq Frames
    /\ final \in BOOLEAN

CountShapes ==
    /\ runs \in Nat /\ kills \in Nat /\ losses \in Nat
    /\ faults \in Nat /\ tampers \in Nat

FileShapes ==
    /\ jrn \in jImgs /\ jImgs \subseteq JournalImage
    /\ idx \in iImgs /\ \A i \in iImgs : IndexImage(i)
    /\ outDir \in oImgs /\ oImgs \subseteq OutDirs
    /\ lastSaved \in Seq(Frames) /\ saves \subseteq Seq(Frames)

\* Between runs there is no decoder to speak of.
Fresh ==
    pc = "off" => DecInit /\ accepted = 0 /\ seen = {} /\ written = 0

\* A replay has read some of the records the index covers, and they are there.
Replaying ==
    pc = "replay" =>
        /\ accepted = 0
        /\ jrn.exists
        /\ \E st \in idx : /\ idx = {st}
                           /\ st.state.journal_bytes <= JLen(jrn)
                           /\ Len(journal) <= Len(st.state.digest)
        /\ journal = SubSeq(jrn.recs, 1, Len(journal))

\* What Save was called with is what the decoder still is; the journal was
\* flushed before the index is written; only the last save of a run may come
\* before its first frame.
Saving ==
    /\ pc \in SavingPCs =>
          /\ saving = {[readable |-> TRUE, state |-> resume_state(written)]}
          /\ final \/ accepted > 0
    /\ pc \notin SavingPCs => saving = {} /\ final = FALSE
    /\ pc \in {"tmp", "rename"} => jImgs = {jrn}
    /\ pc = "append" => accepted > 0

\* Only admissible frames are in the stream.
StreamAdmissible == \A k \in DOMAIN journal : Admissible(journal[k])

\* While the output may still turn out absent, any journal and any index a
\* power loss leaves fit together, and no index left behind covers more than
\* the visible one.
Durable ==
    tampers = 0 /\ "absent" \in oImgs =>
        /\ \A j \in jImgs, i \in iImgs : \A st \in i : Restorable(j, st)
        /\ \A i \in iImgs : \A s \in i :
              \E st \in idx : Len(s.state.digest) <= Len(st.state.digest)

\* The visible index is the last one saved.
LastIsIndex ==
    losses = 0 /\ tampers = 0 /\ outDir = "absent" =>
        /\ idx = {} => lastSaved = <<>>
        /\ \A st \in idx : st.state.digest = lastSaved

\* When the output is there, and what was known when it was made.
Output ==
    /\ outDir = "absent" => oImgs = {"absent"}
    /\ pc \in {"extract", "publish"} => \A b \in Blocks : data[b] = "right"
    /\ pc = "publish" => outDir = "absent"
    /\ pc \in {"reconcile", "discard", "discardIndex"} => outDir # "absent"
    /\ pc = "discardIndex" => "absent" \notin oImgs

Staging ==
    /\ staged \in Nat
    /\ pc = "publish" => staged > 0
    /\ StagingAccounted

Shaped == DecIInv /\ ProcShapes /\ CountShapes /\ FileShapes

RecvIInv ==
    /\ Shaped
    /\ Fresh /\ JournalMirrorsDecoder /\ Replaying /\ Saving /\ StreamAdmissible
    /\ Durable /\ LastIsIndex /\ ResumesOnlySavedStreams /\ NoSaveLost
    /\ Output /\ Staging

-----------------------------------------------------------------------------
\* A frame that was not rotten is one the medium carries.
LEMMA AdmissibleStored ==
    ASSUME NEW f \in StoredFrame, Admissible(f)
    PROVE  f \in Frames
BY DEF StoredFrame, Admissible, from_bytes

\* The length of a journal, with or without a torn record at its end.
LEMMA JournalLength ==
    ASSUME NEW j \in JournalImage
    PROVE  /\ JLen(j) \in Nat
           /\ JLen(j) <= 2 * Len(j.recs) + 1 /\ JLen(j) >= 2 * Len(j.recs)
           /\ ~j.torn => JLen(j) = 2 * Len(j.recs)
<1>1. Len(j.recs) \in Nat
  BY DEF JournalImage
<1>2. CASE j.torn
  BY <1>1, <1>2 DEF JLen, RECORD
<1>3. CASE ~j.torn
  BY <1>1, <1>3 DEF JLen, RECORD
<1>4. QED
  BY <1>2, <1>3

\* The record a replay reads next is in the journal: the covered length was
\* compared with the journal's before the replay began.
LEMMA NextRecordStored ==
    ASSUME Shaped, Replaying, pc = "replay", NEW st \in idx,
           Offset + RECORD <= st.state.journal_bytes
    PROVE  /\ Len(journal) + 1 \in DOMAIN jrn.recs
           /\ NextRecord \in StoredFrame
<1>1. jrn \in JournalImage /\ jrn.recs \in Seq(StoredFrame) /\ jrn.torn \in BOOLEAN
  BY DEF Shaped, FileShapes, JournalImage
<1>2. st.state.journal_bytes <= JLen(jrn)
  BY DEF Replaying
<1>3. st.state.journal_bytes \in Nat /\ Len(journal) \in Nat /\ Len(jrn.recs) \in Nat
  BY <1>1 DEF Shaped, FileShapes, IndexImage, Recorded, IndexFile, ResumeState, DecIInv, Shapes
<1>4. Len(journal) + 1 <= Len(jrn.recs)
  <2>1. JLen(jrn) <= 2 * Len(jrn.recs) + 1 /\ JLen(jrn) \in Nat
    BY <1>1, JournalLength
  <2>2. 2 * Len(journal) + 2 <= st.state.journal_bytes
    BY DEF Offset, RECORD
  <2>3. QED
    BY <1>2, <1>3, <2>1, <2>2
<1>5. QED
  BY <1>1, <1>3, <1>4 DEF NextRecord

\* What a step does to the decoder: nothing, replace it, or accept a frame.
LEMMA DecoderStep ==
    ASSUME Shaped, Replaying, RecvNext
    PROVE  UNCHANGED decVars \/ NewDecoder \/ \E f \in Frames : Accept(f)
<1>1. CASE ReplayRecord
  <2>1. PICK st \in idx : Offset + RECORD <= st.state.journal_bytes /\ Accept(NextRecord)
    BY <1>1 DEF ReplayRecord
  <2>2. NextRecord \in Frames
    BY <1>1, <2>1, NextRecordStored, AdmissibleStored DEF ReplayRecord, Accept
  <2>3. QED
    BY <2>1, <2>2
<1>2. ASSUME NEW f \in Frames, Receive(f) PROVE UNCHANGED decVars \/ Accept(f)
  BY <1>2 DEF Receive, Reject
<1>3. CASE Start \/ ReplayFails \/ ReplayEnds \/ RestoreFails
  BY <1>3 DEF Start, ReplayFails, ReplayEnds, RestoreFails, Refuse, ProcessEnds
<1>4. CASE AppendRecord \/ SaveSync \/ SaveTmp \/ SaveRename \/ StreamEnds \/ Tamper
  BY <1>4 DEF AppendRecord, SaveSync, SaveTmp, SaveRename, StreamEnds, Tamper
<1>5. CASE Finish \/ Stage \/ Publish \/ Reconcile \/ DiscardJournal \/ DiscardIndex
  BY <1>5 DEF Finish, Stage, Publish, Reconcile, DiscardJournal, DiscardIndex,
              Return, ProcessEnds
<1>6. CASE \/ AppendFails \/ SaveFails \/ SourceFails \/ ExtractFails \/ DiscardFails
           \/ Kill \/ PowerLoss
  BY <1>6 DEF AppendFails, SaveFails, SourceFails, ExtractFails, DiscardFails, Kill,
              PowerLoss, Return, ProcessEnds
<1>7. QED
  BY <1>1, <1>2, <1>3, <1>4, <1>5, <1>6 DEF RecvNext, Step, Fault

\* Replacing the decoder by a new one is a return to its initial state.
LEMMA NewDecoderIsInit == NewDecoder => DecInit'
BY DEF NewDecoder, DecInit

LEMMA FreshDecoder == DecInit' => DecIInv'
<1>1. DecInit => DecIInv
  BY NewDecoderInvariant
<1>2. QED
  BY <1>1, PTL

LEMMA DecoderKept ==
    ASSUME Shaped, Replaying, StreamAdmissible, [RecvNext]_vars
    PROVE  DecIInv' /\ StreamAdmissible'
<1>1. CASE UNCHANGED decVars
  <2>1. journal' = journal
    BY <1>1 DEF decVars
  <2>2. StreamAdmissible'
    BY <2>1 DEF StreamAdmissible, Admissible, from_bytes
  <2>3. QED
    BY <1>1, <2>2, IdleInvariant DEF Shaped
<1>2. CASE NewDecoder
  <2>1. DecIInv'
    BY <1>2, NewDecoderIsInit, FreshDecoder
  <2>2. QED
    BY <1>2, <2>1 DEF NewDecoder, StreamAdmissible
<1>3. ASSUME NEW f \in Frames, Accept(f) PROVE DecIInv' /\ StreamAdmissible'
  <2>1. DecIInv'
    BY <1>3, AcceptInvariant DEF Shaped
  <2>2. journal \in Seq(Frames) /\ journal' = Append(journal, f) /\ Admissible(f)
    BY <1>3 DEF Accept, Shaped, DecIInv, Shapes
  <2>3. QED
    BY <2>1, <2>2 DEF StreamAdmissible, Admissible, from_bytes
<1>4. QED
  BY <1>1, <1>2, <1>3, DecoderStep DEF vars

-----------------------------------------------------------------------------
\* No step takes a counter out of its type.
LEMMA CountsKept ==
    ASSUME CountShapes, [RecvNext]_vars
    PROVE  CountShapes'
<1> USE DEF CountShapes, countVars
<1>1. CASE Start \/ ReplayRecord \/ ReplayFails \/ ReplayEnds \/ RestoreFails
  BY <1>1 DEF Start, ReplayRecord, ReplayFails, ReplayEnds, RestoreFails
<1>2. CASE \/ \E f \in Frames : Receive(f)
           \/ AppendRecord \/ SaveSync \/ SaveTmp \/ SaveRename \/ StreamEnds
  BY <1>2 DEF Receive, AppendRecord, SaveSync, SaveTmp, SaveRename, StreamEnds
<1>3. CASE Finish \/ Stage \/ Publish \/ Reconcile \/ DiscardJournal \/ DiscardIndex
  BY <1>3 DEF Finish, Stage, Publish, Reconcile, DiscardJournal, DiscardIndex
<1>4. CASE AppendFails \/ SaveFails \/ SourceFails \/ ExtractFails \/ DiscardFails
  BY <1>4 DEF AppendFails, SaveFails, SourceFails, ExtractFails, DiscardFails
<1>5. CASE Kill \/ PowerLoss \/ Tamper
  BY <1>5 DEF Kill, PowerLoss, Tamper
<1>6. CASE UNCHANGED vars
  BY <1>6 DEF vars
<1>7. QED
  BY <1>1, <1>2, <1>3, <1>4, <1>5, <1>6 DEF RecvNext, Step, Fault

\* A process that ends leaves its variables as Start wants them.
LEMMA EndedShapes ==
    ASSUME NEW how \in Exits, ProcessEnds(how)
    PROVE  ProcShapes' /\ pc' = "off"
BY DEF ProcessEnds, ProcShapes, PCs, Exits

\* What a step does to the process: end it, leave it alone, or move it on.
Moves ==
    /\ pc' \in PCs \ {"off"}
    /\ exit' \in {exit, "none"}
    /\ accepted' \in {accepted, accepted + 1}
    /\ \/ seen' = seen
       \/ \E f \in Frames : seen' = seen \cup {f}
    /\ final' \in {final, TRUE, FALSE}
    /\ \/ written' \in {0, written, written + RECORD}
       \/ \E st \in idx : written' = st.state.journal_bytes

LEMMA ProcessStep ==
    ASSUME ProcShapes, RecvNext
    PROVE  UNCHANGED procVars \/ Moves \/ \E how \in Exits : ProcessEnds(how)
<1> USE DEF Moves, PCs, Receiving, Exits
<1>1. CASE Start \/ ReplayRecord \/ ReplayFails \/ ReplayEnds \/ RestoreFails
  BY <1>1 DEF Start, ReplayRecord, ReplayFails, ReplayEnds, RestoreFails, Refuse,
              Begin, procVars
<1>2. ASSUME NEW f \in Frames, Receive(f) PROVE UNCHANGED procVars \/ Moves
  BY <1>2 DEF Receive, procVars
<1>3. CASE AppendRecord \/ SaveSync \/ SaveTmp \/ SaveRename \/ StreamEnds
  BY <1>3 DEF AppendRecord, SaveSync, SaveTmp, SaveRename, StreamEnds, BeginSave,
              ApplyReturns
<1>4. CASE Finish \/ Stage \/ Publish \/ Reconcile \/ DiscardJournal \/ DiscardIndex
  BY <1>4 DEF Finish, Stage, Publish, Reconcile, DiscardJournal, DiscardIndex, Return
<1>5. CASE AppendFails \/ SaveFails \/ SourceFails \/ ExtractFails \/ DiscardFails
  BY <1>5 DEF AppendFails, SaveFails, SourceFails, ExtractFails, DiscardFails, Return
<1>6. CASE Kill \/ PowerLoss \/ Tamper
  BY <1>6 DEF Kill, PowerLoss, Tamper
<1>7. QED
  BY <1>1, <1>2, <1>3, <1>4, <1>5, <1>6 DEF RecvNext, Step, Fault

LEMMA ProcessKept ==
    ASSUME ProcShapes, FileShapes, [RecvNext]_vars
    PROVE  ProcShapes'
<1>1. CASE UNCHANGED procVars
  BY <1>1 DEF ProcShapes, procVars
<1>2. CASE Moves
  <2>1. pc' \in PCs /\ exit' \in Exits /\ accepted' \in Nat /\ seen' \subseteq Frames
    BY <1>2 DEF Moves, ProcShapes, Exits
  <2>2. final' \in BOOLEAN
    BY <1>2 DEF Moves, ProcShapes
  <2>3. \A st \in idx : st.state.journal_bytes \in Nat
    BY DEF FileShapes, IndexImage, Recorded, IndexFile, ResumeState
  <2>4. written' \in Nat
    BY <1>2, <2>3 DEF Moves, ProcShapes, RECORD
  <2>5. QED
    BY <2>1, <2>2, <2>4 DEF ProcShapes
<1>3. CASE \E how \in Exits : ProcessEnds(how)
  BY <1>3, EndedShapes
<1>4. QED
  BY <1>1, <1>2, <1>3, ProcessStep DEF vars

-----------------------------------------------------------------------------
\* What the operations on a journal make of one.
LEMMA JournalMarked ==
    ASSUME NEW j \in JournalImage
    PROVE  /\ [j EXCEPT !.torn = TRUE] \in JournalImage
           /\ [j EXCEPT !.exists = TRUE] \in JournalImage
BY DEF JournalImage

LEMMA JournalCut ==
    ASSUME NEW j \in JournalImage, NEW n \in Nat, n <= Len(j.recs), NEW t \in BOOLEAN
    PROVE  [exists |-> TRUE, recs |-> SubSeq(j.recs, 1, n), torn |-> t] \in JournalImage
<1>1. SubSeq(j.recs, 1, n) \in Seq(StoredFrame)
  BY DEF JournalImage
<1>2. QED
  BY <1>1 DEF JournalImage

LEMMA JournalGrown ==
    ASSUME NEW j \in JournalImage, NEW f \in Frames
    PROVE  /\ [j EXCEPT !.recs = Append(@, f)] \in JournalImage
           /\ [j EXCEPT !.recs = Append(@, f)].recs = Append(j.recs, f)
           /\ [j EXCEPT !.recs = Append(@, f)].exists = j.exists
           /\ [j EXCEPT !.recs = Append(@, f)].torn = j.torn
<1>1. j.recs \in Seq(StoredFrame) /\ f \in StoredFrame
  BY DEF JournalImage, StoredFrame
<1>2. Append(j.recs, f) \in Seq(StoredFrame)
  BY <1>1
<1>3. QED
  BY <1>2 DEF JournalImage

LEMMA NoJournalImage == NoJournal \in JournalImage
<1>1. <<>> \in Seq(StoredFrame)
  OBVIOUS
<1>2. FALSE \in BOOLEAN
  OBVIOUS
<1>3. QED
  BY <1>1, <1>2, Zenon DEF NoJournal, JournalImage

LEMMA JournalDamaged ==
    ASSUME NEW j \in JournalImage
    PROVE  DamagedJournals(j) \subseteq JournalImage
<1>1. ASSUME NEW i \in DOMAIN j.recs
      PROVE  [j EXCEPT !.recs[i].intact = FALSE] \in JournalImage
  <2>1. j.recs[i] \in FrameType
    BY FramesAssumption DEF JournalImage, StoredFrame
  <2>2. [j.recs[i] EXCEPT !.intact = FALSE] \in StoredFrame
    BY <2>1 DEF FrameType, StoredFrame
  <2>3. [j.recs EXCEPT ![i] = [j.recs[i] EXCEPT !.intact = FALSE]] \in Seq(StoredFrame)
    BY <2>2 DEF JournalImage
  <2>4. QED
    BY <2>3 DEF JournalImage
<1>2. ASSUME NEW n \in 0 .. Len(j.recs)
      PROVE  [j EXCEPT !.recs = SubSeq(@, 1, n), !.torn = FALSE] \in JournalImage
  <2>1. SubSeq(j.recs, 1, n) \in Seq(StoredFrame)
    BY DEF JournalImage
  <2>2. QED
    BY <2>1 DEF JournalImage
<1>3. [j EXCEPT !.recs = [i \in DOMAIN @ |-> @[Len(@) + 1 - i]]] \in JournalImage
  <2>1. j.recs \in Seq(StoredFrame) /\ Len(j.recs) \in Nat /\ DOMAIN j.recs = 1 .. Len(j.recs)
    BY DEF JournalImage
  <2>2. \A i \in 1 .. Len(j.recs) : j.recs[Len(j.recs) + 1 - i] \in StoredFrame
    BY <2>1
  <2>3. [i \in DOMAIN j.recs |-> j.recs[Len(j.recs) + 1 - i]] \in Seq(StoredFrame)
    BY <2>1, <2>2
  <2>4. QED
    BY <2>3 DEF JournalImage
<1>4. QED
  BY <1>1, <1>2, <1>3, NoJournalImage DEF DamagedJournals

\* No damage makes an index describe another stream or another length.
LEMMA IndexDamaged ==
    ASSUME NEW st \in Recorded, NEW d \in DamagedIndexes(st)
    PROVE  d \in Recorded
<1>0. /\ st \in IndexFile /\ st.state \in ResumeState
      /\ st.state.digest \in saves
      /\ st.state.journal_bytes = RECORD * Len(st.state.digest)
  BY DEF Recorded, IndexFile
<1>1. CASE d = [st EXCEPT !.readable = FALSE]
  BY <1>0, <1>1 DEF Recorded, IndexFile
<1>2. ASSUME NEW s \in Sessions, d = [st EXCEPT !.state.session = s]
      PROVE  d \in Recorded
  BY <1>0, <1>2 DEF Recorded, IndexFile, ResumeState
<1>3. ASSUME NEW b \in Blocks, NEW s, NEW t \in 0 .. TotalSymbols - 1,
             d = [st EXCEPT !.state.held[b] = (@ \ {s}) \cup {t}]
      PROVE  d \in Recorded
  <2>1. st.state.held \in [Blocks -> SUBSET (0 .. TotalSymbols - 1)]
    BY <1>0 DEF ResumeState
  <2>2. [st.state.held EXCEPT ![b] = (@ \ {s}) \cup {t}]
          \in [Blocks -> SUBSET (0 .. TotalSymbols - 1)]
    BY <2>1
  <2>3. QED
    BY <1>0, <1>3, <2>2 DEF Recorded, IndexFile, ResumeState
<1>4. ASSUME d \in RottenBitmaps(st)
      PROVE  d \in Recorded
  <2>1. \E b \in Blocks : \E s : \E t \in 0 .. TotalSymbols - 1 :
            d = [st EXCEPT !.state.held[b] = (@ \ {s}) \cup {t}]
    BY <1>4 DEF RottenBitmaps
  <2>2. QED
    BY <2>1, <1>3, Zenon
<1>5. QED
  BY <1>1, <1>2, <1>4 DEF DamagedIndexes

-----------------------------------------------------------------------------
\* What the typing part says of the visible files.
LEMMA VisibleFiles ==
    ASSUME FileShapes
    PROVE  /\ jrn \in JournalImage /\ jrn.recs \in Seq(StoredFrame)
           /\ Len(jrn.recs) \in Nat
           /\ \A st \in idx :
                 /\ st \in Recorded /\ st.state.digest \in Seq(Frames)
                 /\ Len(st.state.digest) \in Nat
                 /\ st.state.journal_bytes = RECORD * Len(st.state.digest)
BY DEF FileShapes, IndexImage, Recorded, JournalImage

\* Begin at the end of the n-th record.
LEMMA BeginCuts ==
    ASSUME NEW n \in Nat, NEW covered, covered = RECORD * n, Begin(covered)
    PROVE  /\ jrn' = [exists |-> TRUE, recs |-> SubSeq(jrn.recs, 1, n), torn |-> FALSE]
           /\ jImgs' = jImgs \cup {jrn'}
           /\ written' = 2 * n
<1>1. covered \div RECORD = n /\ covered % RECORD = 0 /\ covered = 2 * n
  BY DEF RECORD
<1>2. QED
  BY <1>1 DEF Begin

\* Begin with nothing to keep.
LEMMA BeginEmpty ==
    ASSUME Begin(0)
    PROVE  /\ jrn' = [exists |-> TRUE, recs |-> <<>>, torn |-> FALSE]
           /\ jrn' \in JournalImage
           /\ jImgs' = jImgs \cup {jrn'}
           /\ written' = 0
<1>1. 0 \div RECORD = 0 /\ 0 % RECORD = 0
  BY DEF RECORD
<1>2. SubSeq(jrn.recs, 1, 0) = <<>>
  OBVIOUS
<1>3. jrn' = [exists |-> TRUE, recs |-> <<>>, torn |-> FALSE]
  BY <1>1, <1>2 DEF Begin
<1>4. <<>> \in Seq(StoredFrame) /\ TRUE \in BOOLEAN /\ FALSE \in BOOLEAN
  OBVIOUS
<1>5. jrn' \in JournalImage
  BY <1>3, <1>4, Zenon DEF JournalImage
<1>6. QED
  BY <1>3, <1>5 DEF Begin

\* The covered length of an index that a replay has reached the end of.
LEMMA ReplayedLength ==
    ASSUME Shaped, Replaying, pc = "replay", NEW st \in idx
    PROVE  /\ Len(st.state.digest) <= Len(jrn.recs)
           /\ Len(journal) <= Len(st.state.digest)
           /\ Len(journal) <= Len(jrn.recs)
           /\ Offset >= st.state.journal_bytes => Len(journal) = Len(st.state.digest)
<1>1. /\ Len(jrn.recs) \in Nat /\ Len(st.state.digest) \in Nat
      /\ st.state.journal_bytes = 2 * Len(st.state.digest)
  BY VisibleFiles DEF Shaped, RECORD
<1>2. JLen(jrn) <= 2 * Len(jrn.recs) + 1 /\ JLen(jrn) \in Nat
  BY VisibleFiles, JournalLength DEF Shaped
<1>3. st.state.journal_bytes <= JLen(jrn) /\ Len(journal) <= Len(st.state.digest)
  BY DEF Replaying
<1>4. Len(journal) \in Nat
  BY DEF Shaped, DecIInv, Shapes
<1>5. Offset = 2 * Len(journal)
  BY DEF Offset, RECORD
<1>6. QED
  BY <1>1, <1>2, <1>3, <1>4, <1>5

\* What a step does to the journal and to what a power loss may leave of it.
Rewrites(j) == jrn' = j /\ jImgs' \in {{j}, jImgs \cup {j}}

LEMMA JournalStep ==
    ASSUME Shaped, Replaying, JournalMirrorsDecoder, RecvNext
    PROVE  \/ UNCHANGED <<jrn, jImgs>>
           \/ AppendRecord \/ DiscardJournal
           \/ \E j \in JournalImage : Rewrites(j)
           \/ jrn' \in jImgs /\ jImgs' = {jrn'}
<1>0. jrn \in JournalImage /\ Len(jrn.recs) \in Nat
  BY VisibleFiles DEF Shaped
<1>1. CASE Start
  <2>1. CASE Begin(0)
    <3>1. jrn' \in JournalImage /\ jImgs' = jImgs \cup {jrn'}
      BY <2>1, BeginEmpty
    <3>2. QED
      BY <3>1 DEF Rewrites
  <2>2. CASE UNCHANGED <<jrn, jImgs>>
    BY <2>2
  <2>3. QED
    BY <1>1, <2>1, <2>2 DEF Start, Refuse, storeVars
<1>2. CASE ReplayEnds
  <2>1. CASE \E st \in idx : Begin(st.state.journal_bytes)
    <3>1. PICK st \in idx : Begin(st.state.journal_bytes)
      BY <2>1
    <3>2. Len(st.state.digest) \in Nat /\ Len(st.state.digest) <= Len(jrn.recs)
          /\ st.state.journal_bytes = RECORD * Len(st.state.digest)
      BY <1>2, ReplayedLength, VisibleFiles DEF ReplayEnds, Shaped
    <3>3. jrn' = [exists |-> TRUE, recs |-> SubSeq(jrn.recs, 1, Len(st.state.digest)),
                  torn |-> FALSE]
          /\ jImgs' = jImgs \cup {jrn'}
      BY <3>1, <3>2, BeginCuts
    <3>4. QED
      BY <1>0, <3>2, <3>3, JournalCut DEF Rewrites
  <2>2. QED
    BY <1>2, <2>1 DEF ReplayEnds, Refuse, storeVars
<1>3. CASE ReplayRecord \/ ReplayFails \/ (\E f \in Frames : Receive(f)) \/ StreamEnds
  BY <1>3 DEF ReplayRecord, ReplayFails, Receive, StreamEnds, storeVars
<1>4. CASE SaveSync \/ SaveTmp \/ SaveRename \/ SaveFails \/ SourceFails
  BY <1>0, <1>4 DEF SaveSync, SaveTmp, SaveRename, SaveFails, SourceFails, Return,
                    SyncJournal, Rewrites
<1>5. CASE Finish \/ Stage \/ ExtractFails \/ Reconcile
  BY <1>0, <1>5 DEF Finish, Stage, ExtractFails, Reconcile, Return, SyncJournal,
                    storeVars, Rewrites
<1>6. CASE Publish \/ DiscardIndex \/ DiscardFails
  BY <1>6 DEF Publish, DiscardIndex, DiscardFails, storeVars
<1>7. CASE RestoreFails \/ AppendFails \/ Kill
  BY <1>0, <1>7, JournalMarked DEF RestoreFails, AppendFails, Kill, Rewrites
<1>8. CASE PowerLoss
  BY <1>8 DEF PowerLoss
<1>9. CASE Tamper
  <2>1. jrn' \in JournalImage
    BY <1>0, <1>9, JournalDamaged, NoJournalImage DEF Tamper
  <2>2. QED
    BY <1>9, <2>1 DEF Tamper, Rewrites
<1>10. QED
  BY <1>1, <1>2, <1>3, <1>4, <1>5, <1>6, <1>7, <1>8, <1>9 DEF RecvNext, Step, Fault

LEMMA JournalFilesKept ==
    ASSUME Shaped, Replaying, JournalMirrorsDecoder, [RecvNext]_vars
    PROVE  jrn' \in jImgs' /\ jImgs' \subseteq JournalImage
<1>0. jrn \in jImgs /\ jImgs \subseteq JournalImage
  BY DEF Shaped, FileShapes
<1>1. CASE AppendRecord
  <2>1. journal[Len(journal)] \in Frames
    BY <1>1 DEF AppendRecord, JournalMirrorsDecoder, Shaped, DecIInv, Shapes
  <2>2. jrn' \in JournalImage /\ [jrn EXCEPT !.torn = TRUE] \in JournalImage
    BY <1>0, <1>1, <2>1, JournalGrown, JournalMarked DEF AppendRecord
  <2>3. QED
    BY <1>0, <1>1, <2>2 DEF AppendRecord
<1>2. CASE DiscardJournal
  BY <1>0, <1>2, NoJournalImage DEF DiscardJournal
<1>3. CASE UNCHANGED <<jrn, jImgs>>
  BY <1>0, <1>3
<1>4. CASE \E j \in JournalImage : Rewrites(j)
  BY <1>0, <1>4 DEF Rewrites
<1>5. CASE jrn' \in jImgs /\ jImgs' = {jrn'}
  BY <1>0, <1>5
<1>6. QED
  BY <1>1, <1>2, <1>3, <1>4, <1>5, JournalStep DEF vars, storeVars

-----------------------------------------------------------------------------
\* The journal's length while it mirrors the decoder.
LEMMA MirroredLength ==
    ASSUME Shaped, JournalMirrorsDecoder, pc \in Receiving
    PROVE  /\ jrn.exists /\ jrn.recs = journal
           /\ written = RECORD * Len(journal)
<1>1. jrn.exists /\ ~jrn.torn /\ written = JLen(jrn) /\ jrn.recs = journal
  BY DEF JournalMirrorsDecoder
<1>2. jrn \in JournalImage
  BY VisibleFiles DEF Shaped
<1>3. JLen(jrn) = 2 * Len(jrn.recs)
  BY <1>1, <1>2, JournalLength
<1>4. QED
  BY <1>1, <1>3 DEF RECORD

\* What Save writes is a resume state of the whole stream, one that the
\* parser and the next run take back with the journal as it is.
LEMMA SavedImage ==
    ASSUME Shaped, JournalMirrorsDecoder, Saving, StreamAdmissible, pc \in SavingPCs
    PROVE  \E st \in IndexFile :
              /\ saving = {st}
              /\ st.state.digest = journal
              /\ st.state.journal_bytes = RECORD * Len(journal)
              /\ Restorable(jrn, st)
<1> DEFINE st == [readable |-> TRUE, state |-> resume_state(written)]
<1>0. pc \in Receiving
  BY DEF SavingPCs, Receiving
<1>1. jrn.exists /\ jrn.recs = journal /\ written = RECORD * Len(journal)
  BY <1>0, MirroredLength
<1>2. /\ journal \in Seq(Frames) /\ Len(journal) \in Nat
      /\ held \in [Blocks -> SUBSET (0 .. TotalSymbols - 1)]
      /\ held_counts \in [Blocks -> Nat]
      /\ held = HeldBy(journal)
      /\ \A b \in Blocks : held_counts[b] = Cardinality(held[b])
  BY DEF Shaped, DecIInv, Shapes, HeldIsStream, CountsBits
<1>3. journal \in Seq(FrameType)
  BY <1>2, FramesAssumption
<1>4. written \in Nat /\ TotalSymbols \in Nat
  BY <1>1, <1>2, LayoutAssumption DEF RECORD
<1>5. resume_state(written) \in ResumeState
  BY <1>2, <1>3, <1>4, SessionAssumption DEF resume_state, ResumeState
<1>6. st \in IndexFile
  BY <1>5 DEF IndexFile
<1>7. /\ st.readable /\ st.state.session = Session /\ st.state.symbol_count = TotalSymbols
      /\ st.state.digest = journal /\ st.state.journal_bytes = RECORD * Len(journal)
      /\ st.state.held = held /\ st.state.held_counts = held_counts
  BY <1>1 DEF resume_state
<1>8. WellFormed(st.state)
  BY <1>2, <1>7 DEF WellFormed
<1>9. Restorable(jrn, st)
  <2>1. SubSeq(jrn.recs, 1, Len(journal)) = journal /\ Len(journal) <= Len(jrn.recs)
    BY <1>1, <1>2
  <2>2. \A i \in 1 .. Len(journal) : Admissible(journal[i])
    BY <1>2 DEF StreamAdmissible
  <2> HIDE DEF st
  <2>3. QED
    BY <1>1, <1>2, <1>7, <1>8, <2>1, <2>2 DEF Restorable
<1>10. saving = {st}
  BY DEF Saving
<1>11. QED
  BY <1>6, <1>7, <1>9, <1>10

\* What a step does to the index and to what a power loss may leave of it.
LEMMA IndexStep ==
    ASSUME RecvNext
    PROVE  \/ UNCHANGED <<idx, saves, lastSaved>> /\ iImgs' \in {iImgs, {idx}}
           \/ SaveRename
           \/ DiscardIndex
           \/ PowerLoss
           \/ Tamper
<1>1. CASE Start \/ ReplayRecord \/ ReplayFails \/ ReplayEnds \/ RestoreFails
  BY <1>1 DEF Start, ReplayRecord, ReplayFails, ReplayEnds, RestoreFails, Refuse,
              Begin, storeVars, histVars
<1>2. CASE \/ \E f \in Frames : Receive(f)
           \/ AppendRecord \/ SaveSync \/ SaveTmp \/ StreamEnds
  BY <1>2 DEF Receive, AppendRecord, SaveSync, SaveTmp, StreamEnds, SyncJournal,
              storeVars, histVars
<1>3. CASE Finish \/ Stage \/ Publish \/ Reconcile \/ DiscardJournal
  BY <1>3 DEF Finish, Stage, Publish, Reconcile, DiscardJournal, Return, SyncJournal,
              storeVars, histVars
<1>4. CASE AppendFails \/ SaveFails \/ SourceFails \/ ExtractFails \/ DiscardFails \/ Kill
  BY <1>4 DEF AppendFails, SaveFails, SourceFails, ExtractFails, DiscardFails, Kill,
              Return, SyncJournal, storeVars, histVars
<1>5. QED
  BY <1>1, <1>2, <1>3, <1>4 DEF RecvNext, Step, Fault

\* What a step does to the output and to what a power loss may leave of it.
LEMMA OutputStep ==
    ASSUME RecvNext
    PROVE  \/ outDir' = outDir /\ oImgs' \in {oImgs, Reached(outDir)}
           \/ Publish
           \/ PowerLoss
<1>1. CASE Start \/ ReplayRecord \/ ReplayFails \/ ReplayEnds \/ RestoreFails
  BY <1>1 DEF Start, ReplayRecord, ReplayFails, ReplayEnds, RestoreFails, Refuse, outVars
<1>2. CASE \/ \E f \in Frames : Receive(f)
           \/ AppendRecord \/ SaveSync \/ SaveTmp \/ SaveRename \/ StreamEnds
  BY <1>2 DEF Receive, AppendRecord, SaveSync, SaveTmp, SaveRename, StreamEnds,
              SyncJournal, outVars
<1>3. CASE Finish \/ Stage \/ Reconcile \/ DiscardJournal \/ DiscardIndex
  BY <1>3 DEF Finish, Stage, Reconcile, DiscardJournal, DiscardIndex, Return,
              SyncJournal, outVars
<1>4. CASE \/ AppendFails \/ SaveFails \/ SourceFails \/ ExtractFails \/ DiscardFails
           \/ Kill \/ Tamper
  BY <1>4 DEF AppendFails, SaveFails, SourceFails, ExtractFails, DiscardFails, Kill,
              Tamper, Return, SyncJournal, outVars
<1>5. QED
  BY <1>1, <1>2, <1>3, <1>4 DEF RecvNext, Step, Fault

\* An image of an index stays one when more streams have been saved.
LEMMA ImagesGrow ==
    ASSUME NEW i, IndexImage(i), saves \subseteq saves'
    PROVE  IndexImage(i)'
BY DEF IndexImage, Recorded, IndexFile, ResumeState

LEMMA FilesKept ==
    ASSUME Shaped, Replaying, JournalMirrorsDecoder, Saving, StreamAdmissible,
           [RecvNext]_vars
    PROVE  FileShapes'
<1>0. /\ FileShapes /\ idx \in iImgs
      /\ \A i \in iImgs : IndexImage(i)
      /\ lastSaved \in Seq(Frames) /\ saves \subseteq Seq(Frames)
  BY DEF Shaped, FileShapes
<1>1. jrn' \in jImgs' /\ jImgs' \subseteq JournalImage
  BY JournalFilesKept
<1>2. outDir' \in oImgs' /\ oImgs' \subseteq OutDirs
  <2>1. outDir \in oImgs /\ oImgs \subseteq OutDirs
    BY DEF Shaped, FileShapes
  <2>2. CASE outDir' = outDir /\ oImgs' \in {oImgs, Reached(outDir)}
    BY <2>1, <2>2 DEF Reached, OutDirs
  <2>3. CASE Publish
    BY <2>1, <2>3 DEF Publish, OutDirs
  <2>4. CASE PowerLoss
    BY <2>1, <2>4 DEF PowerLoss
  <2>5. CASE UNCHANGED vars
    BY <2>1, <2>5 DEF vars, outVars
  <2>6. QED
    BY <2>2, <2>3, <2>4, <2>5, OutputStep
<1>3. /\ idx' \in iImgs' /\ \A i \in iImgs' : IndexImage(i)'
      /\ lastSaved' \in Seq(Frames) /\ saves' \subseteq Seq(Frames)
  <2>1. CASE UNCHANGED <<idx, saves, lastSaved>> /\ iImgs' \in {iImgs, {idx}}
    BY <1>0, <2>1, ImagesGrow
  <2>2. CASE SaveRename
    <3>1. PICK st \in IndexFile :
            /\ saving = {st} /\ st.state.digest = journal
            /\ st.state.journal_bytes = RECORD * Len(journal)
      BY <2>2, SavedImage DEF SaveRename, SavingPCs
    <3>2. /\ idx' = {st} /\ iImgs' = iImgs \cup {{st}}
          /\ saves' = saves \cup {journal} /\ lastSaved' = journal
      BY <2>2, <3>1 DEF SaveRename
    <3>3. IndexImage({st})'
      BY <3>1, <3>2 DEF IndexImage, Recorded, IndexFile, ResumeState
    <3>4. \A i \in iImgs : IndexImage(i)'
      BY <1>0, <3>2, ImagesGrow
    <3>5. journal \in Seq(Frames)
      BY DEF Shaped, DecIInv, Shapes
    <3>6. QED
      BY <1>0, <3>2, <3>3, <3>4, <3>5
  <2>3. CASE DiscardIndex
    <3>1. idx' = {} /\ iImgs' = iImgs \cup {{}} /\ saves' = saves /\ lastSaved' = lastSaved
      BY <2>3 DEF DiscardIndex, histVars
    <3>2. IndexImage({})'
      BY DEF IndexImage
    <3>3. QED
      BY <1>0, <3>1, <3>2, ImagesGrow
  <2>4. CASE PowerLoss
    BY <1>0, <2>4, ImagesGrow DEF PowerLoss, histVars
  <2>5. CASE Tamper
    <3>1. saves' = saves /\ lastSaved' = lastSaved /\ iImgs' = {idx'}
      BY <2>5 DEF Tamper, histVars
    <3>2. CASE \E st \in idx : \E d \in DamagedIndexes(st) : idx' = {d}
      <4>0. PICK st \in idx : \E d \in DamagedIndexes(st) : idx' = {d}
        BY <3>2
      <4>1. PICK d \in DamagedIndexes(st) : idx' = {d}
        BY <4>0
      <4>2. d \in Recorded
        BY <1>0, <4>1, IndexDamaged DEF IndexImage
      <4>3. IndexImage({d})
        BY <4>2 DEF IndexImage
      <4>4. QED
        BY <1>0, <3>1, <4>1, <4>3, ImagesGrow
    <3>3. CASE idx' = idx
      BY <1>0, <3>1, <3>3, ImagesGrow
    <3>4. CASE idx' = {}
      <4>1. IndexImage({})'
        BY DEF IndexImage
      <4>2. QED
        BY <1>0, <3>1, <3>4, <4>1
    <3>5. QED
      BY <2>5, <3>2, <3>3, <3>4 DEF Tamper
  <2>6. CASE UNCHANGED vars
    BY <1>0, <2>6, ImagesGrow DEF vars, storeVars, histVars
  <2>7. QED
    BY <2>1, <2>2, <2>3, <2>4, <2>5, <2>6, IndexStep
<1>4. QED
  BY <1>1, <1>2, <1>3 DEF FileShapes

-----------------------------------------------------------------------------
\* What can happen between runs.
LEMMA OffSteps ==
    ASSUME pc = "off", RecvNext
    PROVE  Start \/ RestoreFails \/ PowerLoss \/ Tamper
BY DEF RecvNext, Step, Fault, ReplayRecord, ReplayFails, ReplayEnds, Receive,
       AppendRecord, SaveSync, SaveTmp, SaveRename, SaveFails, SourceFails, StreamEnds,
       Finish, Stage, Publish, Reconcile, DiscardJournal, DiscardIndex, AppendFails,
       ExtractFails, DiscardFails, Kill

LEMMA FreshKept ==
    ASSUME ProcShapes, Fresh, [RecvNext]_vars
    PROVE  Fresh'
<1>1. ASSUME NEW how \in Exits, ProcessEnds(how) PROVE Fresh'
  BY <1>1, NewDecoderIsInit DEF ProcessEnds, Fresh
<1>2. CASE Moves
  BY <1>2 DEF Moves, Fresh
<1>3. CASE UNCHANGED procVars /\ UNCHANGED decVars
  BY <1>3 DEF Fresh, DecInit, procVars, decVars
<1>4. CASE UNCHANGED procVars /\ ~UNCHANGED decVars
  <2>1. CASE pc = "off"
    <3>1. RecvNext
      BY <1>4 DEF vars
    <3>2. ~Tamper
      BY <1>4 DEF Tamper
    <3>3. CASE Start
      <4>1. pc' # "off" \/ ProcessEnds("input")
        BY <3>3 DEF Start, Refuse
      <4>2. QED
        BY <1>1, <1>4, <2>1, <4>1 DEF procVars, Exits
    <3>4. CASE RestoreFails \/ PowerLoss
      BY <1>1, <3>4 DEF RestoreFails, PowerLoss, Exits
    <3>5. QED
      BY <2>1, <3>1, <3>2, <3>3, <3>4, OffSteps
  <2>2. CASE pc # "off"
    BY <1>4, <2>2 DEF Fresh, procVars
  <2>3. QED
    BY <2>1, <2>2
<1>5. QED
  BY <1>1, <1>2, <1>3, <1>4, ProcessStep DEF vars

\* Two facts about cutting and growing a stream.
LEMMA CutAppend ==
    ASSUME NEW S, NEW j \in Seq(S), NEW f \in S
    PROVE  SubSeq(Append(j, f), 1, Len(j)) = j
OBVIOUS

LEMMA CutLength ==
    ASSUME NEW S, NEW j \in Seq(S), NEW n \in Nat, n <= Len(j)
    PROVE  Len(SubSeq(j, 1, n)) = n /\ SubSeq(j, 1, n) \in Seq(S)
<1>1. CASE n = 0
  BY <1>1
<1>2. CASE n > 0
  BY <1>2
<1>3. QED
  BY <1>1, <1>2

LEMMA AppendCut ==
    ASSUME NEW S, NEW j \in Seq(S), j # <<>>
    PROVE  /\ Append(SubSeq(j, 1, Len(j) - 1), j[Len(j)]) = j
           /\ Len(SubSeq(j, 1, Len(j) - 1)) = Len(j) - 1
<1>1. Append(SubSeq(j, 1, Len(j) - 1), j[Len(j)]) = j
  OBVIOUS
<1>2. Len(j) \in Nat \ {0}
  OBVIOUS
<1>3. Len(SubSeq(j, 1, Len(j) - 1)) = Len(j) - 1
  <2> DEFINE n == Len(j) - 1
  <2>1. n \in Nat /\ n <= Len(j)
    BY <1>2
  <2> HIDE DEF n
  <2>2. Len(SubSeq(j, 1, n)) = n
    BY <2>1, CutLength
  <2>3. QED
    BY <2>2 DEF n
<1>4. QED
  BY <1>1, <1>3

LEMMA CutGrows ==
    ASSUME NEW S, NEW T, NEW r \in Seq(S), NEW j \in Seq(T), Len(j) < Len(r),
           j = SubSeq(r, 1, Len(j))
    PROVE  Append(j, r[Len(j) + 1]) = SubSeq(r, 1, Len(j) + 1)
OBVIOUS

\* A process that goes on taking, saving and delivering without touching the
\* journal or the decoder.
Carries ==
    /\ pc \in Receiving /\ pc' \in Receiving
    /\ UNCHANGED <<journal, jrn, written>>

LEMMA MirrorKept ==
    ASSUME Shaped, Fresh, Replaying, JournalMirrorsDecoder, [RecvNext]_vars
    PROVE  JournalMirrorsDecoder'
<1> DEFINE Open == Receiving \cup {"append"}
<1>0. /\ journal \in Seq(Frames) /\ Len(journal) \in Nat
      /\ jrn \in JournalImage /\ jrn.recs \in Seq(StoredFrame)
  BY VisibleFiles DEF Shaped, DecIInv, Shapes
<1>1. CASE pc' \notin Open
  BY <1>1 DEF JournalMirrorsDecoder
<1>2. CASE Carries
  BY <1>2 DEF Carries, JournalMirrorsDecoder, JLen, Receiving
<1>3. CASE Start /\ pc' \in Open
  <2>1. Begin(0) /\ pc' = "recv" /\ pc = "off" /\ UNCHANGED decVars
    BY <1>3 DEF Start, Refuse, ProcessEnds, Receiving
  <2>2. jrn' = [exists |-> TRUE, recs |-> <<>>, torn |-> FALSE] /\ written' = 0
    BY <2>1, BeginEmpty
  <2>3. journal' = <<>>
    BY <2>1 DEF Fresh, DecInit, decVars
  <2>4. JLen(jrn') = 0
    BY <2>2 DEF JLen, RECORD
  <2>5. QED
    BY <2>1, <2>2, <2>3, <2>4 DEF JournalMirrorsDecoder, Receiving
<1>4. CASE ReplayEnds /\ pc' \in Open
  <2>1. PICK st \in idx :
          /\ Offset >= st.state.journal_bytes /\ verify_resume(st.state)
          /\ Begin(st.state.journal_bytes)
          /\ pc' = "recv" /\ UNCHANGED decVars
    BY <1>4 DEF ReplayEnds, Refuse, ProcessEnds, Receiving
  <2>2. /\ Len(journal) = Len(st.state.digest)
        /\ st.state.journal_bytes = RECORD * Len(journal)
    BY <1>4, <2>1, ReplayedLength, VisibleFiles DEF ReplayEnds, Shaped
  <2>3. jrn' = [exists |-> TRUE, recs |-> SubSeq(jrn.recs, 1, Len(journal)), torn |-> FALSE]
        /\ written' = 2 * Len(journal)
    BY <1>0, <2>1, <2>2, BeginCuts
  <2>4. SubSeq(jrn.recs, 1, Len(journal)) = journal /\ journal' = journal
    BY <1>4, <2>1 DEF ReplayEnds, Replaying, decVars
  <2>5. JLen(jrn') = 2 * Len(journal)
    BY <1>0, <2>3, <2>4 DEF JLen, RECORD
  <2>6. QED
    BY <2>1, <2>3, <2>4, <2>5 DEF JournalMirrorsDecoder, Receiving
<1>5. ASSUME NEW f \in Frames, Receive(f) PROVE JournalMirrorsDecoder'
  <2>1. CASE Accept(f) /\ pc' = "append"
    <3>1. journal' = Append(journal, f) /\ UNCHANGED <<jrn, written>> /\ pc = "recv"
      BY <1>5, <2>1 DEF Receive, Accept, storeVars, procVars, Reject, decVars
    <3>2. journal' # <<>> /\ Len(journal') - 1 = Len(journal)
      BY <1>0, <3>1
    <3>3. SubSeq(journal', 1, Len(journal)) = journal
      BY <1>0, <3>1, CutAppend
    <3>4. jrn.exists /\ ~jrn.torn /\ written = JLen(jrn) /\ jrn.recs = journal
      BY <3>1 DEF JournalMirrorsDecoder, Receiving
    <3>5. JLen(jrn') = JLen(jrn)
      BY <3>1
    <3>6. QED
      BY <2>1, <3>1, <3>2, <3>3, <3>4, <3>5 DEF JournalMirrorsDecoder, Receiving
  <2>2. CASE Reject(f) /\ UNCHANGED procVars
    BY <1>5, <2>2, <1>2 DEF Receive, Reject, Carries, Receiving, decVars, procVars, storeVars
  <2>3. QED
    BY <1>5, <2>1, <2>2 DEF Receive
<1>6. CASE AppendRecord
  <2>1. /\ journal # <<>> /\ jrn.recs = SubSeq(journal, 1, Len(journal) - 1)
        /\ jrn.exists /\ ~jrn.torn /\ written = JLen(jrn)
    BY <1>6 DEF AppendRecord, JournalMirrorsDecoder
  <2>2. journal[Len(journal)] \in Frames
    BY <1>0, <2>1
  <2>3. /\ jrn'.recs = Append(jrn.recs, journal[Len(journal)])
        /\ jrn'.exists = jrn.exists /\ jrn'.torn = jrn.torn /\ jrn' \in JournalImage
    BY <1>0, <1>6, <2>2, JournalGrown DEF AppendRecord
  <2>4. jrn'.recs = journal /\ journal' = journal
    BY <1>0, <1>6, <2>1, <2>3, AppendCut DEF AppendRecord, decVars
  <2>5. JLen(jrn') = 2 * Len(jrn'.recs) /\ JLen(jrn) = 2 * Len(jrn.recs)
    BY <1>0, <2>1, <2>3, JournalLength
  <2>6. Len(jrn.recs) = Len(journal) - 1
    BY <1>0, <2>1, AppendCut
  <2>7. written' = JLen(jrn')
    BY <1>0, <1>6, <2>1, <2>4, <2>5, <2>6 DEF AppendRecord, RECORD
  <2>8. pc' \in Receiving
    BY <1>6 DEF AppendRecord, BeginSave, ApplyReturns, Receiving
  <2>9. QED
    BY <2>1, <2>3, <2>4, <2>7, <2>8 DEF JournalMirrorsDecoder, Receiving
<1>7. CASE SaveSync \/ SaveTmp \/ SaveRename \/ StreamEnds
  <2>1. Carries
    BY <1>7 DEF SaveSync, SaveTmp, SaveRename, StreamEnds, BeginSave, ApplyReturns,
                Carries, Receiving, decVars, storeVars
  <2>2. QED
    BY <1>2, <2>1
<1>8. CASE Finish \/ Stage \/ Publish \/ Reconcile
  <2>1. Carries \/ pc' \notin Open
    BY <1>8 DEF Finish, Stage, Publish, Reconcile, Return, ProcessEnds, Carries,
                Receiving, decVars, storeVars
  <2>2. QED
    BY <1>1, <1>2, <2>1
<1>9. CASE ReplayRecord \/ ReplayFails \/ DiscardJournal \/ DiscardIndex \/ Tamper
  <2>1. pc' \notin Open
    BY <1>9 DEF ReplayRecord, ReplayFails, DiscardJournal, DiscardIndex, Tamper,
                ProcessEnds, procVars, Receiving
  <2>2. QED
    BY <1>1, <2>1
<1>10. CASE \/ RestoreFails \/ AppendFails \/ SaveFails \/ SourceFails \/ ExtractFails
            \/ DiscardFails \/ Kill \/ PowerLoss
  <2>1. pc' \notin Open
    BY <1>10 DEF RestoreFails, AppendFails, SaveFails, SourceFails, ExtractFails,
                 DiscardFails, Kill, PowerLoss, Return, ProcessEnds, Receiving
  <2>2. QED
    BY <1>1, <2>1
<1>11. CASE UNCHANGED vars
  BY <1>11 DEF vars, decVars, procVars, storeVars, JournalMirrorsDecoder, JLen
<1>12. QED
  BY <1>1, <1>3, <1>4, <1>5, <1>6, <1>7, <1>8, <1>9, <1>10, <1>11
     DEF RecvNext, Step, Fault

LEMMA ReplayKept ==
    ASSUME Shaped, Fresh, Replaying, [RecvNext]_vars
    PROVE  Replaying'
<1>0. /\ journal \in Seq(Frames) /\ Len(journal) \in Nat
      /\ jrn \in JournalImage /\ jrn.recs \in Seq(StoredFrame)
  BY VisibleFiles DEF Shaped, DecIInv, Shapes
<1>1. CASE pc' # "replay"
  BY <1>1 DEF Replaying
<1>2. CASE Start /\ pc' = "replay"
  <2>1. PICK st \in idx : ~Unusable(st)
    BY <1>2 DEF Start, Refuse, ProcessEnds
  <2>2. pc = "off" /\ UNCHANGED <<decVars, accepted, storeVars>>
    BY <1>2 DEF Start, Refuse, ProcessEnds
  <2>3. accepted = 0 /\ journal = <<>>
    BY <2>2 DEF Fresh, DecInit
  <2>4. idx = {st} /\ Len(st.state.digest) \in Nat /\ st.state.journal_bytes \in Nat
    BY <2>1 DEF Shaped, FileShapes, IndexImage, Recorded, IndexFile, ResumeState
  <2>5. JLen(jrn) \in Nat
    BY <1>0, JournalLength
  <2>6. jrn.exists /\ st.state.journal_bytes <= JLen(jrn)
    BY <2>1, <2>4, <2>5 DEF Unusable
  <2>7. journal = SubSeq(jrn.recs, 1, Len(journal)) /\ Len(journal) = 0
    BY <1>0, <2>3
  <2>8. /\ accepted' = accepted /\ journal' = journal /\ jrn' = jrn /\ idx' = idx
        /\ JLen(jrn') = JLen(jrn)
    BY <2>2 DEF decVars, storeVars
  <2>9. QED
    BY <2>3, <2>4, <2>6, <2>7, <2>8 DEF Replaying
<1>3. CASE ReplayRecord
  <2>1. PICK st \in idx : Offset + RECORD <= st.state.journal_bytes /\ Accept(NextRecord)
    BY <1>3 DEF ReplayRecord
  <2>2. pc = "replay"
    BY <1>3 DEF ReplayRecord
  <2>3. Len(journal) + 1 \in DOMAIN jrn.recs
    BY <2>1, <2>2, NextRecordStored
  <2>4. NextRecord \in Frames
    BY <2>1, <2>2, NextRecordStored, AdmissibleStored DEF Accept
  <2>5. journal' = Append(journal, NextRecord)
    BY <2>1 DEF Accept
  <2>6. journal' = SubSeq(jrn.recs, 1, Len(journal) + 1)
    BY <1>0, <2>2, <2>3, <2>5, CutGrows DEF NextRecord, Replaying
  <2>7. Len(journal') = Len(journal) + 1
    BY <1>0, <2>4, <2>5
  <2>8. UNCHANGED <<accepted, jrn, idx>> /\ JLen(jrn') = JLen(jrn)
    BY <1>3 DEF ReplayRecord, procVars, storeVars
  <2>9. /\ idx = {st} /\ st.state.journal_bytes <= JLen(jrn) /\ jrn.exists
        /\ Len(st.state.digest) \in Nat /\ st.state.journal_bytes = RECORD * Len(st.state.digest)
    BY <2>2, VisibleFiles DEF Replaying, Shaped
  <2>10. Len(journal') <= Len(st.state.digest)
    BY <1>0, <2>1, <2>7, <2>9 DEF Offset, RECORD
  <2>11. accepted = 0
    BY <2>2 DEF Replaying
  <2>12. QED
    BY <2>6, <2>7, <2>8, <2>9, <2>10, <2>11 DEF Replaying
<1>4. CASE UNCHANGED vars
  BY <1>4 DEF vars, decVars, procVars, storeVars, Replaying, JLen
<1>5. CASE \/ ReplayFails \/ ReplayEnds \/ AppendRecord \/ SaveSync \/ SaveTmp
           \/ SaveRename \/ StreamEnds \/ \E f \in Frames : Receive(f)
  BY <1>1, <1>5 DEF ReplayFails, ReplayEnds, AppendRecord, SaveSync, SaveTmp, SaveRename,
                    StreamEnds, Receive, Refuse, BeginSave, ApplyReturns, ProcessEnds,
                    procVars
<1>6. CASE Finish \/ Stage \/ Publish \/ Reconcile \/ DiscardJournal \/ DiscardIndex
  BY <1>1, <1>6 DEF Finish, Stage, Publish, Reconcile, DiscardJournal, DiscardIndex,
                    Return, ProcessEnds
<1>7. CASE \/ RestoreFails \/ AppendFails \/ SaveFails \/ SourceFails \/ ExtractFails
           \/ DiscardFails \/ Kill \/ PowerLoss \/ Tamper
  BY <1>1, <1>7 DEF RestoreFails, AppendFails, SaveFails, SourceFails, ExtractFails,
                    DiscardFails, Kill, PowerLoss, Tamper, Return, ProcessEnds, procVars
<1>8. QED
  BY <1>1, <1>2, <1>3, <1>4, <1>5, <1>6, <1>7 DEF RecvNext, Step, Fault

-----------------------------------------------------------------------------
\* The parts of Saving that hold when Save is not under way.
LEMMA NotSaving ==
    ASSUME pc' \notin SavingPCs, saving' = {}, final' = FALSE, pc' = "append" => accepted' > 0
    PROVE  Saving'
BY DEF Saving, SavingPCs

\* saveProgress starts Save with the decoder as it is.
LEMMA SaveBegins ==
    ASSUME NEW last \in BOOLEAN, BeginSave(written', last), UNCHANGED decVars,
           last = TRUE \/ accepted' > 0
    PROVE  Saving'
<1>1. /\ pc' = "sync" /\ final' = last
      /\ saving' = {[readable |-> TRUE, state |-> resume_state(written')]}
  BY DEF BeginSave
<1>2. resume_state(written)' = resume_state(written')
  BY DEF resume_state, decVars
<1>3. QED
  BY <1>1, <1>2 DEF Saving, SavingPCs

LEMMA SavingKept ==
    ASSUME Shaped, Saving, [RecvNext]_vars
    PROVE  Saving'
<1>1. ASSUME NEW how \in Exits, ProcessEnds(how) PROVE Saving'
  BY <1>1, NotSaving DEF ProcessEnds, SavingPCs
<1>2. CASE pc \notin SavingPCs /\ pc' \notin SavingPCs \cup {"append"}
           /\ UNCHANGED <<saving, final>>
  BY <1>2, NotSaving DEF Saving
<1>3. CASE Start \/ ReplayRecord \/ ReplayFails \/ ReplayEnds \/ RestoreFails
  BY <1>1, <1>2, <1>3
     DEF Start, ReplayRecord, ReplayFails, ReplayEnds, RestoreFails, Refuse, SavingPCs,
         procVars, Exits
<1>4. ASSUME NEW f \in Frames, Receive(f) PROVE Saving'
  <2>1. CASE UNCHANGED procVars
    BY <1>2, <1>4, <2>1 DEF Receive, procVars, SavingPCs
  <2>2. CASE pc' = "append" /\ accepted' = accepted + 1 /\ UNCHANGED <<saving, final>>
    <3>1. pc = "recv" /\ accepted' > 0
      BY <1>4, <2>2 DEF Receive, Shaped, ProcShapes
    <3>2. saving' = {} /\ final' = FALSE
      BY <2>2, <3>1 DEF Saving, SavingPCs
    <3>3. QED
      BY <2>2, <3>1, <3>2, NotSaving DEF SavingPCs
  <2>3. QED
    BY <1>4, <2>1, <2>2 DEF Receive
<1>5. CASE AppendRecord
  <2>1. accepted' > 0 /\ UNCHANGED decVars
    BY <1>5 DEF AppendRecord, Saving
  <2>2. \/ BeginSave(written', FALSE) \/ BeginSave(written', TRUE)
        \/ pc' = "recv" /\ saving' = {} /\ final' = FALSE
    BY <1>5 DEF AppendRecord, ApplyReturns
  <2>3. QED
    BY <2>1, <2>2, SaveBegins, NotSaving DEF SavingPCs
<1>6. CASE StreamEnds
  <2>1. BeginSave(written', TRUE) /\ UNCHANGED decVars
    BY <1>6 DEF StreamEnds
  <2>2. QED
    BY <2>1, SaveBegins
<1>7. CASE SaveSync \/ SaveTmp
  <2>1. /\ pc \in {"sync", "tmp"} /\ pc' \in {"tmp", "rename"} /\ jImgs' = {jrn'}
        /\ UNCHANGED <<decVars, accepted, written, saving, final>>
    BY <1>7 DEF SaveSync, SaveTmp, SyncJournal, Saving
  <2>2. resume_state(written)' = resume_state(written)
    BY <2>1 DEF resume_state, decVars
  <2>3. saving' = {[readable |-> TRUE, state |-> resume_state(written)']}
        /\ (final' \/ accepted' > 0)
    BY <2>1, <2>2 DEF Saving, SavingPCs
  <2>4. QED
    BY <2>1, <2>3 DEF Saving, SavingPCs
<1>8. CASE SaveRename
  <2>1. UNCHANGED <<decVars, accepted, written>>
    BY <1>8 DEF SaveRename
  <2>2. CASE pc' \in {"finish", "recv"} /\ saving' = {} /\ final' = FALSE
    BY <2>2, NotSaving DEF SavingPCs
  <2>3. CASE BeginSave(written, TRUE)
    BY <2>1, <2>3, SaveBegins
  <2>4. QED
    BY <1>8, <2>2, <2>3 DEF SaveRename, ApplyReturns
<1>9. CASE Finish \/ Stage \/ Publish \/ Reconcile \/ DiscardJournal \/ DiscardIndex
  BY <1>1, <1>2, <1>9
     DEF Finish, Stage, Publish, Reconcile, DiscardJournal, DiscardIndex, Return,
         SavingPCs, Exits
<1>10. CASE \/ AppendFails \/ SaveFails \/ SourceFails \/ ExtractFails \/ DiscardFails
            \/ Kill \/ PowerLoss
  BY <1>1, <1>10
     DEF AppendFails, SaveFails, SourceFails, ExtractFails, DiscardFails, Kill, PowerLoss,
         Return, Exits
<1>11. CASE Tamper
  BY <1>2, <1>11 DEF Tamper, procVars, SavingPCs
<1>12. CASE UNCHANGED vars
  BY <1>12 DEF vars, decVars, procVars, storeVars, Saving, resume_state
<1>13. QED
  BY <1>3, <1>4, <1>5, <1>6, <1>7, <1>8, <1>9, <1>10, <1>11, <1>12
     DEF RecvNext, Step, Fault

-----------------------------------------------------------------------------
\* finish answers with the payload only if every block decoded to it.
LEMMA FinishVerifies ==
    ASSUME DecIInv, finish = "payload"
    PROVE  \A b \in Blocks : data[b] = "right"
<1>1. is_complete /\ ~ \E b \in Blocks : data[b] = "wrong"
  BY DEF finish
<1>2. \A b \in Blocks : data[b] \in {"pending", "right", "wrong"}
  BY DEF DecIInv, Shapes, BlockData
<1>3. QED
  BY <1>1, <1>2 DEF is_complete

\* What may become of the output directory, and when a process is past it.
LEMMA OutputKept ==
    ASSUME Shaped, Output, [RecvNext]_vars
    PROVE  Output'
<1>0. outDir \in oImgs
  BY DEF Shaped, FileShapes
<1>1. outDir' = "absent" => oImgs' = {"absent"}
  <2>1. CASE UNCHANGED vars
    BY <2>1 DEF vars, outVars, Output
  <2>2. CASE outDir' = outDir /\ oImgs' \in {oImgs, Reached(outDir)}
    BY <2>2 DEF Output, Reached
  <2>3. CASE Publish \/ PowerLoss
    BY <2>3 DEF Publish, PowerLoss
  <2>4. QED
    BY <2>1, <2>2, <2>3, OutputStep
<1> DEFINE Late == {"extract", "publish", "reconcile", "discard", "discardIndex"}
<1>2. CASE pc' \notin Late
  BY <1>1, <1>2 DEF Output
<1>3. CASE Start \/ ReplayRecord \/ ReplayFails \/ ReplayEnds \/ RestoreFails
  <2>1. pc' \notin Late
    BY <1>3 DEF Start, ReplayRecord, ReplayFails, ReplayEnds, RestoreFails, Refuse,
                ProcessEnds, procVars
  <2>2. QED
    BY <1>2, <2>1
<1>4. CASE \/ \E f \in Frames : Receive(f)
           \/ AppendRecord \/ SaveSync \/ SaveTmp \/ SaveRename \/ StreamEnds
  <2>1. pc' \notin Late
    BY <1>4 DEF Receive, AppendRecord, SaveSync, SaveTmp, SaveRename, StreamEnds,
                BeginSave, ApplyReturns, procVars
  <2>2. QED
    BY <1>2, <2>1
<1>5. CASE \/ AppendFails \/ SaveFails \/ SourceFails \/ ExtractFails \/ DiscardFails
           \/ Kill \/ PowerLoss \/ Tamper \/ DiscardIndex
  <2>1. pc' \notin Late
    BY <1>5 DEF AppendFails, SaveFails, SourceFails, ExtractFails, DiscardFails, Kill,
                PowerLoss, Tamper, DiscardIndex, Return, ProcessEnds, procVars
  <2>2. QED
    BY <1>2, <2>1
<1>6. CASE Finish
  <2>1. CASE pc' \in Late
    <3>1. finish = "payload" /\ pc' = "extract" /\ data' = data
      BY <1>6, <2>1 DEF Finish, Return, ProcessEnds, decVars
    <3>2. \A b \in Blocks : data'[b] = "right"
      BY <3>1, FinishVerifies DEF Shaped
    <3>3. QED
      BY <1>1, <3>1, <3>2 DEF Output
  <2>2. QED
    BY <1>2, <2>1
<1>7. CASE Stage
  <2>1. CASE pc' \in Late
    <3>1. /\ pc = "extract" /\ pc' = "publish" /\ data' = data
          /\ outDir = "absent" /\ outDir' = outDir
      BY <1>7, <2>1 DEF Stage, Return, ProcessEnds, decVars
    <3>2. QED
      BY <1>1, <3>1 DEF Output
  <2>2. QED
    BY <1>2, <2>1
<1>8. CASE Publish
  BY <1>1, <1>8 DEF Publish, Output
<1>9. CASE Reconcile
  <2>1. CASE pc' \in Late
    <3>1. pc = "reconcile" /\ pc' = "discard" /\ outDir' = outDir
      BY <1>9, <2>1 DEF Reconcile, Return, ProcessEnds
    <3>2. QED
      BY <1>1, <3>1 DEF Output
  <2>2. QED
    BY <1>2, <2>1
<1>10. CASE DiscardJournal
  BY <1>1, <1>10 DEF DiscardJournal, Output, Reached
<1>11. CASE UNCHANGED vars
  BY <1>11 DEF vars, decVars, procVars, outVars, Output
<1>12. QED
  BY <1>3, <1>4, <1>5, <1>6, <1>7, <1>8, <1>9, <1>10, <1>11 DEF RecvNext, Step, Fault

\* Every staging directory is the running process's, or was left by a process
\* that was killed, lost its power or failed.
LEMMA StagingKept ==
    ASSUME ProcShapes, CountShapes, Staging, [RecvNext]_vars
    PROVE  Staging'
<1> USE DEF Staging, StagingAccounted, CountShapes
<1>1. CASE /\ staged' = staged /\ kills' = kills /\ losses' = losses
           /\ faults' = faults \/ faults' = faults + 1
           /\ pc # "publish" /\ pc' # "publish"
  BY <1>1
<1>2. CASE Start \/ ReplayRecord \/ ReplayFails \/ ReplayEnds \/ RestoreFails
  BY <1>1, <1>2
     DEF Start, ReplayRecord, ReplayFails, ReplayEnds, RestoreFails, Refuse, ProcessEnds,
         procVars, outVars, countVars
<1>3. CASE \/ \E f \in Frames : Receive(f)
           \/ AppendRecord \/ SaveSync \/ SaveTmp \/ SaveRename \/ StreamEnds
  BY <1>1, <1>3
     DEF Receive, AppendRecord, SaveSync, SaveTmp, SaveRename, StreamEnds, BeginSave,
         ApplyReturns, procVars, outVars, countVars
<1>4. CASE \/ AppendFails \/ SaveFails \/ SourceFails \/ DiscardFails \/ Tamper
           \/ Finish \/ Reconcile \/ DiscardJournal \/ DiscardIndex
  BY <1>1, <1>4
     DEF AppendFails, SaveFails, SourceFails, DiscardFails, Tamper, Finish, Reconcile,
         DiscardJournal, DiscardIndex, Return, ProcessEnds, procVars, outVars, countVars
<1>5. CASE Stage
  BY <1>5 DEF Stage, Return, ProcessEnds, countVars
<1>6. CASE ExtractFails
  BY <1>6 DEF ExtractFails, Return, ProcessEnds
<1>7. CASE Publish
  BY <1>7 DEF Publish, countVars
<1>8. CASE Kill
  BY <1>8 DEF Kill, ProcessEnds, outVars
<1>9. CASE PowerLoss
  BY <1>9 DEF PowerLoss, ProcessEnds
<1>10. CASE UNCHANGED vars
  BY <1>10 DEF vars, procVars, outVars, countVars
<1>11. QED
  BY <1>2, <1>3, <1>4, <1>5, <1>6, <1>7, <1>8, <1>9, <1>10 DEF RecvNext, Step, Fault

-----------------------------------------------------------------------------
\* Losses and tampering are counted, never forgotten.
LEMMA CountsGrow ==
    ASSUME CountShapes, [RecvNext]_vars
    PROVE  /\ losses' = 0 => losses = 0 /\ ~PowerLoss
           /\ tampers' = 0 => tampers = 0 /\ ~Tamper
<1> USE DEF CountShapes, countVars
<1>1. CASE UNCHANGED <<losses, tampers>> /\ ~PowerLoss /\ ~Tamper
  BY <1>1
<1>2. CASE PowerLoss \/ Tamper
  BY <1>2 DEF PowerLoss, Tamper
<1>3. CASE Start \/ ReplayRecord \/ ReplayFails \/ ReplayEnds \/ RestoreFails
  BY <1>1, <1>2, <1>3 DEF Start, ReplayRecord, ReplayFails, ReplayEnds, RestoreFails
<1>4. CASE \/ \E f \in Frames : Receive(f)
           \/ AppendRecord \/ SaveSync \/ SaveTmp \/ SaveRename \/ StreamEnds
  BY <1>1, <1>2, <1>4 DEF Receive, AppendRecord, SaveSync, SaveTmp, SaveRename, StreamEnds
<1>5. CASE Finish \/ Stage \/ Publish \/ Reconcile \/ DiscardJournal \/ DiscardIndex
  BY <1>1, <1>2, <1>5 DEF Finish, Stage, Publish, Reconcile, DiscardJournal, DiscardIndex
<1>6. CASE AppendFails \/ SaveFails \/ SourceFails \/ ExtractFails \/ DiscardFails \/ Kill
  BY <1>1, <1>2, <1>6
     DEF AppendFails, SaveFails, SourceFails, ExtractFails, DiscardFails, Kill
<1>7. CASE UNCHANGED vars
  BY <1>1, <1>2, <1>7 DEF vars
<1>8. QED
  BY <1>2, <1>3, <1>4, <1>5, <1>6, <1>7 DEF RecvNext, Step, Fault

\* An output that may be absent after a step may have been absent before it.
LEMMA AbsentBefore ==
    ASSUME Shaped, Output, [RecvNext]_vars
    PROVE  /\ "absent" \in oImgs' => "absent" \in oImgs
           /\ losses' = 0 /\ outDir' = "absent" => outDir = "absent"
<1>0. outDir \in oImgs /\ CountShapes
  BY DEF Shaped, FileShapes
<1>1. CASE UNCHANGED vars
  BY <1>1 DEF vars, outVars
<1>2. CASE outDir' = outDir /\ oImgs' \in {oImgs, Reached(outDir)}
  BY <1>0, <1>2 DEF Reached
<1>3. CASE Publish
  BY <1>3 DEF Publish
<1>4. CASE PowerLoss
  BY <1>0, <1>4, CountsGrow DEF PowerLoss
<1>5. QED
  BY <1>1, <1>2, <1>3, <1>4, OutputStep

LEMMA LastKept ==
    ASSUME Shaped, JournalMirrorsDecoder, Saving, StreamAdmissible, Output, LastIsIndex,
           [RecvNext]_vars
    PROVE  LastIsIndex'
<1> SUFFICES ASSUME losses' = 0, tampers' = 0, outDir' = "absent"
             PROVE  /\ idx' = {} => lastSaved' = <<>>
                    /\ \A st \in idx' : st.state.digest = lastSaved'
  BY DEF LastIsIndex
<1>1. losses = 0 /\ tampers = 0 /\ outDir = "absent" /\ ~PowerLoss /\ ~Tamper
  BY CountsGrow, AbsentBefore DEF Shaped
<1>2. CASE UNCHANGED <<idx, lastSaved>>
  BY <1>1, <1>2 DEF LastIsIndex
<1>3. CASE SaveRename
  <2>1. \E st \in IndexFile : saving = {st} /\ st.state.digest = journal
    BY <1>3, SavedImage DEF SaveRename, SavingPCs
  <2>2. idx' = saving /\ lastSaved' = journal
    BY <1>3 DEF SaveRename
  <2>3. QED
    BY <2>1, <2>2
<1>4. CASE DiscardIndex
  BY <1>1, <1>4 DEF DiscardIndex, Output
<1>5. QED
  BY <1>1, <1>2, <1>3, <1>4, IndexStep DEF vars, storeVars, histVars

\* Where a run that has taken no frame of its own got its stream from: it had
\* it already, it started with nothing, or it replayed what the index covers.
LEMMA ResumedFrom ==
    ASSUME Shaped, Fresh, Saving, [RecvNext]_vars, pc' = "recv", accepted' = 0
    PROVE  /\ UNCHANGED <<saves, lastSaved, losses, tampers, outDir>>
           /\ \/ pc = "recv" /\ accepted = 0 /\ journal' = journal
              \/ idx = {} /\ journal' = <<>>
              \/ \E st \in idx : journal' = st.state.digest
<1>1. CASE Start
  <2>1. pc = "off" /\ idx = {} /\ UNCHANGED <<decVars, outVars, histVars, losses, tampers>>
    BY <1>1 DEF Start, Refuse, ProcessEnds
  <2>2. QED
    BY <2>1 DEF Fresh, DecInit, decVars, outVars, histVars
<1>2. CASE ReplayEnds
  <2>1. PICK st \in idx : verify_resume(st.state) /\ UNCHANGED <<decVars, outVars>>
    BY <1>2 DEF ReplayEnds, Refuse, ProcessEnds
  <2>2. journal' = st.state.digest
    BY <2>1 DEF verify_resume, decVars
  <2>3. QED
    BY <1>2, <2>1, <2>2 DEF ReplayEnds, outVars, histVars, countVars
<1>3. ASSUME NEW f \in Frames, Receive(f)
      PROVE  /\ pc = "recv" /\ accepted = 0 /\ journal' = journal
             /\ UNCHANGED <<saves, lastSaved, losses, tampers, outDir>>
  BY <1>3 DEF Receive, Reject, decVars, procVars, histVars, countVars, outVars
<1>4. CASE AppendRecord \/ SaveRename
  <2>1. accepted > 0 /\ accepted' = accepted
    BY <1>4 DEF AppendRecord, SaveRename, Saving, SavingPCs
  <2>2. QED
    BY <2>1
<1>5. CASE UNCHANGED vars
  BY <1>5 DEF vars, decVars, procVars, histVars, countVars, outVars
<1>6. CASE ReplayRecord \/ ReplayFails \/ SaveSync \/ SaveTmp \/ StreamEnds
  BY <1>6 DEF ReplayRecord, ReplayFails, SaveSync, SaveTmp, StreamEnds, BeginSave,
              ProcessEnds, procVars
<1>7. CASE Finish \/ Stage \/ Publish \/ Reconcile \/ DiscardJournal \/ DiscardIndex
  BY <1>7 DEF Finish, Stage, Publish, Reconcile, DiscardJournal, DiscardIndex,
              Return, ProcessEnds
<1>8. CASE \/ RestoreFails \/ AppendFails \/ SaveFails \/ SourceFails \/ ExtractFails
           \/ DiscardFails \/ Kill \/ PowerLoss \/ Tamper
  BY <1>8 DEF RestoreFails, AppendFails, SaveFails, SourceFails, ExtractFails,
              DiscardFails, Kill, PowerLoss, Tamper, Return, ProcessEnds, procVars
<1>9. QED
  BY <1>1, <1>2, <1>3, <1>4, <1>5, <1>6, <1>7, <1>8 DEF RecvNext, Step, Fault

LEMMA ResumeKept ==
    ASSUME Shaped, Fresh, Saving, LastIsIndex, ResumesOnlySavedStreams, NoSaveLost,
           [RecvNext]_vars
    PROVE  ResumesOnlySavedStreams' /\ NoSaveLost'
<1>1. CASE pc' = "recv" /\ accepted' = 0
  <2>1. /\ UNCHANGED <<saves, lastSaved, losses, tampers, outDir>>
        /\ \/ pc = "recv" /\ accepted = 0 /\ journal' = journal
           \/ idx = {} /\ journal' = <<>>
           \/ \E st \in idx : journal' = st.state.digest
    BY <1>1, ResumedFrom
  <2>2. \A st \in idx : st.state.digest \in saves
    BY DEF Shaped, FileShapes, IndexImage, Recorded
  <2>3. QED
    BY <2>1, <2>2 DEF ResumesOnlySavedStreams, NoSaveLost, LastIsIndex
<1>2. QED
  BY <1>1 DEF ResumesOnlySavedStreams, NoSaveLost

-----------------------------------------------------------------------------
\* Whether an index can be restored depends on the records it covers alone.
LEMMA RestorableFrom ==
    ASSUME NEW j, NEW k, NEW st, Restorable(j, st), k.exists,
           Len(st.state.digest) <= Len(k.recs),
           SubSeq(k.recs, 1, Len(st.state.digest)) = SubSeq(j.recs, 1, Len(st.state.digest))
    PROVE  Restorable(k, st)
BY DEF Restorable

\* So a torn record, one more record or a cut past the covered ones changes
\* nothing.
LEMMA RestorableTorn ==
    ASSUME NEW j \in JournalImage, NEW st, Restorable(j, st)
    PROVE  Restorable([j EXCEPT !.torn = TRUE], st)
<1>1. /\ [j EXCEPT !.torn = TRUE].recs = j.recs
      /\ [j EXCEPT !.torn = TRUE].exists = j.exists
  BY DEF JournalImage
<1>2. j.exists /\ Len(st.state.digest) <= Len(j.recs)
  BY DEF Restorable
<1>3. QED
  BY <1>1, <1>2, RestorableFrom

LEMMA RestorableGrown ==
    ASSUME NEW j \in JournalImage, NEW f \in Frames, NEW st, Restorable(j, st),
           Len(st.state.digest) \in Nat
    PROVE  Restorable([j EXCEPT !.recs = Append(@, f)], st)
<1> DEFINE k == [j EXCEPT !.recs = Append(@, f)]
           n == Len(st.state.digest)
<1>1. k.recs = Append(j.recs, f) /\ k.exists = j.exists
  BY JournalGrown
<1>2. j.exists /\ n <= Len(j.recs) /\ j.recs \in Seq(StoredFrame) /\ f \in StoredFrame
  BY DEF Restorable, JournalImage, StoredFrame
<1> HIDE DEF k, n
<1>3. n \in Nat
  BY DEF n
<1>4. SubSeq(Append(j.recs, f), 1, n) = SubSeq(j.recs, 1, n) /\ n <= Len(Append(j.recs, f))
  BY <1>2, <1>3
<1>5. Restorable(k, st)
  BY <1>1, <1>2, <1>4, RestorableFrom DEF n
<1>6. QED
  BY <1>5 DEF k

LEMMA RestorableCut ==
    ASSUME NEW j \in JournalImage, NEW n \in Nat, n <= Len(j.recs), NEW st,
           Restorable(j, st), Len(st.state.digest) \in Nat, Len(st.state.digest) <= n
    PROVE  Restorable([exists |-> TRUE, recs |-> SubSeq(j.recs, 1, n), torn |-> FALSE], st)
<1> DEFINE k == [exists |-> TRUE, recs |-> SubSeq(j.recs, 1, n), torn |-> FALSE]
           m == Len(st.state.digest)
<1>1. k.exists /\ k.recs = SubSeq(j.recs, 1, n)
  OBVIOUS
<1>2. j.recs \in Seq(StoredFrame) /\ m \in Nat /\ m <= n
  BY DEF JournalImage
<1> HIDE DEF k, m
<1>3. Len(SubSeq(j.recs, 1, n)) = n
  BY <1>2, CutLength
<1>4. SubSeq(SubSeq(j.recs, 1, n), 1, m) = SubSeq(j.recs, 1, m)
  BY <1>2, <1>3
<1>5. Restorable(k, st)
  BY <1>1, <1>2, <1>3, <1>4, RestorableFrom DEF m
<1>6. QED
  BY <1>5 DEF k

\* What Durable says, of any journals, indexes and visible index.
AllRestorable(J, I) == \A j \in J, i \in I : \A st \in i : Restorable(j, st)
Topmost(I, top) ==
    \A i \in I : \A s \in i : \E st \in top : Len(s.state.digest) <= Len(st.state.digest)

LEMMA DurableKept ==
    ASSUME Shaped, Fresh, Replaying, JournalMirrorsDecoder, Saving, StreamAdmissible,
           Output, Durable, [RecvNext]_vars
    PROVE  Durable'
<1> SUFFICES ASSUME tampers' = 0, "absent" \in oImgs'
             PROVE  AllRestorable(jImgs', iImgs') /\ Topmost(iImgs', idx')
  BY DEF Durable, AllRestorable, Topmost
<1>0. /\ tampers = 0 /\ ~Tamper /\ "absent" \in oImgs
  BY CountsGrow, AbsentBefore DEF Shaped
<1>a. AllRestorable(jImgs, iImgs) /\ Topmost(iImgs, idx)
  BY <1>0 DEF Durable, AllRestorable, Topmost
<1>b. /\ jrn \in jImgs /\ jImgs \subseteq JournalImage /\ jrn \in JournalImage
      /\ idx \in iImgs
      /\ \A i \in iImgs : \A st \in i : Len(st.state.digest) \in Nat
  BY DEF Shaped, FileShapes, IndexImage, Recorded
\* Fewer images, the same visible index.
<1>1. ASSUME jImgs' \subseteq jImgs, iImgs' \in {iImgs, {idx}}, idx' = idx
      PROVE  AllRestorable(jImgs', iImgs') /\ Topmost(iImgs', idx')
  BY <1>a, <1>b, <1>1 DEF AllRestorable, Topmost
\* New images that carry all an index covers.
<1>2. ASSUME \A j \in jImgs' \ jImgs, i \in iImgs : \A st \in i : Restorable(j, st),
             iImgs' \in {iImgs, {idx}}, idx' = idx
      PROVE  AllRestorable(jImgs', iImgs') /\ Topmost(iImgs', idx')
  BY <1>a, <1>b, <1>2 DEF AllRestorable, Topmost
\* No index at all.
<1>3. ASSUME idx = {}, idx' = idx, iImgs' \in {iImgs, {idx}}
      PROVE  AllRestorable(jImgs', iImgs') /\ Topmost(iImgs', idx')
  BY <1>a, <1>b, <1>3 DEF AllRestorable, Topmost
<1>4. CASE Start
  <2>1. CASE idx = {}
    BY <1>3, <1>4, <2>1 DEF Start, Begin
  <2>2. CASE UNCHANGED storeVars
    BY <1>1, <2>2 DEF storeVars
  <2>3. QED
    BY <1>4, <2>1, <2>2 DEF Start, Refuse
<1>5. CASE RestoreFails
  <2>1. idx' = idx /\ iImgs' = iImgs
    BY <1>5 DEF RestoreFails
  <2>2. QED
    BY <1>1, <1>3, <1>5, <2>1 DEF RestoreFails
<1>6. CASE ReplayEnds
  <2>1. CASE UNCHANGED storeVars
    BY <1>1, <2>1 DEF storeVars
  <2>2. ASSUME NEW st \in idx, Begin(st.state.journal_bytes)
        PROVE  AllRestorable(jImgs', iImgs') /\ Topmost(iImgs', idx')
    <3> DEFINE n == Len(st.state.digest)
    <3>1. n \in Nat /\ n <= Len(jrn.recs) /\ st.state.journal_bytes = RECORD * n
      BY <1>6, ReplayedLength, VisibleFiles DEF ReplayEnds, Shaped
    <3>2. /\ jrn' = [exists |-> TRUE, recs |-> SubSeq(jrn.recs, 1, n), torn |-> FALSE]
          /\ jImgs' = jImgs \cup {jrn'}
      BY <2>2, <3>1, BeginCuts
    <3>3. idx = {st}
      BY <1>6 DEF ReplayEnds, Replaying
    <3>4. ASSUME NEW i \in iImgs, NEW s \in i PROVE Restorable(jrn', s)
      <4>1. Len(s.state.digest) \in Nat /\ Len(s.state.digest) <= n
        BY <1>a, <1>b, <3>3 DEF Topmost
      <4>2. Restorable(jrn, s)
        BY <1>a, <1>b DEF AllRestorable
      <4> HIDE DEF n
      <4>3. QED
        BY <1>b, <3>1, <3>2, <4>1, <4>2, RestorableCut
    <3>5. idx' = idx /\ iImgs' = iImgs
      BY <2>2 DEF Begin
    <3>6. QED
      BY <1>2, <3>2, <3>4, <3>5
  <2>3. QED
    BY <1>6, <2>1, <2>2 DEF ReplayEnds, Refuse
<1>7. CASE AppendRecord
  <2>1. /\ jrn' = [jrn EXCEPT !.recs = Append(@, journal[Len(journal)])]
        /\ jImgs' = jImgs \cup {jrn', [jrn EXCEPT !.torn = TRUE]}
        /\ idx' = idx /\ iImgs' = iImgs
    BY <1>7 DEF AppendRecord
  <2>2. journal[Len(journal)] \in Frames
    BY <1>7 DEF AppendRecord, JournalMirrorsDecoder, Shaped, DecIInv, Shapes
  <2>3. ASSUME NEW i \in iImgs, NEW s \in i
        PROVE  Restorable(jrn', s) /\ Restorable([jrn EXCEPT !.torn = TRUE], s)
    <3>1. Restorable(jrn, s) /\ Len(s.state.digest) \in Nat
      BY <1>a, <1>b DEF AllRestorable
    <3>2. QED
      BY <1>b, <2>1, <2>2, <3>1, RestorableGrown, RestorableTorn
  <2>4. QED
    BY <1>2, <2>1, <2>3
<1>8. CASE AppendFails \/ Kill
  <2>1. ASSUME NEW i \in iImgs, NEW s \in i
        PROVE  Restorable([jrn EXCEPT !.torn = TRUE], s)
    BY <1>a, <1>b, RestorableTorn DEF AllRestorable
  <2>2. /\ idx' = idx /\ iImgs' \in {iImgs, {idx}}
        /\ jImgs' \subseteq jImgs \cup {[jrn EXCEPT !.torn = TRUE]}
    BY <1>8 DEF AppendFails, Kill
  <2>3. QED
    BY <1>2, <2>1, <2>2
<1>9. CASE SaveRename
  <2>1. PICK st \in IndexFile :
          /\ saving = {st} /\ st.state.digest = journal /\ Restorable(jrn, st)
    BY <1>9, SavedImage DEF SaveRename, SavingPCs
  <2>2. jImgs' = {jrn} /\ idx' = {st} /\ iImgs' = iImgs \cup {{st}}
    BY <1>9, <2>1 DEF SaveRename, Saving
  <2>3. jrn.recs = journal
    BY <1>9, MirroredLength DEF SaveRename, Receiving
  <2>4. \A i \in iImgs : \A s \in i : Len(s.state.digest) <= Len(journal)
    BY <1>a, <1>b, <2>3 DEF AllRestorable, Restorable
  <2>5. Len(journal) <= Len(journal)
    BY DEF Shaped, DecIInv, Shapes
  <2>6. AllRestorable(jImgs', iImgs')
    BY <1>a, <1>b, <2>1, <2>2 DEF AllRestorable
  <2>7. Topmost(iImgs', idx')
    BY <2>1, <2>2, <2>4, <2>5 DEF Topmost
  <2>8. QED
    BY <2>6, <2>7
<1>10. CASE PowerLoss
  <2>1. PICK j \in jImgs, i \in iImgs : jImgs' = {j} /\ idx' = i /\ iImgs' = {i}
    BY <1>10 DEF PowerLoss
  <2>2. AllRestorable(jImgs', iImgs')
    BY <1>a, <2>1 DEF AllRestorable
  <2>3. \A s \in i : Len(s.state.digest) <= Len(s.state.digest)
    BY <1>b
  <2>4. Topmost(iImgs', idx')
    BY <2>1, <2>3 DEF Topmost
  <2>5. QED
    BY <2>2, <2>4
<1>11. CASE DiscardJournal \/ DiscardIndex
  BY <1>0, <1>11 DEF DiscardJournal, DiscardIndex, Output, Reached, outVars
<1>12. CASE ReplayRecord \/ ReplayFails \/ (\E f \in Frames : Receive(f)) \/ StreamEnds
  BY <1>1, <1>12 DEF ReplayRecord, ReplayFails, Receive, StreamEnds, storeVars
<1>13. CASE SaveSync \/ SaveTmp \/ SaveFails \/ SourceFails
  BY <1>1, <1>b, <1>13 DEF SaveSync, SaveTmp, SaveFails, SourceFails, Return, SyncJournal
<1>14. CASE \/ Finish \/ Stage \/ ExtractFails \/ Publish \/ Reconcile \/ DiscardFails
  <2>1. jImgs' \subseteq jImgs /\ iImgs' \in {iImgs, {idx}} /\ idx' = idx
    BY <1>b, <1>14 DEF Finish, Stage, ExtractFails, Publish, Reconcile, DiscardFails,
                       Return, SyncJournal, storeVars
  <2>2. QED
    BY <1>1, <2>1
<1>15. CASE UNCHANGED vars
  BY <1>1, <1>15 DEF vars, storeVars
<1>16. QED
  BY <1>0, <1>4, <1>5, <1>6, <1>7, <1>8, <1>9, <1>10, <1>11, <1>12, <1>13, <1>14, <1>15
     DEF RecvNext, Step, Fault

-----------------------------------------------------------------------------
(***************************************************************************)
(* The invariant and what follows from it                                  *)
(***************************************************************************)

LEMMA InvariantInit == RecvInit => RecvIInv
<1> SUFFICES ASSUME RecvInit PROVE RecvIInv
  OBVIOUS
<1>1. DecIInv /\ journal = <<>>
  BY NewDecoderInvariant DEF RecvInit, DecInit
<1>2. ProcShapes
  BY DEF RecvInit, ProcShapes, PCs, Exits
<1>3. CountShapes
  BY DEF RecvInit, CountShapes
<1>4. FileShapes
  <2>1. jrn \in jImgs /\ jImgs \subseteq JournalImage
    BY NoJournalImage DEF RecvInit
  <2>2. outDir \in oImgs /\ oImgs \subseteq OutDirs
    BY DEF RecvInit, OutDirs
  <2>3. idx \in iImgs /\ \A i \in iImgs : IndexImage(i)
    BY DEF RecvInit, IndexImage
  <2>4. lastSaved \in Seq(Frames) /\ saves \subseteq Seq(Frames)
    BY DEF RecvInit
  <2>5. QED
    BY <2>1, <2>2, <2>3, <2>4 DEF FileShapes
<1>5. Fresh /\ Replaying /\ JournalMirrorsDecoder
  BY DEF RecvInit, Fresh, Replaying, JournalMirrorsDecoder, Receiving
<1>6. Saving
  BY DEF RecvInit, Saving, SavingPCs
<1>7. StreamAdmissible
  BY <1>1 DEF StreamAdmissible
<1>8. Durable /\ LastIsIndex
  BY DEF RecvInit, Durable, LastIsIndex
<1>9. ResumesOnlySavedStreams /\ NoSaveLost
  BY DEF RecvInit, ResumesOnlySavedStreams, NoSaveLost
<1>10. Output
  BY DEF RecvInit, Output
<1>11. Staging
  BY DEF RecvInit, Staging, StagingAccounted
<1>12. QED
  BY <1>1, <1>2, <1>3, <1>4, <1>5, <1>6, <1>7, <1>8, <1>9, <1>10, <1>11
     DEF RecvIInv, Shaped

LEMMA InvariantNext == RecvIInv /\ [RecvNext]_vars => RecvIInv'
<1> SUFFICES ASSUME RecvIInv, [RecvNext]_vars PROVE RecvIInv'
  OBVIOUS
<1>0. /\ Shaped /\ Fresh /\ JournalMirrorsDecoder /\ Replaying /\ Saving
      /\ StreamAdmissible /\ Durable /\ LastIsIndex /\ ResumesOnlySavedStreams
      /\ NoSaveLost /\ Output /\ Staging
      /\ ProcShapes /\ CountShapes /\ FileShapes
  BY DEF RecvIInv, Shaped
<1>1. DecIInv' /\ StreamAdmissible'
  BY <1>0, DecoderKept
<1>2. ProcShapes' /\ CountShapes' /\ FileShapes'
  BY <1>0, ProcessKept, CountsKept, FilesKept
<1>3. Fresh' /\ JournalMirrorsDecoder' /\ Replaying' /\ Saving'
  BY <1>0, FreshKept, MirrorKept, ReplayKept, SavingKept
<1>4. Durable' /\ LastIsIndex' /\ ResumesOnlySavedStreams' /\ NoSaveLost'
  BY <1>0, DurableKept, LastKept, ResumeKept
<1>5. Output' /\ Staging'
  BY <1>0, OutputKept, StagingKept
<1>6. QED
  BY <1>1, <1>2, <1>3, <1>4, <1>5 DEF RecvIInv, Shaped

\* The invariant of the receiver, its files and its decoder, over any number
\* of runs however they end (runRecv, Store).
THEOREM ReceiverInvariant == RecvSpec => []RecvIInv
BY InvariantInit, InvariantNext, PTL DEF RecvSpec

\* Type correctness of the process, its files and what a power loss may leave
\* of them (runRecv, Store).
THEOREM ReceiverTypes == RecvSpec => []RecvTypeOK
<1>1. RecvIInv => RecvTypeOK
  <2> SUFFICES ASSUME RecvIInv PROVE RecvTypeOK
    OBVIOUS
  <2>1. DecTypeOK
    BY InvariantTypes DEF RecvIInv, Shaped
  <2>2. /\ pc \in Receiving \cup {"off", "replay", "append", "discardIndex"}
        /\ exit \in {"none", "ok", "input", "verify", "incomplete", "killed"}
        /\ accepted \in Nat /\ written \in Nat /\ seen \subseteq Frames
        /\ staged \in Nat
    BY DEF RecvIInv, Shaped, ProcShapes, PCs, Exits, Staging
  <2>3. final \in BOOLEAN
    BY DEF RecvIInv, Shaped, ProcShapes
  <2>4. JournalImage \subseteq JournalFile
    <3>1. StoredFrame \subseteq FrameType
      BY FramesAssumption DEF StoredFrame
    <3>2. Seq(StoredFrame) \subseteq Seq(FrameType)
      BY <3>1
    <3>3. QED
      BY <3>2 DEF JournalImage, JournalFile
  <2>5. jrn \in JournalFile /\ jImgs \subseteq JournalFile /\ jrn \in jImgs
    BY <2>4 DEF RecvIInv, Shaped, FileShapes
  <2>6. /\ idx \subseteq IndexFile /\ idx \in iImgs
        /\ \A i \in iImgs : i \subseteq IndexFile
    BY DEF RecvIInv, Shaped, FileShapes, IndexImage, Recorded
  <2>7. saving \subseteq IndexFile
    <3>1. CASE pc \in SavingPCs
      BY <3>1, SavedImage DEF RecvIInv
    <3>2. CASE pc \notin SavingPCs
      BY <3>2 DEF RecvIInv, Saving
    <3>3. QED
      BY <3>1, <3>2
  <2>8. /\ outDir \in OutDirs /\ oImgs \subseteq OutDirs /\ outDir \in oImgs
        /\ lastSaved \in Seq(Frames) /\ saves \subseteq Seq(Frames)
    BY DEF RecvIInv, Shaped, FileShapes
  <2>9. {runs, kills, losses, faults, tampers} \subseteq Nat
    BY DEF RecvIInv, Shaped, CountShapes
  <2>10. QED
    BY <2>1, <2>2, <2>3, <2>5, <2>6, <2>7, <2>8, <2>9 DEF RecvTypeOK
<1>2. QED
  BY <1>1, ReceiverInvariant, PTL

\* While frames are taken the journal is the decoder's stream, record for
\* record, whatever earlier runs left behind (Begin, apply, Append).
THEOREM JournalMirrors == RecvSpec => []JournalMirrorsDecoder
<1>1. RecvIInv => JournalMirrorsDecoder
  BY DEF RecvIInv
<1>2. QED
  BY <1>1, ReceiverInvariant, PTL

\* A run resumes a stream that was saved whole, never a part of one or
\* another's, even from files that were rotten or swapped (VerifyResume).
THEOREM ResumesSaved == RecvSpec => []ResumesOnlySavedStreams
<1>1. RecvIInv => ResumesOnlySavedStreams
  BY DEF RecvIInv
<1>2. QED
  BY <1>1, ReceiverInvariant, PTL

\* Kills and failing calls alone never cost a completed Save (Store.Save,
\* restoreProgress).
THEOREM SavesKept == RecvSpec => []NoSaveLost
<1>1. RecvIInv => NoSaveLost
  BY DEF RecvIInv
<1>2. QED
  BY <1>1, ReceiverInvariant, PTL

\* A staging directory is in use, or the remains of a killed process, a power
\* loss or a failed extraction, one for each at the most (extractAtomically).
THEOREM StagingBounded == RecvSpec => []StagingAccounted
<1>1. RecvIInv => StagingAccounted
  BY DEF RecvIInv, Staging
<1>2. QED
  BY <1>1, ReceiverInvariant, PTL

\* Every pair of files a power loss may leave before the dataset is out is one
\* the next run restores (Save flushes the journal before it renames).
THEOREM FilesConsistent == RecvSpec => []ResumeConsistent
<1>1. RecvIInv => ResumeConsistent
  <2> SUFFICES ASSUME RecvIInv, tampers = 0, outDir = "absent"
               PROVE  \A j \in jImgs, i \in iImgs : \A st \in i : Restorable(j, st)
    BY DEF ResumeConsistent
  <2>1. "absent" \in oImgs
    BY DEF RecvIInv, Shaped, FileShapes
  <2>2. QED
    BY <2>1 DEF RecvIInv, Durable
<1>2. QED
  BY <1>1, ReceiverInvariant, PTL

-----------------------------------------------------------------------------
\* What can happen during a replay.
LEMMA ReplaySteps ==
    ASSUME pc = "replay", RecvNext
    PROVE  ReplayRecord \/ ReplayFails \/ ReplayEnds \/ RestoreFails \/ Kill \/ PowerLoss
BY DEF RecvNext, Step, Fault, Start, Receive, AppendRecord, SaveSync, SaveTmp,
       SaveRename, SaveFails, SourceFails, StreamEnds, Finish, Stage, Publish, Reconcile,
       DiscardJournal, DiscardIndex, AppendFails, ExtractFails, DiscardFails, Tamper

\* An index that fits the journal is not turned away before the replay,
LEMMA RestorableUsable ==
    ASSUME FileShapes, NEW st \in idx, Restorable(jrn, st)
    PROVE  ~Unusable(st)
<1>1. /\ Len(st.state.digest) \in Nat /\ Len(jrn.recs) \in Nat /\ jrn \in JournalImage
  BY VisibleFiles
<1>2. /\ st.readable /\ WellFormed(st.state) /\ st.state.session = Session /\ jrn.exists
      /\ st.state.journal_bytes = 2 * Len(st.state.digest)
      /\ Len(st.state.digest) <= Len(jrn.recs)
  BY DEF Restorable, RECORD
<1>3. JLen(jrn) \in Nat /\ JLen(jrn) >= 2 * Len(jrn.recs)
  BY <1>1, JournalLength
<1>4. ~(JLen(jrn) < st.state.journal_bytes)
  BY <1>1, <1>2, <1>3
<1>5. QED
  BY <1>2, <1>4 DEF Unusable

\* nor by any record of it,
LEMMA RestorableReplays ==
    ASSUME Shaped, Replaying, pc = "replay", NEW st \in idx, Restorable(jrn, st)
    PROVE  ~ReplayFails
<1> SUFFICES ASSUME ReplayFails PROVE FALSE
  OBVIOUS
<1>1. idx = {st} /\ journal = SubSeq(jrn.recs, 1, Len(journal))
  BY DEF Replaying
<1>2. /\ Offset < st.state.journal_bytes
      /\ Offset + RECORD > st.state.journal_bytes \/ ~Admissible(NextRecord)
  BY <1>1 DEF ReplayFails
<1>3. /\ Len(st.state.digest) \in Nat /\ jrn.recs \in Seq(StoredFrame)
      /\ st.state.journal_bytes = 2 * Len(st.state.digest) /\ Len(journal) \in Nat
  BY VisibleFiles DEF Shaped, DecIInv, Shapes, RECORD
<1>4. Len(journal) + 1 \in 1 .. Len(st.state.digest)
  BY <1>2, <1>3 DEF Offset, RECORD
<1>5. ~(Offset + RECORD > st.state.journal_bytes)
  BY <1>3, <1>4 DEF Offset, RECORD
<1>6. /\ SubSeq(jrn.recs, 1, Len(st.state.digest)) = st.state.digest
      /\ Len(st.state.digest) <= Len(jrn.recs)
      /\ \A i \in 1 .. Len(st.state.digest) : Admissible(st.state.digest[i])
  BY DEF Restorable
<1>7. st.state.digest[Len(journal) + 1] = NextRecord
  BY <1>3, <1>4, <1>6 DEF NextRecord
<1>8. QED
  BY <1>2, <1>4, <1>5, <1>6, <1>7

\* nor at its end.
LEMMA RestorableVerifies ==
    ASSUME Shaped, Replaying, pc = "replay", NEW st \in idx, Restorable(jrn, st),
           Offset >= st.state.journal_bytes
    PROVE  verify_resume(st.state)
<1>1. Len(journal) = Len(st.state.digest) /\ journal = SubSeq(jrn.recs, 1, Len(journal))
  BY ReplayedLength DEF Replaying
<1>2. journal = st.state.digest
  BY <1>1 DEF Restorable
<1>3. held = HeldBy(journal)
  BY DEF Shaped, DecIInv, HeldIsStream
<1>4. DOMAIN st.state.held = Blocks
  BY DEF Shaped, FileShapes, IndexImage, Recorded, IndexFile, ResumeState
<1>5. /\ st.state.session = Session /\ st.state.symbol_count = TotalSymbols
      /\ st.state.held = HeldBy(st.state.digest)
  BY DEF Restorable
<1>6. QED
  BY <1>2, <1>3, <1>4, <1>5 DEF verify_resume

\* No kill, power loss or failed write of an earlier run makes restoreProgress
\* refuse the files it finds: it turns them away only if somebody changed
\* them, they cannot be read now, or the dataset is out already.
THEOREM OwnProgressTaken == RecvSpec => NeverRefused
<1> DEFINE A == tampers = 0 /\ outDir = "absent" /\ faults' = faults =>
                   /\ ~(pc = "replay" /\ pc' = "off" /\ exit' = "input")
                   /\ ~(pc = "off" /\ pc' = "off" /\ runs' # runs)
<1>1. RecvIInv /\ [RecvNext]_vars => [A]_vars
  <2> SUFFICES ASSUME RecvIInv, RecvNext, tampers = 0, outDir = "absent", faults' = faults
               PROVE  /\ ~(pc = "replay" /\ pc' = "off" /\ exit' = "input")
                      /\ ~(pc = "off" /\ pc' = "off" /\ runs' # runs)
    BY DEF RecvIInv
  <2>0. /\ Shaped /\ Replaying /\ FileShapes /\ CountShapes
        /\ \A st \in idx : Restorable(jrn, st)
    BY DEF RecvIInv, Shaped, FileShapes, Durable
  <2>1. ~RestoreFails
    BY <2>0 DEF RestoreFails, CountShapes
  <2>2. CASE pc = "replay"
    <3>1. CASE ReplayFails
      BY <2>0, <2>2, <3>1, RestorableReplays DEF ReplayFails
    <3>2. CASE ReplayEnds
      BY <2>0, <2>2, <3>2, RestorableVerifies DEF ReplayEnds
    <3>3. CASE ReplayRecord
      BY <2>2, <3>3 DEF ReplayRecord, procVars
    <3>4. CASE Kill \/ PowerLoss
      BY <2>2, <3>4 DEF Kill, PowerLoss, ProcessEnds
    <3>5. QED
      BY <2>1, <2>2, <3>1, <3>2, <3>3, <3>4, ReplaySteps
  <2>3. CASE pc = "off"
    <3>1. CASE Start
      BY <2>0, <2>3, <3>1, RestorableUsable DEF Start
    <3>2. CASE PowerLoss \/ Tamper
      BY <2>3, <3>2 DEF PowerLoss, Tamper
    <3>3. QED
      BY <2>1, <2>3, <3>1, <3>2, OffSteps
  <2>4. QED
    BY <2>2, <2>3
<1>2. QED
  BY <1>1, ReceiverInvariant, PTL DEF RecvSpec, NeverRefused

\* The output directory appears only when every block decoded to the payload
\* (finish before extractAtomically, whatever a power loss undoes later).
THEOREM VerifiedPublished == RecvSpec => OnlyVerifiedPublished
<1> DEFINE A == outDir = "absent" /\ outDir' # "absent" => \A b \in Blocks : data[b] = "right"
<1>1. RecvIInv /\ [RecvNext]_vars => [A]_vars
  <2> SUFFICES ASSUME RecvIInv, RecvNext, outDir = "absent", outDir' # "absent"
               PROVE  \A b \in Blocks : data[b] = "right"
    BY DEF RecvIInv
  <2>1. Output
    BY DEF RecvIInv
  <2>2. ~PowerLoss
    BY <2>1 DEF Output, PowerLoss
  <2>3. Publish
    BY <2>2, OutputStep
  <2>4. QED
    BY <2>1, <2>3 DEF Publish, Output
<1>2. QED
  BY <1>1, ReceiverInvariant, PTL DEF RecvSpec, OnlyVerifiedPublished

-----------------------------------------------------------------------------
(***************************************************************************)
(* How far the documented claims hold that the receiver does not keep      *)
(* everywhere                                                              *)
(***************************************************************************)

\* The package comment's claim, that an index covers no more journal than
\* exists, holds until the dataset is out: only Discard, which removes the
\* journal first, breaks it.
THEOREM CoveredUntilDelivered ==
    RecvSpec => [](outDir = "absent" => IndexCoveredByJournal)
<1>1. RecvIInv => (outDir = "absent" => IndexCoveredByJournal)
  <2> SUFFICES ASSUME RecvIInv, outDir = "absent", tampers = 0, NEW st \in idx
               PROVE  st.state.journal_bytes <= JLen(jrn)
    BY DEF IndexCoveredByJournal
  <2>1. /\ "absent" \in oImgs /\ jrn \in jImgs /\ idx \in iImgs
        /\ jrn \in JournalImage /\ Durable
    BY DEF RecvIInv, Shaped, FileShapes
  <2>2. Restorable(jrn, st)
    BY <2>1 DEF Durable
  <2>3. /\ st.state.journal_bytes = RECORD * Len(st.state.digest)
        /\ Len(st.state.digest) <= Len(jrn.recs)
    BY <2>2 DEF Restorable
  <2>4. st.state.digest \in Seq(Frames)
    BY DEF RecvIInv, Shaped, FileShapes, IndexImage, Recorded
  <2>5. Len(st.state.digest) \in Nat /\ Len(jrn.recs) \in Nat /\ jrn.torn \in BOOLEAN
    BY <2>1, <2>4 DEF JournalImage
  <2>6. JLen(jrn) >= 2 * Len(jrn.recs)
    BY <2>1, JournalLength
  <2>7. st.state.journal_bytes = 2 * Len(st.state.digest)
    BY <2>3 DEF RECORD
  <2>8. JLen(jrn) \in Nat
    BY <2>1, JournalLength
  <2>9. QED
    BY <2>3, <2>5, <2>6, <2>7, <2>8
<1>2. QED
  BY <1>1, ReceiverInvariant, PTL

\* Past its last save a run has its whole stream in the index.
Ending == {"finish", "extract", "publish", "reconcile", "discard", "discardIndex"}
StreamSaved == \E st \in idx : st.state.digest = journal
EndingSaved == pc \in Ending => StreamSaved

LEMMA EndingKept ==
    ASSUME RecvIInv, EndingSaved, [RecvNext]_vars
    PROVE  EndingSaved'
<1>0. Shaped /\ JournalMirrorsDecoder /\ Saving /\ StreamAdmissible
  BY DEF RecvIInv
<1>1. CASE SaveRename
  <2>1. PICK st \in IndexFile : saving = {st} /\ st.state.digest = journal
    BY <1>0, <1>1, SavedImage DEF SaveRename, SavingPCs
  <2>2. idx' = {st} /\ journal' = journal
    BY <1>1, <2>1 DEF SaveRename, decVars
  <2>3. QED
    BY <2>1, <2>2 DEF EndingSaved, StreamSaved
<1>2. CASE pc' \notin Ending
  BY <1>2 DEF EndingSaved
<1>3. CASE UNCHANGED vars
  BY <1>3 DEF EndingSaved, StreamSaved, vars, decVars, procVars, storeVars
<1>4. CASE Finish \/ Stage \/ Publish \/ Reconcile \/ DiscardJournal
  <2>1. pc \in Ending /\ idx' = idx /\ (journal' = journal \/ pc' = "off")
    BY <1>4 DEF Finish, Stage, Publish, Reconcile, DiscardJournal, Return, ProcessEnds,
                decVars, storeVars, Ending
  <2>2. QED
    BY <2>1 DEF EndingSaved, StreamSaved, Ending
<1>5. CASE Start \/ ReplayRecord \/ ReplayFails \/ ReplayEnds \/ RestoreFails
  <2>1. pc' \notin Ending
    BY <1>5 DEF Start, ReplayRecord, ReplayFails, ReplayEnds, RestoreFails, Refuse,
                ProcessEnds, procVars, Ending
  <2>2. QED
    BY <1>2, <2>1
<1>6. CASE \/ \E f \in Frames : Receive(f)
           \/ AppendRecord \/ SaveSync \/ SaveTmp \/ StreamEnds
  <2>1. pc' \notin Ending
    BY <1>6 DEF Receive, AppendRecord, SaveSync, SaveTmp, StreamEnds, BeginSave,
                ApplyReturns, procVars, Ending
  <2>2. QED
    BY <1>2, <2>1
<1>7. CASE \/ DiscardIndex \/ AppendFails \/ SaveFails \/ SourceFails \/ ExtractFails
           \/ DiscardFails \/ Kill \/ PowerLoss \/ Tamper
  <2>1. pc' \notin Ending
    BY <1>7 DEF DiscardIndex, AppendFails, SaveFails, SourceFails, ExtractFails,
                DiscardFails, Kill, PowerLoss, Tamper, Return, ProcessEnds, procVars, Ending
  <2>2. QED
    BY <1>2, <2>1
<1>8. QED
  BY <1>1, <1>3, <1>4, <1>5, <1>6, <1>7 DEF RecvNext, Step, Fault

\* A run that was taking frames and returns, unless it succeeds, leaves an
\* index of everything it took.
SavedOnReturn ==
    [][ IsUp /\ pc' = "off" /\ exit' \notin {"killed", "ok"} /\ faults' = faults
          => (\E st \in idx' : st.state.digest = journal) ]_vars

\* RESUME.md's claim, that the index is rewritten once on exit, holds of every
\* return that no failing call forces: an incomplete stream, a payload that does
\* not verify, an output directory in the way, an inventory that disagrees
\* (runRecv).
THEOREM ReturnsSaved == RecvSpec => SavedOnReturn
<1> DEFINE A == IsUp /\ pc' = "off" /\ exit' \notin {"killed", "ok"} /\ faults' = faults
                  => (\E st \in idx' : st.state.digest = journal)
<1>1. RecvInit => EndingSaved
  BY DEF RecvInit, EndingSaved, Ending
<1>2. RecvIInv /\ EndingSaved /\ [RecvNext]_vars => EndingSaved'
  BY EndingKept
<1>3. RecvIInv /\ EndingSaved /\ [RecvNext]_vars => [A]_vars
  <2> SUFFICES ASSUME RecvIInv, EndingSaved, RecvNext, IsUp, pc' = "off",
                      exit' \notin {"killed", "ok"}, faults' = faults
               PROVE  \E st \in idx' : st.state.digest = journal
    OBVIOUS
  <2>0. faults \in Nat
    BY DEF RecvIInv, Shaped, CountShapes
  <2>1. CASE Finish \/ Stage \/ Reconcile
    <3>1. pc \in Ending /\ idx' = idx
      BY <2>1 DEF Finish, Stage, Reconcile, Return, Ending, storeVars
    <3>2. QED
      BY <3>1 DEF EndingSaved, StreamSaved
  <2>2. CASE \/ Start \/ ReplayRecord \/ ReplayFails \/ ReplayEnds \/ Tamper
    BY <2>2 DEF Start, ReplayRecord, ReplayFails, ReplayEnds, Tamper, IsUp
  <2>3. CASE \/ \E f \in Frames : Receive(f)
             \/ AppendRecord \/ SaveSync \/ SaveTmp \/ SaveRename \/ StreamEnds
             \/ Publish \/ DiscardJournal
    BY <2>3 DEF Receive, AppendRecord, SaveSync, SaveTmp, SaveRename, StreamEnds, Publish,
                DiscardJournal, BeginSave, ApplyReturns, procVars
  <2>4. CASE DiscardIndex \/ Kill \/ PowerLoss
    BY <2>4 DEF DiscardIndex, Kill, PowerLoss, ProcessEnds
  <2>5. CASE \/ RestoreFails \/ AppendFails \/ SaveFails \/ SourceFails \/ ExtractFails
             \/ DiscardFails
    BY <2>0, <2>5 DEF RestoreFails, AppendFails, SaveFails, SourceFails, ExtractFails,
                      DiscardFails
  <2>6. QED
    BY <2>1, <2>2, <2>3, <2>4, <2>5 DEF RecvNext, Step, Fault
<1>4. QED
  BY <1>1, <1>2, <1>3, ReceiverInvariant, PTL DEF RecvSpec, SavedOnReturn

-----------------------------------------------------------------------------
(***************************************************************************)
(* The receiver implements ResumableTransfer                               *)
(***************************************************************************)

\* The abstract variables under the refinement mapping.
UpStream == IF IsUp THEN journal ELSE <<>>
Safe == IF Described = {} THEN <<>> ELSE CHOOSE s \in Described : TRUE
Delivered == outDir # "absent"

\* What the mapping takes for safe is what the index describes.
LEMMA SafeIsIndex ==
    ASSUME FileShapes
    PROVE  /\ idx = {} => Safe = <<>>
           /\ \A st \in idx : Safe = st.state.digest
<1>1. idx = {} => Safe = <<>>
  BY DEF Safe, Described
<1>2. ASSUME NEW st \in idx PROVE Safe = st.state.digest
  <2>1. idx = {st}
    BY DEF FileShapes, IndexImage
  <2>2. Described = {st.state.digest}
    BY <2>1 DEF Described
  <2>3. QED
    BY <2>2 DEF Safe
<1>3. QED
  BY <1>1, <1>2

\* An index that stays leaves the abstract safe stream as it is.
LEMMA SafeStays ==
    ASSUME idx' = idx PROVE Safe' = Safe
BY DEF Safe, Described

\* Every block that decoded to the payload is solved by its sound frames.
LEMMA RightYields ==
    ASSUME DecIInv, \A b \in Blocks : data[b] = "right"
    PROVE  Yields(journal)
BY DEF DecIInv, SoundBlocks, Yields

LEMMA TransferInit == RecvInit => Transfer!RTInit
<1> SUFFICES ASSUME RecvInit PROVE Transfer!RTInit
  OBVIOUS
<1>1. ~IsUp /\ Safe = <<>> /\ ~Delivered
  BY DEF RecvInit, IsUp, Safe, Described, Delivered
<1>2. QED
  BY <1>1 DEF Transfer!RTInit, IsUp, Safe, Delivered

\* A step that changes nothing abstract.
LEMMA Stutters ==
    ASSUME IsUp' = IsUp, UpStream' = UpStream, Safe' = Safe, Delivered' = Delivered
    PROVE  UNCHANGED Transfer!rtVars
BY DEF Transfer!rtVars, UpStream, Safe, Delivered

LEMMA ComesUp ==
    ASSUME ~IsUp, IsUp', journal' = Safe, Safe' = Safe, Delivered' = Delivered
    PROVE  Transfer!ComeUp
BY DEF Transfer!ComeUp, Safe, Delivered

LEMMA GoesDown ==
    ASSUME IsUp, ~IsUp', Safe' = Safe, Delivered' = Delivered
    PROVE  Transfer!GoDown
BY DEF Transfer!GoDown, Safe, Delivered

\* A process that ends without touching index or output goes down, if it was
\* up at all.
LEMMA EndMapped ==
    ASSUME NEW how, ProcessEnds(how), idx' = idx, outDir' = outDir
    PROVE  Transfer!GoDown \/ UNCHANGED Transfer!rtVars
<1>1. ~IsUp'
  BY DEF ProcessEnds, IsUp
<1>2. Safe' = Safe /\ Delivered' = Delivered
  BY SafeStays DEF Delivered
<1>3. CASE IsUp
  BY <1>1, <1>2, <1>3, GoesDown
<1>4. CASE ~IsUp
  <2>1. UpStream' = UpStream /\ IsUp' = IsUp
    BY <1>1, <1>4 DEF UpStream, IsUp
  <2>2. QED
    BY <1>2, <2>1, Stutters
<1>5. QED
  BY <1>3, <1>4

\* A process that stays up, or stays down, with the same stream.
LEMMA IdleMapped ==
    ASSUME idx' = idx, outDir' = outDir,
           \/ ~IsUp /\ ~IsUp'
           \/ IsUp /\ IsUp' /\ journal' = journal
    PROVE  UNCHANGED Transfer!rtVars
<1>1. Safe' = Safe /\ Delivered' = Delivered
  BY SafeStays DEF Delivered
<1>2. UpStream' = UpStream /\ IsUp' = IsUp
  BY DEF UpStream, IsUp
<1>3. QED
  BY <1>1, <1>2, Stutters

LEMMA TransferStep ==
    ASSUME RecvIInv, [RecvNext]_vars, losses' = 0, tampers' = 0
    PROVE  Transfer!RTNext \/ UNCHANGED Transfer!rtVars
<1> DEFINE Mapped == Transfer!RTNext \/ UNCHANGED Transfer!rtVars
<1>0. /\ Shaped /\ Fresh /\ Replaying /\ JournalMirrorsDecoder /\ Saving
      /\ StreamAdmissible /\ Output /\ FileShapes /\ DecIInv /\ CountShapes
  BY DEF RecvIInv, Shaped
<1>a. ~PowerLoss /\ ~Tamper
  BY <1>0, CountsGrow
<1>b. FileShapes'
  BY <1>0, FilesKept
<1>1. ASSUME NEW how, ProcessEnds(how), idx' = idx, outDir' = outDir PROVE Mapped
  BY <1>1, EndMapped DEF Transfer!RTNext
<1>2. CASE Start
  <2>1. CASE pc' = "recv"
    <3>1. pc = "off" /\ idx = {} /\ UNCHANGED <<decVars, idx, outDir>>
      BY <1>2, <2>1 DEF Start, Begin, Refuse, ProcessEnds, outVars
    <3>2. journal' = <<>> /\ Safe = <<>>
      BY <1>0, <3>1, SafeIsIndex DEF Fresh, DecInit, decVars
    <3>3. ~IsUp /\ IsUp' /\ Safe' = Safe /\ Delivered' = Delivered
      BY <2>1, <3>1, SafeStays DEF IsUp, Delivered
    <3>4. QED
      BY <3>2, <3>3, ComesUp DEF Transfer!RTNext
  <2>2. CASE ProcessEnds("input") /\ UNCHANGED <<idx, outDir>>
    BY <1>1, <2>2
  <2>3. CASE pc' = "replay" /\ UNCHANGED <<idx, outDir>>
    BY <1>2, <2>3, IdleMapped DEF Start, IsUp
  <2>4. QED
    BY <1>2, <2>1, <2>2, <2>3 DEF Start, Refuse, storeVars, outVars
<1>3. CASE ReplayRecord
  BY <1>3, IdleMapped DEF ReplayRecord, procVars, storeVars, outVars, IsUp
<1>4. CASE ReplayEnds
  <2>1. CASE ProcessEnds("input") /\ UNCHANGED <<idx, outDir>>
    BY <1>1, <2>1
  <2>2. ASSUME NEW st \in idx, verify_resume(st.state), pc' = "recv",
               UNCHANGED <<decVars, idx, outDir>>
        PROVE  Mapped
    <3>1. journal' = Safe
      BY <1>0, <2>2, SafeIsIndex DEF verify_resume, decVars
    <3>2. ~IsUp /\ IsUp' /\ Safe' = Safe /\ Delivered' = Delivered
      BY <1>4, <2>2, SafeStays DEF ReplayEnds, IsUp, Delivered
    <3>3. QED
      BY <3>1, <3>2, ComesUp DEF Transfer!RTNext
  <2>3. QED
    BY <1>4, <2>1, <2>2 DEF ReplayEnds, Refuse, Begin, storeVars, outVars
<1>5. ASSUME NEW f \in Frames, Receive(f) PROVE Mapped
  <2>1. CASE Accept(f) /\ pc' = "append"
    <3>1. pc = "recv" /\ UNCHANGED <<idx, outDir>>
      BY <1>5 DEF Receive, storeVars, outVars
    <3>2. IsUp /\ IsUp' /\ Safe' = Safe /\ Delivered' = Delivered
      BY <2>1, <3>1, SafeStays DEF IsUp, Delivered
    <3>3. journal' = Append(journal, f) /\ f \in {g \in Frames : Admissible(g)}
      BY <2>1 DEF Accept
    <3>4. Transfer!Take
      BY <3>2, <3>3 DEF Transfer!Take, Safe, Delivered
    <3>5. QED
      BY <3>4 DEF Transfer!RTNext
  <2>2. CASE Reject(f) /\ UNCHANGED procVars
    BY <1>5, <2>2, IdleMapped DEF Receive, Reject, decVars, procVars, storeVars, outVars, IsUp
  <2>3. QED
    BY <1>5, <2>1, <2>2 DEF Receive
<1>6. CASE AppendRecord \/ SaveSync \/ SaveTmp \/ StreamEnds
  <2>1. IsUp /\ IsUp' /\ journal' = journal /\ idx' = idx /\ outDir' = outDir
    BY <1>6 DEF AppendRecord, SaveSync, SaveTmp, StreamEnds, BeginSave, ApplyReturns,
                decVars, storeVars, outVars, IsUp
  <2>2. QED
    BY <2>1, IdleMapped
<1>7. CASE SaveRename
  <2>1. PICK st \in IndexFile : saving = {st} /\ st.state.digest = journal
    BY <1>0, <1>7, SavedImage DEF SaveRename, SavingPCs
  <2>2. idx' = {st} /\ journal' = journal /\ Delivered' = Delivered
    BY <1>7, <2>1 DEF SaveRename, decVars, outVars, Delivered
  <2>3. Safe' = journal
    BY <2>1, <2>2 DEF Safe, Described
  <2>4. IsUp /\ IsUp'
    BY <1>7 DEF SaveRename, ApplyReturns, BeginSave, IsUp
  <2>5. Transfer!Save
    BY <2>2, <2>3, <2>4 DEF Transfer!Save, Safe, Delivered
  <2>6. QED
    BY <2>5 DEF Transfer!RTNext
<1>8. CASE Publish
  <2>1. Yields(journal) /\ outDir = "absent"
    BY <1>0, <1>8, RightYields DEF Publish, Output
  <2>2. IsUp /\ IsUp' /\ journal' = journal /\ Safe' = Safe /\ outDir' = "whole"
    BY <1>8, SafeStays DEF Publish, IsUp, decVars, storeVars
  <2>3. Transfer!Deliver
    BY <2>1, <2>2 DEF Transfer!Deliver, Safe
  <2>4. QED
    BY <2>3 DEF Transfer!RTNext
<1>9. CASE Finish \/ Stage \/ Reconcile \/ DiscardJournal
  <2>1. /\ idx' = idx /\ outDir' = outDir
        /\ \/ IsUp /\ IsUp' /\ journal' = journal
           \/ \E how : ProcessEnds(how)
    BY <1>9 DEF Finish, Stage, Reconcile, DiscardJournal, Return, decVars, storeVars,
                outVars, IsUp
  <2>2. QED
    BY <1>1, <2>1, IdleMapped
<1>10. CASE DiscardIndex
  <2>1. idx' = {} /\ outDir' = outDir /\ outDir # "absent" /\ ~IsUp' /\ IsUp
    BY <1>0, <1>10 DEF DiscardIndex, ProcessEnds, outVars, Output, IsUp
  <2>2. Safe' = <<>>
    BY <2>1 DEF Safe, Described
  <2>3. Transfer!Retire
    BY <2>1, <2>2 DEF Transfer!Retire, Safe
  <2>4. QED
    BY <2>3 DEF Transfer!RTNext
<1>11. CASE \/ ReplayFails \/ RestoreFails \/ AppendFails \/ SaveFails \/ SourceFails
            \/ ExtractFails \/ DiscardFails \/ Kill
  <2>1. idx' = idx /\ outDir' = outDir /\ \E how : ProcessEnds(how)
    BY <1>11 DEF ReplayFails, RestoreFails, AppendFails, SaveFails, SourceFails,
                 ExtractFails, DiscardFails, Kill, Return, storeVars, outVars
  <2>2. QED
    BY <1>1, <2>1
<1>12. CASE UNCHANGED vars
  BY <1>12, IdleMapped DEF vars, decVars, procVars, storeVars, outVars, IsUp
<1>13. QED
  BY <1>a, <1>2, <1>3, <1>4, <1>5, <1>6, <1>7, <1>8, <1>9, <1>10, <1>11, <1>12
     DEF RecvNext, Step, Fault

\* As long as the machine keeps its power and nobody else touches the state
\* directory, every behaviour of the receiver is one of ResumableTransfer: it
\* comes back with what it saved last, delivers once and only from a stream
\* that decodes, and gives up saved progress only after that (runRecv,
\* restoreProgress, Store.Save, extractAtomically, Store.Discard).
THEOREM ReceiverRefines ==
    RecvSpec /\ [](losses = 0 /\ tampers = 0) => ImplementsTransfer
<1>1. RecvInit => Transfer!RTInit
  BY TransferInit
<1>2. RecvIInv /\ [RecvNext]_vars /\ (losses = 0 /\ tampers = 0)'
        => [Transfer!RTNext]_Transfer!rtVars
  BY TransferStep
<1>3. QED
  BY <1>1, <1>2, ReceiverInvariant, PTL DEF RecvSpec, ImplementsTransfer, Transfer!RTSpec

\* A stream extends itself, and one that grew extends what it extended.
LEMMA ExtendsSelf ==
    ASSUME NEW S, NEW s \in Seq(S) PROVE Transfer!Extends(s, s)
<1>1. SubSeq(s, 1, Len(s)) = s
  OBVIOUS
<1>2. QED
  BY <1>1 DEF Transfer!Extends

LEMMA ExtendsMore ==
    ASSUME NEW S, NEW s \in Seq(S), NEW t \in Seq(S), NEW f \in S,
           Transfer!Extends(t, s)
    PROVE  Transfer!Extends(Append(t, f), s)
<1>1. Len(s) <= Len(t) /\ SubSeq(t, 1, Len(s)) = s
  BY DEF Transfer!Extends
<1>2. SubSeq(Append(t, f), 1, Len(s)) = SubSeq(t, 1, Len(s))
  BY <1>1
<1>3. Len(Append(t, f)) = Len(t) + 1 /\ Len(s) \in Nat /\ Len(t) \in Nat
  OBVIOUS
<1>4. QED
  BY <1>1, <1>2, <1>3 DEF Transfer!Extends

\* The abstract steps keep it that a receiver holds what it saved, and none
\* gives up a part of it.
LEMMA TransferKeeps ==
    ASSUME Transfer!HoldsSaved, [Transfer!RTNext]_Transfer!rtVars
    PROVE  /\ Transfer!HoldsSaved'
           /\ (Delivered /\ Safe' = <<>>) \/ Transfer!Extends(Safe', Safe)
<1> DEFINE F == {f \in Frames : Admissible(f)}
<1>0. /\ UpStream \in Seq(F) /\ Safe \in Seq(F)
      /\ IsUp => Transfer!Extends(UpStream, Safe)
  BY DEF Transfer!HoldsSaved, UpStream, Safe
<1> HIDE DEF F
<1>1. ASSUME UpStream' \in Seq(F), Safe' \in Seq(F),
             IsUp' => Transfer!Extends(UpStream', Safe')
      PROVE  Transfer!HoldsSaved'
  BY <1>1 DEF Transfer!HoldsSaved, UpStream, Safe, F, Transfer!Extends
<1>2. CASE Transfer!ComeUp
  <2>1. UpStream' = Safe /\ Safe' = Safe
    BY <1>2 DEF Transfer!ComeUp, UpStream, Safe
  <2>2. Transfer!Extends(Safe, Safe)
    BY <1>0, ExtendsSelf
  <2>3. QED
    BY <1>0, <1>1, <2>1, <2>2
<1>3. CASE Transfer!Take
  <2>1. /\ IsUp /\ Safe' = Safe
        /\ \E f \in F : UpStream' = Append(UpStream, f)
    BY <1>3 DEF Transfer!Take, UpStream, Safe, F
  <2>2. PICK f \in F : UpStream' = Append(UpStream, f)
    BY <2>1
  <2>3. Transfer!Extends(Append(UpStream, f), Safe) /\ Transfer!Extends(Safe, Safe)
    BY <1>0, <2>1, ExtendsMore, ExtendsSelf
  <2>4. Append(UpStream, f) \in Seq(F)
    BY <1>0
  <2>5. QED
    BY <1>0, <1>1, <2>1, <2>2, <2>3, <2>4
<1>4. CASE Transfer!Save
  <2>1. IsUp /\ UpStream' = UpStream /\ Safe' = UpStream
    BY <1>4 DEF Transfer!Save, UpStream, Safe
  <2>2. Transfer!Extends(UpStream, UpStream)
    BY <1>0, ExtendsSelf
  <2>3. QED
    BY <1>0, <1>1, <2>1, <2>2
<1>5. CASE Transfer!Deliver \/ UNCHANGED Transfer!rtVars
  <2>1. IsUp' = IsUp /\ UpStream' = UpStream /\ Safe' = Safe
    BY <1>5 DEF Transfer!Deliver, Transfer!rtVars, UpStream, Safe
  <2>2. Transfer!Extends(Safe, Safe)
    BY <1>0, ExtendsSelf
  <2>3. QED
    BY <1>0, <1>1, <2>1, <2>2
<1>6. CASE Transfer!GoDown
  <2>1. ~IsUp' /\ UpStream' = <<>> /\ Safe' = Safe
    BY <1>6 DEF Transfer!GoDown, UpStream, Safe
  <2>2. Transfer!Extends(Safe, Safe)
    BY <1>0, ExtendsSelf
  <2>3. QED
    BY <1>0, <1>1, <2>1, <2>2
<1>7. CASE Transfer!Retire
  <2>1. ~IsUp' /\ UpStream' = <<>> /\ Safe' = <<>> /\ Delivered
    BY <1>7 DEF Transfer!Retire, UpStream, Safe, Delivered
  <2>2. QED
    BY <1>1, <2>1
<1>8. QED
  BY <1>2, <1>3, <1>4, <1>5, <1>6, <1>7 DEF Transfer!RTNext

\* As long as the machine keeps its power and nobody else touches the state
\* directory, saved progress only grows, through kills, failing calls and any
\* number of runs, until the dataset is out (restoreProgress, Store.Save).
THEOREM ProgressGrows ==
    RecvSpec /\ [](losses = 0 /\ tampers = 0) => Transfer!SavedOnlyGrows
<1>1. Transfer!RTInit => Transfer!HoldsSaved
  <2> SUFFICES ASSUME Transfer!RTInit PROVE Transfer!HoldsSaved
    OBVIOUS
  <2>1. ~IsUp /\ UpStream = <<>> /\ Safe = <<>>
    BY DEF Transfer!RTInit, UpStream, Safe
  <2>2. <<>> \in Seq({f \in Frames : Admissible(f)})
    OBVIOUS
  <2>3. QED
    BY <2>1, <2>2, Zenon DEF Transfer!HoldsSaved, UpStream, Safe
<1>2. Transfer!HoldsSaved /\ [Transfer!RTNext]_Transfer!rtVars => Transfer!HoldsSaved'
  BY TransferKeeps
<1>3. Transfer!HoldsSaved /\ [Transfer!RTNext]_Transfer!rtVars
        => [(outDir # "absent" /\ Safe' = <<>>) \/ Transfer!Extends(Safe', Safe)]_Transfer!rtVars
  BY TransferKeeps DEF Delivered
<1>4. QED
  BY <1>1, <1>2, <1>3, ReceiverRefines, PTL
     DEF ImplementsTransfer, Transfer!RTSpec, Transfer!SavedOnlyGrows, Safe

\* Under the same conditions the dataset is delivered once, from a stream that
\* decodes, and stays (extractAtomically).
THEOREM DeliveryStays ==
    RecvSpec /\ [](losses = 0 /\ tampers = 0) => Transfer!DeliversOnce
<1>1. [Transfer!RTNext]_Transfer!rtVars
        => [/\ outDir # "absent" => (outDir # "absent")'
            /\ ~(outDir # "absent") /\ (outDir # "absent")'
                  => Yields(IF IsUp THEN journal ELSE <<>>)]_Transfer!rtVars
  BY DEF Transfer!RTNext, Transfer!ComeUp, Transfer!Take, Transfer!Save,
         Transfer!Deliver, Transfer!GoDown, Transfer!Retire, Transfer!rtVars
<1>2. QED
  BY <1>1, ReceiverRefines, PTL
     DEF ImplementsTransfer, Transfer!RTSpec, Transfer!DeliversOnce

\* So is every behaviour of the fair receiver, whose steps are steps of the
\* receiver.
COROLLARY FairReceiverRefines ==
    LiveSpec /\ [](losses = 0 /\ tampers = 0) => ImplementsTransfer
<1>1. [LiveNext]_vars => [RecvNext]_vars
  BY DEF LiveNext, RecvNext, PatientStreamEnds
<1>2. LiveSpec => RecvSpec
  BY <1>1, PTL DEF LiveSpec, RecvSpec
<1>3. QED
  BY <1>2, ReceiverRefines, PTL
=============================================================================
