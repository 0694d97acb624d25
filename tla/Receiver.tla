------------------------------ MODULE Receiver ------------------------------
(***************************************************************************)
(* "dhow recv -state": the process that feeds captured frames to a decoder  *)
(* and keeps its progress in a state directory, over any number of runs.    *)
(* Translated from cli/internal/cli/cli.go (runRecv, frameSink.apply,       *)
(* restoreProgress, saveProgress, extractAtomically, reconcile) and         *)
(* cli/internal/resume/resume.go (Store).                                   *)
(*                                                                         *)
(* One variable per file: the journal, the index and the output directory.  *)
(* Beside each is the set of contents a power loss may leave (external):    *)
(* an fsync of a file makes its data and every earlier directory operation  *)
(* durable; data that was never synced may or may not be there.  A killed   *)
(* process leaves the files as they are visible.                            *)
(*                                                                         *)
(* Lengths are in units: a journal record is RECORD units, a record cut     *)
(* short by a failed or interrupted write is one.  The manifest is verified *)
(* and the key loaded before any of this and neither changes it, so Start   *)
(* begins where the decoder is new.                                         *)
(***************************************************************************)
EXTENDS Decoder

CONSTANTS
    SaveEvery,       \* -save-every
    StopAfter,       \* -stop-after, 0 for no limit
    KeepState,       \* the values -keep-state may be given
    InventoryAgrees, \* whether the archive may, or may not, match the inventory
    MaxRuns,         \* bound: runs of the command
    MaxKills,        \* bound: processes killed
    MaxLosses,       \* bound: power losses
    MaxFaults,       \* bound: failing reads and writes
    MaxTampers       \* bound: changes to the state directory by others

ASSUME ReceiverAssumption ==
    /\ SaveEvery \in Nat \ {0}
    /\ StopAfter \in Nat
    /\ KeepState \subseteq BOOLEAN
    /\ InventoryAgrees \subseteq BOOLEAN
    /\ {MaxRuns, MaxKills, MaxLosses, MaxFaults, MaxTampers} \subseteq Nat

VARIABLES
    pc,        \* where the process is; "off" when there is none
    exit,      \* how the last process ended
    accepted,  \* frameSink.accepted: frames accepted by this run
    seen,      \* the frames the source handed this run and the decoder took
    written,   \* Store.written: the journal's length
    saving,    \* the state Save was called with, {} outside Save
    final,     \* whether that is the save at the end of the run
    jrn,       \* journal.bin
    idx,       \* resume.dhrs: {} or the singleton of its content
    outDir,    \* the output directory
    staged,    \* staging directories beside it
    jImgs, iImgs, oImgs, \* what a power loss may leave of jrn, idx, outDir
    lastSaved, \* history: the stream the last Save recorded
    saves,     \* history: every stream a Save recorded
    runs, kills, losses, faults, tampers

procVars  == <<pc, exit, accepted, seen, written, saving, final>>
storeVars == <<jrn, idx, jImgs, iImgs>>
outVars   == <<outDir, staged, oImgs>>
histVars  == <<lastSaved, saves>>
countVars == <<runs, kills, losses, faults, tampers>>
vars == <<decVars, procVars, storeVars, outVars, histVars, countVars>>

RECORD == 2
NoJournal == [exists |-> FALSE, recs |-> <<>>, torn |-> FALSE]
JLen(j) == RECORD * Len(j.recs) + (IF j.torn THEN 1 ELSE 0)

RecvInit ==
    /\ DecInit
    /\ pc = "off" /\ exit = "none"
    /\ accepted = 0 /\ seen = {} /\ written = 0 /\ saving = {} /\ final = FALSE
    /\ jrn = NoJournal /\ jImgs = {NoJournal}
    /\ idx = {} /\ iImgs = {{}}
    /\ outDir = "absent" /\ staged = 0 /\ oImgs = {"absent"}
    /\ lastSaved = <<>> /\ saves = {}
    /\ runs = 0 /\ kills = 0 /\ losses = 0 /\ faults = 0 /\ tampers = 0

-----------------------------------------------------------------------------
(***************************************************************************)
(* The disk (external) and the end of a process                            *)
(***************************************************************************)

\* A directory operation on the output that reached the disk may still have
\* left the files' data behind: nothing syncs it.
Reached(o) == IF o = "absent" THEN {"absent"} ELSE {"whole", "partial"}

\* fsync of the journal, with the files otherwise as they are.
SyncJournal ==
    /\ jImgs' = {jrn}
    /\ iImgs' = {idx}
    /\ oImgs' = Reached(outDir)

\* The process is gone and with it everything it had in memory.
ProcessEnds(how) ==
    /\ NewDecoder
    /\ pc' = "off" /\ exit' = how
    /\ accepted' = 0 /\ seen' = {} /\ written' = 0 /\ saving' = {} /\ final' = FALSE

\* A return before the journal was opened: restoreProgress returns no store.
Refuse ==
    /\ ProcessEnds("input")
    /\ UNCHANGED <<storeVars, outVars>>

\* A return after it: the deferred Close syncs the journal.  Its error is
\* dropped, so it may not have.
Return(how) ==
    /\ ProcessEnds(how)
    /\ SyncJournal \/ UNCHANGED <<jImgs, iImgs, oImgs>>
    /\ UNCHANGED <<jrn, idx, outDir>>

-----------------------------------------------------------------------------
(***************************************************************************)
(* Store.Begin, Store.Replay and restoreProgress                           *)
(***************************************************************************)

\* Fault: the tail past the covered length is kept.
Begin_keeps_tail(covered) ==
    /\ jrn' = [jrn EXCEPT !.exists = TRUE]
    /\ jImgs' = jImgs \cup {jrn'}
    /\ written' = JLen(jrn)
    /\ UNCHANGED <<idx, iImgs>>

\* Begin: open or create, truncate to the covered length, seek there.
Begin(covered) ==
    /\ jrn' = [exists |-> TRUE,
               recs   |-> SubSeq(jrn.recs, 1, covered \div RECORD),
               torn   |-> covered % RECORD # 0]
    /\ jImgs' = jImgs \cup {jrn'}
    /\ written' = covered
    /\ UNCHANGED <<idx, iImgs>>

\* What ReadResumeState, the session check and the size check turn away
\* before any frame is replayed.
Unusable(st) ==
    \/ ~st.readable
    \/ ~WellFormed(st.state)
    \/ st.state.session # Session
    \/ ~jrn.exists
    \/ JLen(jrn) < st.state.journal_bytes

\* Fault: saved state is found and not replayed.
Start_forgets ==
    /\ pc = "off"
    /\ runs < MaxRuns
    /\ runs' = runs + 1
    /\ Begin(0)
    /\ pc' = "recv" /\ exit' = "none"
    /\ UNCHANGED <<decVars, accepted, seen, saving, final, outVars, histVars,
                   kills, losses, faults, tampers>>

\* Open, then either a first run, or a refusal, or a replay.
Start ==
    /\ pc = "off"
    /\ runs < MaxRuns
    /\ runs' = runs + 1
    /\ \/ /\ idx = {}
          /\ Begin(0)
          /\ pc' = "recv" /\ exit' = "none"
          /\ UNCHANGED <<decVars, accepted, seen, saving, final, outVars>>
       \/ \E st \in idx :
          \/ /\ Unusable(st)
             /\ Refuse
          \/ /\ ~Unusable(st)
             /\ pc' = "replay" /\ exit' = "none"
             /\ UNCHANGED <<decVars, accepted, seen, written, saving, final,
                            storeVars, outVars>>
    /\ UNCHANGED <<histVars, kills, losses, faults, tampers>>

\* The journal record Replay reads next, when the covered length holds one.
Offset == RECORD * Len(journal)
NextRecord == jrn.recs[Len(journal) + 1]

\* Replay hands the next record to the decoder, which takes it.
ReplayRecord ==
    /\ pc = "replay"
    /\ \E st \in idx :
          /\ Offset + RECORD <= st.state.journal_bytes
          /\ Accept(NextRecord)
    /\ UNCHANGED <<procVars, storeVars, outVars, histVars, countVars>>

\* A record cut short by the covered length, or one the decoder rejects.
ReplayFails ==
    /\ pc = "replay"
    /\ \E st \in idx :
          /\ Offset < st.state.journal_bytes
          /\ \/ Offset + RECORD > st.state.journal_bytes
             \/ ~Admissible(NextRecord)
    /\ ProcessEnds("input")
    /\ UNCHANGED <<storeVars, outVars, histVars, countVars>>

\* Fault: a replay is believed without VerifyResume.
ReplayEnds_unverified ==
    /\ pc = "replay"
    /\ \E st \in idx :
          /\ Offset >= st.state.journal_bytes
          /\ Begin(st.state.journal_bytes)
          /\ pc' = "recv"
          /\ UNCHANGED <<decVars, exit, accepted, seen, saving, final, outVars>>
    /\ UNCHANGED <<histVars, countVars>>

\* The replay is checked against the index; only then is the tail discarded.
ReplayEnds ==
    /\ pc = "replay"
    /\ \E st \in idx :
          /\ Offset >= st.state.journal_bytes
          /\ \/ /\ verify_resume(st.state)
                /\ Begin(st.state.journal_bytes)
                /\ pc' = "recv"
                /\ UNCHANGED <<decVars, exit, accepted, seen, saving, final, outVars>>
             \/ /\ ~verify_resume(st.state)
                /\ Refuse
    /\ UNCHANGED <<histVars, countVars>>

\* An I/O error in Open, Replay or Begin.  Begin may have created the journal.
RestoreFails ==
    /\ pc = "replay" \/ (pc = "off" /\ runs < MaxRuns)
    /\ faults < MaxFaults
    /\ faults' = faults + 1
    /\ runs' = IF pc = "off" THEN runs + 1 ELSE runs
    /\ ProcessEnds("input")
    /\ \/ UNCHANGED <<jrn, jImgs>>
       \/ /\ idx = {}
          /\ jrn' = [jrn EXCEPT !.exists = TRUE]
          /\ jImgs' = jImgs \cup {jrn'}
    /\ UNCHANGED <<idx, iImgs, outVars, histVars, kills, losses, tampers>>

-----------------------------------------------------------------------------
(***************************************************************************)
(* frameSink.apply, saveProgress and Store.Save                            *)
(***************************************************************************)

\* The source hands over a frame.  A directory holds each frame once and the
\* capture loop skips a position it has had accepted, so no run takes the
\* same frame twice.
Receive(f) ==
    /\ pc = "recv"
    /\ f \notin seen
    /\ Len(journal) < MaxJournal
    /\ \/ /\ Reject(f)
          /\ UNCHANGED procVars
       \/ /\ Accept(f)
          /\ accepted' = accepted + 1
          /\ seen' = seen \cup {f}
          /\ pc' = "append"
          /\ UNCHANGED <<exit, written, saving, final>>
    /\ UNCHANGED <<storeVars, outVars, histVars, countVars>>

\* saveProgress: the length and the decoder's record are read together.
BeginSave(length, last) ==
    /\ pc' = "sync"
    /\ saving' = {[readable |-> TRUE, state |-> resume_state(length)]}
    /\ final' = last

LimitReached == StopAfter > 0 /\ accepted >= StopAfter

\* apply returns: to the loop, or out of it when the limit is reached.
ApplyReturns(length) ==
    IF LimitReached
    THEN BeginSave(length, TRUE)
    ELSE /\ pc' = "recv"
         /\ saving' = {}
         /\ final' = FALSE

\* Append: the whole record reaches the file; a power loss before the next
\* sync may leave it, part of it, or none of it.
AppendRecord ==
    /\ pc = "append"
    /\ jrn' = [jrn EXCEPT !.recs = Append(@, journal[Len(journal)])]
    /\ jImgs' = jImgs \cup {jrn', [jrn EXCEPT !.torn = TRUE]}
    /\ written' = written + RECORD
    /\ IF accepted % SaveEvery = 0
       THEN BeginSave(written', FALSE)
       ELSE ApplyReturns(written')
    /\ UNCHANGED <<decVars, exit, accepted, seen, idx, iImgs, outVars,
                   histVars, countVars>>

\* Fault: the error of a short write is dropped and the run saves.
AppendFails_ignored ==
    /\ pc = "append"
    /\ faults < MaxFaults
    /\ faults' = faults + 1
    /\ jrn' = [jrn EXCEPT !.torn = TRUE]
    /\ jImgs' = jImgs \cup {jrn'}
    /\ written' = written + 1
    /\ BeginSave(written', FALSE)
    /\ UNCHANGED <<decVars, exit, accepted, seen, idx, iImgs, outVars, histVars,
                   runs, kills, losses, tampers>>

\* Append: a short write.  The run ends without saving.
AppendFails ==
    /\ pc = "append"
    /\ faults < MaxFaults
    /\ faults' = faults + 1
    /\ jrn' = [jrn EXCEPT !.torn = TRUE]
    /\ ProcessEnds("input")
    /\ \/ jImgs' = {jrn'} /\ iImgs' = {idx} /\ oImgs' = Reached(outDir)
       \/ jImgs' = jImgs \cup {jrn'} /\ UNCHANGED <<iImgs, oImgs>>
    /\ UNCHANGED <<idx, outDir, staged, histVars, runs, kills, losses, tampers>>

\* Fault: Save does not flush the journal.
SaveSync_skipped ==
    /\ pc = "sync"
    /\ pc' = "tmp"
    /\ UNCHANGED <<decVars, exit, accepted, seen, written, saving, final,
                   storeVars, outVars, histVars, countVars>>

\* Save: the journal is flushed first.
SaveSync ==
    /\ pc = "sync"
    /\ pc' = "tmp"
    /\ SyncJournal
    /\ UNCHANGED <<decVars, exit, accepted, seen, written, saving, final,
                   jrn, idx, outDir, staged, histVars, countVars>>

\* Save: the index is written to a temporary file and flushed.  That sync
\* carries earlier directory operations, not the journal's data.
SaveTmp ==
    /\ pc = "tmp"
    /\ pc' = "rename"
    /\ iImgs' = {idx}
    /\ oImgs' = Reached(outDir)
    /\ UNCHANGED <<decVars, exit, accepted, seen, written, saving, final,
                   jrn, idx, jImgs, outDir, staged, histVars, countVars>>

\* Save: the rename.  The directory is not synced after it.
SaveRename ==
    /\ pc = "rename"
    /\ idx' = saving
    /\ iImgs' = iImgs \cup {saving}
    /\ lastSaved' = journal
    /\ saves' = saves \cup {journal}
    /\ IF final
       THEN pc' = "finish" /\ saving' = {} /\ final' = FALSE
       ELSE ApplyReturns(written)
    /\ UNCHANGED <<decVars, exit, accepted, seen, written, jrn, jImgs, outVars,
                   countVars>>

\* Any of Save's steps failing ends the run; the old index stays.
SaveFails ==
    /\ pc \in {"sync", "tmp", "rename"}
    /\ faults < MaxFaults
    /\ faults' = faults + 1
    /\ Return("input")
    /\ UNCHANGED <<staged, histVars, runs, kills, losses, tampers>>

\* The stream ends, or SIGINT or SIGTERM ends it.
StreamEnds ==
    /\ pc = "recv"
    /\ BeginSave(written, TRUE)
    /\ UNCHANGED <<decVars, exit, accepted, seen, written, storeVars, outVars,
                   histVars, countVars>>

\* The source fails: runRecv returns its error before the save.
SourceFails ==
    /\ pc = "recv"
    /\ faults < MaxFaults
    /\ faults' = faults + 1
    /\ Return("input")
    /\ UNCHANGED <<staged, histVars, runs, kills, losses, tampers>>

-----------------------------------------------------------------------------
(***************************************************************************)
(* The end of runRecv: finish, extractAtomically, reconcile, Discard       *)
(***************************************************************************)

\* Fault: a run that took no frame itself has nothing to finish.
Finish_idle ==
    /\ pc = "finish"
    /\ \/ /\ finish = "payload" /\ accepted > 0
          /\ pc' = "extract"
          /\ UNCHANGED <<decVars, exit, accepted, seen, written, saving, final,
                         storeVars, oImgs, outDir>>
       \/ (finish = "incomplete" \/ accepted = 0) /\ Return("incomplete")
       \/ finish = "mismatch" /\ Return("verify")
    /\ UNCHANGED <<staged, histVars, countVars>>

\* IsComplete and Finish.
Finish ==
    /\ pc = "finish"
    /\ \/ /\ finish = "payload"
          /\ pc' = "extract"
          /\ UNCHANGED <<decVars, exit, accepted, seen, written, saving, final,
                         storeVars, oImgs, outDir>>
       \/ finish = "incomplete" /\ Return("incomplete")
       \/ finish = "mismatch" /\ Return("verify")
    /\ UNCHANGED <<staged, histVars, countVars>>

\* Fault: the archive is unpacked without a staging directory.
Stage_unstaged ==
    /\ pc = "extract"
    /\ outDir = "absent"
    /\ pc' = "publish"
    /\ UNCHANGED <<decVars, exit, accepted, seen, written, saving, final,
                   storeVars, outVars, histVars, countVars>>

\* extractAtomically: refuse an existing directory, or stage beside it.
Stage ==
    /\ pc = "extract"
    /\ \/ /\ outDir # "absent"
          /\ Return("input")
          /\ UNCHANGED staged
       \/ /\ outDir = "absent"
          /\ pc' = "publish"
          /\ staged' = staged + 1
          /\ UNCHANGED <<decVars, exit, accepted, seen, written, saving, final,
                         storeVars, oImgs, outDir>>
    /\ UNCHANGED <<histVars, countVars>>

\* extractAtomically: staging, unpacking or the rename fails.  The removal of
\* the staging directory is best effort and its error is dropped, so the
\* directory may stay.
ExtractFails ==
    /\ pc \in {"extract", "publish"}
    /\ faults < MaxFaults
    /\ faults' = faults + 1
    /\ \/ UNCHANGED staged
       \/ pc = "publish" /\ staged' = staged - 1
    /\ \/ Return("input")
       \/ pc = "publish" /\ Return("verify")
    /\ UNCHANGED <<histVars, runs, kills, losses, tampers>>

\* Fault: the staged files are copied into place and stay where they were.
Publish_copies ==
    /\ pc = "publish"
    /\ outDir' = "whole"
    /\ oImgs' = oImgs \cup {"whole", "partial"}
    /\ pc' = "reconcile"
    /\ UNCHANGED <<decVars, exit, accepted, seen, written, saving, final,
                   storeVars, staged, histVars, countVars>>

\* extractAtomically: the rename.  Neither the files nor the directory are
\* synced.
Publish ==
    /\ pc = "publish"
    /\ outDir' = "whole"
    /\ oImgs' = oImgs \cup {"whole", "partial"}
    /\ staged' = staged - 1
    /\ pc' = "reconcile"
    /\ UNCHANGED <<decVars, exit, accepted, seen, written, saving, final,
                   storeVars, histVars, countVars>>

\* reconcile the archive with the signed inventory, which is kept as it is.
Reconcile ==
    /\ pc = "reconcile"
    /\ \/ FALSE \in InventoryAgrees /\ Return("verify")
       \/ TRUE \in InventoryAgrees /\ TRUE \in KeepState /\ Return("ok")
       \/ /\ TRUE \in InventoryAgrees /\ FALSE \in KeepState
          /\ pc' = "discard"
          /\ UNCHANGED <<decVars, exit, accepted, seen, written, saving, final,
                         storeVars, oImgs, outDir>>
    /\ UNCHANGED <<staged, histVars, countVars>>

\* Discard: Close, which syncs, and the removal of the journal.
DiscardJournal ==
    /\ pc = "discard"
    /\ pc' = "discardIndex"
    /\ jrn' = NoJournal
    /\ jImgs' = {jrn, NoJournal}
    /\ iImgs' = {idx}
    /\ oImgs' = Reached(outDir)
    /\ UNCHANGED <<decVars, exit, accepted, seen, written, saving, final, idx,
                   outDir, staged, histVars, countVars>>

\* Discard: the removal of the index, and the end of a successful run.
DiscardIndex ==
    /\ pc = "discardIndex"
    /\ idx' = {}
    /\ iImgs' = iImgs \cup {{}}
    /\ ProcessEnds("ok")
    /\ UNCHANGED <<jrn, jImgs, outVars, histVars, countVars>>

\* Discard: a removal fails.
DiscardFails ==
    /\ pc \in {"discard", "discardIndex"}
    /\ faults < MaxFaults
    /\ faults' = faults + 1
    /\ ProcessEnds("input")
    /\ UNCHANGED <<storeVars, outVars, histVars, runs, kills, losses, tampers>>

-----------------------------------------------------------------------------
(***************************************************************************)
(* What the world does to it (external)                                    *)
(***************************************************************************)

\* The process is killed.  The files stay as they are, except that a write
\* under way may have been cut short.
Kill ==
    /\ pc # "off"
    /\ kills < MaxKills
    /\ kills' = kills + 1
    /\ ProcessEnds("killed")
    /\ \/ UNCHANGED <<jrn, jImgs>>
       \/ /\ pc = "append"
          /\ jrn' = [jrn EXCEPT !.torn = TRUE]
          /\ jImgs' = jImgs \cup {jrn'}
    /\ UNCHANGED <<idx, iImgs, outVars, histVars, runs, losses, faults, tampers>>

\* The machine loses power: each file is one of the contents it may have.
PowerLoss ==
    /\ losses < MaxLosses
    /\ losses' = losses + 1
    /\ ProcessEnds("killed")
    /\ \E j \in jImgs, i \in iImgs, o \in oImgs :
          /\ jrn' = j /\ jImgs' = {j}
          /\ idx' = i /\ iImgs' = {i}
          /\ outDir' = o /\ oImgs' = {o}
    /\ UNCHANGED <<staged, histVars, runs, kills, faults, tampers>>

\* A journal with a rotten record, one that lost its end, the journal of
\* another capture of the same session, and no journal.
DamagedJournals(j) ==
    {[j EXCEPT !.recs[i].intact = FALSE] : i \in DOMAIN j.recs} \cup
    {[j EXCEPT !.recs = SubSeq(@, 1, n), !.torn = FALSE] : n \in 0 .. Len(j.recs)} \cup
    {[j EXCEPT !.recs = [i \in DOMAIN @ |-> @[Len(@) + 1 - i]]], NoJournal}

\* An index whose bitmap rotted without changing the number of bits set.
RottenBitmaps(st) ==
    UNION {{[st EXCEPT !.state.held[b] = (@ \ {s}) \cup {t}] :
               s \in st.state.held[b],
               t \in (0 .. TotalSymbols - 1) \ st.state.held[b]} : b \in Blocks}

\* An index that fails its digest, the index of another session, or that one.
DamagedIndexes(st) ==
    {[st EXCEPT !.readable = FALSE]} \cup
    {[st EXCEPT !.state.session = s] : s \in Sessions \ {Session}} \cup
    RottenBitmaps(st)

\* The state directory changes between runs: bit rot, files restored from
\* elsewhere, or an operator deleting it.
Tamper ==
    /\ pc = "off"
    /\ tampers < MaxTampers
    /\ tampers' = tampers + 1
    /\ \/ /\ jrn.exists
          /\ jrn' \in DamagedJournals(jrn)
          /\ UNCHANGED idx
       \/ /\ \E st \in idx : \E d \in DamagedIndexes(st) : idx' = {d}
          /\ UNCHANGED jrn
       \/ /\ jrn' = NoJournal
          /\ idx' = {}
    /\ jImgs' = {jrn'} /\ iImgs' = {idx'}
    /\ UNCHANGED <<decVars, procVars, outVars, histVars, runs, kills, losses, faults>>

-----------------------------------------------------------------------------
Step ==
    \/ Start \/ ReplayRecord \/ ReplayFails \/ ReplayEnds
    \/ AppendRecord \/ SaveSync \/ SaveTmp \/ SaveRename
    \/ Finish \/ Stage \/ Publish \/ Reconcile \/ DiscardJournal \/ DiscardIndex

Fault ==
    \/ RestoreFails \/ AppendFails \/ SaveFails \/ SourceFails \/ ExtractFails \/ DiscardFails
    \/ Kill \/ PowerLoss \/ Tamper

RecvNext ==
    \/ Step
    \/ \E f \in Frames : Receive(f)
    \/ StreamEnds
    \/ Fault

RecvSpec == RecvInit /\ [][RecvNext]_vars

(***************************************************************************)
(* Liveness.  The operator runs the same command again after every end but  *)
(* success, at most MaxRuns times; faults are over by the last run.  The    *)
(* sender loops its stream, so in the last run the stream does not end      *)
(* before it has shown every frame that is not in the saved progress.  The  *)
(* process is scheduled and the camera sees every frame of the loop.        *)
(***************************************************************************)
StreamShown ==
    \A f \in Frames : Admissible(f) => f \in seen \cup Range(lastSaved)

PatientStreamEnds == (runs < MaxRuns \/ StreamShown) /\ StreamEnds

LiveNext ==
    \/ Step
    \/ \E f \in Frames : Receive(f)
    \/ PatientStreamEnds
    \/ Fault /\ runs' < MaxRuns

LiveSpec ==
    /\ RecvInit /\ [][LiveNext]_vars
    /\ WF_vars(Step)
    /\ WF_vars(PatientStreamEnds)
    /\ \A f \in Frames : WF_vars(Receive(f))

-----------------------------------------------------------------------------
(***************************************************************************)
(* Properties                                                              *)
(***************************************************************************)

JournalFile == [exists: BOOLEAN, recs: Seq(FrameType), torn: BOOLEAN]
ResumeState == [session: Sessions, journal_bytes: Nat, digest: Seq(FrameType),
                symbol_count: Nat, held: [Blocks -> SUBSET (0 .. TotalSymbols - 1)],
                held_counts: [Blocks -> Nat]]
IndexFile == [readable: BOOLEAN, state: ResumeState]
OutDirs == {"absent", "whole", "partial"}

\* Where the journal is open for appending.
Receiving == {"recv", "sync", "tmp", "rename", "finish", "extract", "publish",
              "reconcile", "discard"}

\* Every variable holds a value of its type, and no file has two contents.
RecvTypeOK ==
    /\ DecTypeOK
    /\ pc \in Receiving \cup {"off", "replay", "append", "discardIndex"}
    /\ exit \in {"none", "ok", "input", "verify", "incomplete", "killed"}
    /\ accepted \in Nat /\ written \in Nat /\ staged \in Nat
    /\ seen \subseteq Frames
    /\ final \in BOOLEAN
    /\ jrn \in JournalFile /\ jImgs \subseteq JournalFile
    /\ idx \subseteq IndexFile /\ saving \subseteq IndexFile
    /\ \A i \in iImgs : i \subseteq IndexFile
    /\ jrn \in jImgs /\ idx \in iImgs /\ outDir \in oImgs
    /\ outDir \in OutDirs /\ oImgs \subseteq OutDirs
    /\ lastSaved \in Seq(Frames) /\ saves \subseteq Seq(Frames)
    /\ {runs, kills, losses, faults, tampers} \subseteq Nat

\* While frames are taken, the journal is the decoder's stream record for
\* record, with no torn record anywhere in it, whatever earlier runs left
\* behind (Begin, apply, Append).
JournalMirrorsDecoder ==
    /\ pc \in Receiving \cup {"append"} =>
          /\ jrn.exists /\ ~jrn.torn
          /\ written = JLen(jrn)
    /\ pc \in Receiving => jrn.recs = journal
    /\ pc = "append" => /\ journal # <<>>
                        /\ jrn.recs = SubSeq(journal, 1, Len(journal) - 1)

\* A journal and an index that the next run takes back.
Restorable(j, st) ==
    LET n == Len(st.state.digest)
    IN  /\ st.readable
        /\ st.state.session = Session
        /\ j.exists
        /\ st.state.journal_bytes = RECORD * n
        /\ n <= Len(j.recs)
        /\ SubSeq(j.recs, 1, n) = st.state.digest
        /\ \A i \in 1 .. n : Admissible(st.state.digest[i])
        /\ st.state.symbol_count = TotalSymbols
        /\ st.state.held = HeldBy(st.state.digest)
        /\ WellFormed(st.state)

\* Until the dataset is out, every pair of files a power loss can leave is
\* one the next run restores: the index never covers journal that is not
\* there (Save, Append, Begin).
ResumeConsistent ==
    tampers = 0 /\ outDir = "absent" =>
        \A j \in jImgs, i \in iImgs : \A st \in i : Restorable(j, st)

\* restoreProgress turns saved state away only if somebody else changed it,
\* it cannot be read now, or the dataset is already out: no kill, power loss
\* or failed write of an earlier run makes a receiver refuse its own progress.
NeverRefused ==
    [][ tampers = 0 /\ outDir = "absent" /\ faults' = faults =>
          /\ ~(pc = "replay" /\ pc' = "off" /\ exit' = "input")
          /\ ~(pc = "off" /\ pc' = "off" /\ runs' # runs) ]_vars

\* A run that resumes holds a stream some earlier run accepted and saved,
\* never a prefix, a mixture or another capture's frames, even when the
\* files were rotten or swapped (VerifyResume, Replay).
ResumesOnlySavedStreams ==
    pc = "recv" /\ accepted = 0 => journal \in saves \cup {<<>>}

\* Without a power loss and with the files left alone, the run after a kill
\* or a failure holds everything the last completed Save recorded.
NoSaveLost ==
    pc = "recv" /\ accepted = 0 /\ losses = 0 /\ tampers = 0 /\ outDir = "absent"
        => journal = lastSaved

\* The output directory appears only when every block holds the payload's
\* bytes (finish before extractAtomically).
OnlyVerifiedPublished ==
    [][outDir = "absent" /\ outDir' # "absent" => (\A b \in Blocks : data[b] = "right")]_vars

\* Only an extraction that was interrupted or failed leaves a staging directory:
\* beside the one in use there is at most one for every kill, power loss and
\* failing call, and runs that go well leave none, however many were tried
\* (extractAtomically).
StagingAccounted ==
    staged <= kills + losses + faults + (IF pc = "publish" THEN 1 ELSE 0)

\* However the earlier runs ended, a last one that shows only what is missing
\* delivers the dataset: the saved progress counts (restoreProgress, Save).
EventuallyDelivered == <>(outDir = "whole")

\* Said in the package comment of resume.go: an index that covers more
\* journal than exists is not expected.  What a run finds when it starts.
IndexCoveredByJournal ==
    pc = "off" /\ tampers = 0 => \A st \in idx : st.state.journal_bytes <= JLen(jrn)

\* Said in docs/RESUME.md: the index is rewritten once on exit.  A run that
\* took frames and returned has saved them.
IndexRewrittenOnExit ==
    [][ accepted > 0 /\ pc = "recv" /\ pc' = "off" /\ exit' # "killed"
          => (\E st \in idx' : st.state.digest = journal) ]_vars

\* Said of extractAtomically: the output directory either holds the whole
\* dataset or does not exist.
OutDirWholeOrAbsent == outDir # "partial"
=============================================================================
