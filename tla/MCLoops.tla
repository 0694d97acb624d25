------------------------------- MODULE MCLoops -------------------------------
(***************************************************************************)
(* The parts that must end, or go on, by themselves: the capture reader's   *)
(* goroutines, the display, the chunker's loops and the capacity search.    *)
(* They share no state, so what one does in a behaviour of all of them it   *)
(* also does alone: one part moves per behaviour, and the others rest in    *)
(* one of their initial states.                                             *)
(***************************************************************************)
EXTENDS MCCapture, MCFrameDir, Chunks, MCQr

VARIABLE part  \* the part that moves

loopVars == <<part, capVars, dirVars, chunkVars, qrVars>>

LoopsInit ==
    /\ part \in {"capture", "frame_dir", "chunks", "qr"}
    /\ IF part = "capture" THEN TRUE ELSE buffer = TRUE
    /\ IF part = "chunks" THEN TRUE ELSE input = <<>> /\ block_count = 1 /\ symbol_size = 1
    /\ IF part = "qr" THEN TRUE ELSE asked = [op |-> "capacity", version |-> 0, len |-> 0]
    /\ CapInit /\ DirInit /\ ChunksInit /\ QrInit

\* What does not move when p does.
Rest(p) ==
    /\ part = p /\ part' = part
    /\ IF p = "capture" THEN TRUE ELSE UNCHANGED capVars
    /\ IF p = "frame_dir" THEN TRUE ELSE UNCHANGED dirVars
    /\ IF p = "chunks" THEN TRUE ELSE UNCHANGED chunkVars
    /\ IF p = "qr" THEN TRUE ELSE UNCHANGED qrVars

LoopsNext ==
    \/ Rest("capture") /\ CapNext
    \/ Rest("frame_dir") /\ DirNext
    \/ Rest("chunks") /\ ChunksNext
    \/ Rest("qr") /\ QrNext

\* The fairness of CapSpec, DirSpec, ChunksSpec and QrSpec.
LoopsSpec ==
    /\ LoopsInit /\ [][LoopsNext]_loopVars
    /\ WF_loopVars(Rest("capture") /\ Produce)
    /\ WF_loopVars(Rest("capture") /\ ConsumeStep)
    /\ WF_loopVars(Rest("frame_dir") /\ (ReadFrame \/ Tick))
    /\ WF_loopVars(Rest("chunks") /\ ChunksNext)
    /\ WF_loopVars(Rest("qr") /\ QrNext)

\* RunReturns, of the capture reader: Run returns once its source has ended or
\* its context is cancelled.
CaptureReturns == part = "capture" => RunReturns

\* EventuallyRebuilt, of the chunker: no symbol and no block of its own making is
\* refused, and the payload is put together (extract_symbol, reassemble).
ChunksRebuilt == part = "chunks" => EventuallyRebuilt

\* SearchEnds, of the capacity search: the midpoint rounds up, so the range
\* shrinks until it is one value (capacity).
CapacityFound == part = "qr" => SearchEnds
=============================================================================
