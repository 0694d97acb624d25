-------------------------- MODULE ReceiverRefinement --------------------------
(***************************************************************************)
(* The receiver implements ResumableTransfer as long as the machine keeps   *)
(* its power and nobody else touches the state directory.  A run is up once *)
(* the replay has been verified, what is safe is what the index describes,  *)
(* and a frame counts as taken when the decoder has it, before it is in the *)
(* journal.                                                                 *)
(***************************************************************************)
EXTENDS Receiver

\* A stream yields the payload when its sound frames solve every block.
Yields(stream) ==
    \A b \in Blocks \ EmptyBlocks : Solvable(b, SoundSymbols(stream, b))

IsUp == pc \notin {"off", "replay"}
Described == {st.state.digest : st \in idx}

Transfer ==
    INSTANCE ResumableTransfer WITH
        Frame <- {f \in Frames : Admissible(f)},
        Decodes <- Yields,
        up <- IsUp,
        stream <- IF IsUp THEN journal ELSE <<>>,
        safe <- IF Described = {} THEN <<>> ELSE CHOOSE s \in Described : TRUE,
        delivered <- outDir # "absent"

\* Every behaviour of the receiver, with kills, failing reads and writes, and
\* runs that are refused, is one of the promised ones: what a new run holds is
\* what the last Save recorded, nothing is delivered that does not decode, and
\* saved progress is given up only after delivery (restoreProgress, Store.Save,
\* extractAtomically, Store.Discard).
ImplementsTransfer == Transfer!RTSpec
=============================================================================
