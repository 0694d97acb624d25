-------------------------- MODULE ResumableTransfer --------------------------
(***************************************************************************)
(* What "dhow recv -state" promises, with no files in it: a receiver that   *)
(* may go down at any moment comes back with exactly the stream it last     *)
(* saved, delivers only from a stream that decodes, delivers once, and      *)
(* forgets what it saved only after it has delivered.                       *)
(***************************************************************************)
EXTENDS Naturals, Sequences

CONSTANTS
    Frame,       \* the frames a decoder may accept
    Decodes(_)   \* whether a stream of them yields the payload

VARIABLES
    up,        \* whether the receiver is taking frames
    stream,    \* what it has accepted; <<>> when it is down
    safe,      \* what it would come back with
    delivered  \* whether the dataset is out

rtVars == <<up, stream, safe, delivered>>

RTInit == up = FALSE /\ stream = <<>> /\ safe = <<>> /\ delivered = FALSE

ComeUp ==
    /\ ~up /\ up' = TRUE
    /\ stream' = safe
    /\ UNCHANGED <<safe, delivered>>

Take ==
    /\ up
    /\ \E f \in Frame : stream' = Append(stream, f)
    /\ UNCHANGED <<up, safe, delivered>>

Save == up /\ safe' = stream /\ UNCHANGED <<up, stream, delivered>>

Deliver ==
    /\ up /\ ~delivered /\ Decodes(stream)
    /\ delivered' = TRUE
    /\ UNCHANGED <<up, stream, safe>>

GoDown == up /\ up' = FALSE /\ stream' = <<>> /\ UNCHANGED <<safe, delivered>>

\* The end of a receiver that delivered and was not told to keep its state.
Retire ==
    /\ up /\ delivered
    /\ up' = FALSE /\ stream' = <<>> /\ safe' = <<>>
    /\ UNCHANGED delivered

RTNext == ComeUp \/ Take \/ Save \/ Deliver \/ GoDown \/ Retire

RTSpec == RTInit /\ [][RTNext]_rtVars

-----------------------------------------------------------------------------
(***************************************************************************)
(* What follows for whoever runs it                                        *)
(***************************************************************************)

Extends(t, s) == Len(s) <= Len(t) /\ SubSeq(t, 1, Len(s)) = s

\* A receiver that is up holds at least what it saved.
HoldsSaved ==
    /\ stream \in Seq(Frame) /\ safe \in Seq(Frame)
    /\ up => Extends(stream, safe)

\* Progress that was saved only grows, whatever happens, until the dataset is
\* out, and then it is given up whole (restoreProgress, Store.Save, Store.Discard).
SavedOnlyGrows ==
    [][(delivered /\ safe' = <<>>) \/ Extends(safe', safe)]_rtVars

\* What was delivered stays delivered, and it decoded (extractAtomically).
DeliversOnce ==
    [][/\ delivered => delivered'
       /\ ~delivered /\ delivered' => Decodes(stream)]_rtVars
=============================================================================
