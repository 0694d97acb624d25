----------------------------- MODULE SessionState -----------------------------
(***************************************************************************)
(* core/dhow-codec/src/session_state.rs: the state machine of one transfer. *)
(* A refused transition returns an error and changes nothing, so it is a    *)
(* step the machine does not take.  bytes_transmitted, a sum that nothing   *)
(* else reads, and progress, which only reads, are left out.                *)
(***************************************************************************)
EXTENDS Naturals

CONSTANTS
    Reasons,      \* what error() is given
    NoReason,     \* last_error of a machine that has none
    MaxRecorded   \* bound: how many frames are recorded in each direction

ASSUME SessionStateAssumption ==
    /\ NoReason \notin Reasons
    /\ MaxRecorded \in Nat

VARIABLES
    state, frames_sent, frames_received, last_error

counters == <<frames_sent, frames_received>>
sessionVars == <<state, frames_sent, frames_received, last_error>>

States == {"Initializing", "Sending", "Receiving", "Recovering", "Complete", "Error", "Paused"}

\* SessionStateMachine::new.
SessionInit ==
    /\ state = "Initializing"
    /\ frames_sent = 0 /\ frames_received = 0
    /\ last_error = NoReason

Move(to) ==
    /\ state' = to
    /\ UNCHANGED <<counters, last_error>>

\* Fault: a transfer that failed is started again as a paused one is.
start_sending_failed == state \in {"Initializing", "Paused", "Error"} /\ Move("Sending")

start_sending == state \in {"Initializing", "Paused"} /\ Move("Sending")

start_receiving == state = "Initializing" /\ Move("Receiving")

enter_recovery == state \in {"Receiving", "Sending"} /\ Move("Recovering")

complete == state \in {"Sending", "Receiving", "Recovering"} /\ Move("Complete")

\* error has no guard.
error(reason) ==
    /\ state' = "Error" /\ last_error' = reason
    /\ UNCHANGED counters

pause == state \in {"Sending", "Receiving"} /\ Move("Paused")

\* The records have no guard either: they count in every state.
record_frame_sent ==
    /\ frames_sent < MaxRecorded /\ frames_sent' = frames_sent + 1
    /\ UNCHANGED <<state, frames_received, last_error>>

record_frame_received ==
    /\ frames_received < MaxRecorded /\ frames_received' = frames_received + 1
    /\ UNCHANGED <<state, frames_sent, last_error>>

SessionNext ==
    \/ start_sending \/ start_receiving \/ enter_recovery \/ complete \/ pause
    \/ \E reason \in Reasons : error(reason)
    \/ record_frame_sent \/ record_frame_received

SessionSpec == SessionInit /\ [][SessionNext]_sessionVars

-----------------------------------------------------------------------------
(***************************************************************************)
(* Properties                                                              *)
(***************************************************************************)

\* A machine has a reason exactly when it has failed: error is taken from every
\* state, Complete and Paused too, and no sequence of transitions after it leaves
\* Error with the reason still there or reaches Error without one (error,
\* last_error).
ReasonIffError == (state = "Error") = (last_error \in Reasons)
=============================================================================
