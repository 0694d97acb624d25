------------------------------ MODULE MCFormats ------------------------------
(***************************************************************************)
(* The parts that only have to be right when they stop: the codec's encoder *)
(* and decoder, its formats and state machine, archives and key files.      *)
(* They share no state, so one part moves per behaviour and the others rest *)
(* in one of their initial states (as in MCLoops).                          *)
(***************************************************************************)
EXTENDS MCDecoder, MCEncoder, MCWire, SessionState, MCArchive, MCKeys

VARIABLE part  \* the part that moves

formatVars ==
    <<part, decVars, encVars, wireVars, sessionVars, archiveVars, keyVars>>

FormatsInit ==
    /\ part \in {"decoder", "encoder", "wire", "session_state", "archive", "keys"}
    /\ IF part = "wire" THEN TRUE ELSE was = CHOOSE m \in Written : TRUE
    /\ IF part = "archive" THEN TRUE ELSE tree = [f \in Files |-> NoFile]
    /\ IF part = "keys" THEN TRUE ELSE file = [p \in KeyPaths |-> None]
    /\ DecInit /\ EncInit /\ WireInit /\ SessionInit /\ ArchiveInit /\ KeysInit

\* What does not move when p does.
Rest(p) ==
    /\ part = p /\ part' = part
    /\ IF p = "decoder" THEN TRUE ELSE UNCHANGED decVars
    /\ IF p = "encoder" THEN TRUE ELSE UNCHANGED encVars
    /\ IF p = "wire" THEN TRUE ELSE UNCHANGED wireVars
    /\ IF p = "session_state" THEN TRUE ELSE UNCHANGED sessionVars
    /\ IF p = "archive" THEN TRUE ELSE UNCHANGED archiveVars
    /\ IF p = "keys" THEN TRUE ELSE UNCHANGED keyVars

FormatsNext ==
    \/ Rest("decoder") /\ DecNext
    \/ Rest("encoder") /\ EncNext
    \/ Rest("wire") /\ WireNext
    \/ Rest("session_state") /\ SessionNext
    \/ Rest("archive") /\ ArchiveNext
    \/ Rest("keys") /\ KeysNext

FormatsSpec == FormatsInit /\ [][FormatsNext]_formatVars
=============================================================================
