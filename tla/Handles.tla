-------------------------------- MODULE Handles --------------------------------
(***************************************************************************)
(* The handle API in use: goroutines that call the core through             *)
(* cli/internal/ffi, the handles they hold and the thread-local slot where  *)
(* the core describes a failure (core/dhow-ffi/src/error.rs, guard.rs).     *)
(*                                                                         *)
(* A wrapper that returns a status or a handle locks its OS thread from the *)
(* call to the reading of the slot; the ones that return a number           *)
(* (FrameCount, IsComplete, BlocksComplete, QRCapacity, QRMaxSymbolSize) do *)
(* not, and may find themselves on any thread by then.  A wrapper passes    *)
(* live handles only; a C caller may pass null as well.                     *)
(***************************************************************************)
EXTENDS Abi

CONSTANTS
    Goroutines, Threads,
    Keys, Identities, Paths,          \* operator keys, identities, file names
    Sessions, Salts, Nonces, Payloads, ParamSets, Inventories,
    Levels,                           \* QR levels, or Null for no level
    MaxBlocks, MaxSent,
    Programs                          \* the programs that use the API, each with
        \* calls: the families of calls it makes,
        \* handles, hashed: how many handles it holds, and how much it hashes,
        \* fails: whether calls that fail are explored (they leave the handles alone,
        \*        so a program about what handles hold does without, and it makes no
        \*        difference then which goroutine calls, on which thread),
        \* panics: whether a body may panic,
        \* nulls: whether it passes null handles, as C may

ASSUME HandlesAssumption ==
    /\ Goroutines # {} /\ Threads # {} /\ Null \notin Threads
    /\ {MaxBlocks, MaxSent} \subseteq Nat
    /\ Programs \subseteq [calls: SUBSET {"key", "identity", "transfer", "hash", "qr", "manifest"},
                           handles: Nat, hashed: Nat,
                           fails: BOOLEAN, panics: BOOLEAN, nulls: BOOLEAN]

VARIABLES
    program,   \* the program that runs
    handles,   \* the live handles
    slot,      \* LAST_ERROR, per thread
    call,      \* a goroutine's failed call whose description is not read yet
    ret,       \* of the error a goroutine's last call returned: whether it describes
               \* that call's failure, and the kind of the call
    sent,      \* what was encrypted: key, salt, nonce, session and payload
    signed,    \* the manifests that were signed, as bytes
    delivered  \* what dhow_decoder_finish handed out last, and for what

handleVars == <<program, handles, slot, call, ret, sent, signed, delivered>>
world == <<program, sent, signed, delivered>>

Idle == [why |-> "", kind |-> "unit", on |-> Null]
NoError == [own |-> TRUE, kind |-> "unit"]

HandlesInit ==
    /\ program \in Programs
    /\ handles = {} /\ sent = {} /\ signed = {} /\ delivered = {}
    /\ slot = [t \in Threads |-> ""]
    /\ call = [g \in Goroutines |-> Idle]
    /\ ret = [g \in Goroutines |-> NoError]

Live(type) == {h \in handles : h.type = type}
Ptr(type) == Live(type) \cup (IF program.nulls THEN {Null} ELSE {})

-----------------------------------------------------------------------------
(***************************************************************************)
(* Calls                                                                   *)
(***************************************************************************)

\* Fault: no wrapper locks its thread.
Locks_never(kind) == FALSE

\* The wrappers that call LockOSThread.
Locks(kind) == kind \in {"status", "ptr"}

\* A goroutine runs on a thread no other goroutine has locked, and on its own
\* when it has locked one.
Runs(g, t) ==
    /\ call[g].on \in {Null, t}
    /\ \A h \in Goroutines \ {g} : call[h].on # t

\* What a goroutine has to do after a call of o on thread t.
After(kind, o, t) ==
    IF o.status = "Ok" THEN Idle
    ELSE [why |-> o.why, kind |-> kind, on |-> IF Locks(kind) THEN t ELSE Null]

Callers == IF program.fails THEN Goroutines ELSE {CHOOSE g \in Goroutines : TRUE}
OnThreads == IF program.fails THEN Threads ELSE {CHOOSE t \in Threads : TRUE}

\* One call into the core that returns o.
Enter(g, kind, o) ==
    /\ call[g] = Idle
    /\ o.status = "Ok" \/ program.fails
    /\ \E t \in OnThreads :
        /\ Runs(g, t)
        /\ slot' = [slot EXCEPT ![t] = slot_after(kind, @, o)]
        /\ call' = [call EXCEPT ![g] = After(kind, o, t)]
    /\ ret' = [ret EXCEPT ![g] = NoError]

\* A call that leaves the handles alone.
Ask(g, kind, o) == Enter(g, kind, o) /\ UNCHANGED <<handles, world>>

\* A constructor: the caller owns what it returns.
Open(g, o) ==
    /\ Cardinality(handles) < program.handles
    /\ Enter(g, "ptr", o)
    /\ handles' = IF o.status = "Ok" THEN handles \cup {o.value} ELSE handles

\* A call that may change the handle it is given.
Change(g, h, o) ==
    /\ Enter(g, "status", o)
    /\ handles' = IF o.status = "Ok" THEN (handles \ {h}) \cup {o.value} ELSE handles
    /\ UNCHANGED world

\* wrap and lastError.  The two calls dhow_last_error_message takes are one
\* step; without the lock they may disagree, and then there is no description.
ReadError(g) ==
    /\ call[g] # Idle
    /\ \E t \in Threads : \E detail \in {slot[t]} \cup (IF call[g].on = t THEN {} ELSE {""}) :
        /\ Runs(g, t)
        /\ ret' = [ret EXCEPT ![g] = [own |-> detail = call[g].why, kind |-> call[g].kind]]
    /\ call' = [call EXCEPT ![g] = Idle]
    /\ UNCHANGED <<handles, slot, world>>

\* A body panics: the guard describes it, whatever the entry point returns.
Panics(g) ==
    /\ program.panics /\ call[g] = Idle
    /\ \E t \in Threads, kind \in Kinds :
        /\ Runs(g, t)
        /\ slot' = [slot EXCEPT ![t] = "panic"]
        /\ call' = [call EXCEPT ![g] = After(kind, guard(kind), t)]
    /\ ret' = [ret EXCEPT ![g] = NoError]
    /\ UNCHANGED <<handles, world>>

\* The seven dhow_*_free, and Close of the wrapper, which forgets the pointer.
Free(g) ==
    \E h \in handles \cup {Null} :
        /\ Enter(g, "unit", Done(<<>>))
        /\ handles' = handles \ {h}
        /\ UNCHANGED world

-----------------------------------------------------------------------------
(***************************************************************************)
(* Keys and identities                                                     *)
(***************************************************************************)

Key(g) ==
    \E k \in Keys, path \in Paths \cup {Null}, ok \in BOOLEAN :
        \/ Open(g, dhow_key_generate(k, ok)) /\ UNCHANGED world
        \/ Open(g, dhow_key_load(path, k, ok)) /\ UNCHANGED world
        \/ \E key \in Ptr("DhowKey") : Ask(g, "status", dhow_key_save(key, path, ok))

Identity(g) ==
    \E i \in Identities, path \in Paths \cup {Null}, ok \in BOOLEAN :
        \/ Open(g, dhow_identity_generate(i, ok)) /\ UNCHANGED world
        \/ Open(g, dhow_identity_load(path, i, ok)) /\ UNCHANGED world
        \/ \E id \in Ptr("DhowIdentity") :
            \/ Ask(g, "status", dhow_identity_save(id, path, ok))
            \/ Open(g, dhow_identity_public(id)) /\ UNCHANGED world
        \/ Open(g, dhow_public_load(path, i, ok)) /\ UNCHANGED world
        \/ \E pub \in Ptr("DhowPublicIdentity"), buf \in {"none", "short", "fits"} :
            \/ Ask(g, "status", dhow_public_save(pub, path, ok))
            \/ Ask(g, "status", dhow_public_bytes(pub, buf))
            \/ Ask(g, "status", dhow_public_fingerprint(pub, buf))

-----------------------------------------------------------------------------
(***************************************************************************)
(* Encoder and decoder                                                     *)
(***************************************************************************)

EncoderNew(g) ==
    \E key \in Ptr("DhowKey"), ptrs \in {Null, "given"}, session_id \in Sessions,
       salt \in Salts, nonce \in Nonces, params \in ParamSets, payload \in Payloads :
        LET o == dhow_encoder_new(key, ptrs, session_id, salt, nonce, params, payload)
        IN  /\ Cardinality(sent) < MaxSent /\ Open(g, o)
            /\ sent' = IF o.status # "Ok" THEN sent
                       ELSE sent \cup {[key |-> key.inner, salt |-> salt, nonce |-> nonce,
                                        session_id |-> session_id, payload |-> payload]}
            /\ UNCHANGED <<program, signed, delivered>>

EncoderUse(g) ==
    \E enc \in Ptr("DhowEncoder"), buf \in {"none", "short", "fits"} :
        \/ Ask(g, "status", dhow_encoder_params(enc, buf))
        \/ Ask(g, "int", dhow_encoder_frame_count(enc))
        \/ \E i \in 1 .. MaxBlocks : Ask(g, "status", dhow_encoder_frame(enc, i, buf))

\* The ciphertexts of what was sent, and their frames as a camera may see
\* them: the MAC does not keep a frame from carrying another ciphertext's bytes.
CipherOf(s) == encrypt_payload(derive(s.key, s.salt), s.nonce, s.session_id, s.payload)
OnAir ==
    {[session_id |-> s.session_id, mac |-> derive(s.key, s.salt).session_key,
      block |-> b, of |-> CipherOf(c)] : s \in sent, c \in sent, b \in 1 .. MaxBlocks}

\* The parameters a receiver may have been given: some sender's, or wrong ones.
GivenParams ==
    ParamSets \cup {[p EXCEPT !.payload_digest = CipherOf(s)] : p \in ParamSets, s \in sent}

DecoderNew(g) ==
    \E key \in Ptr("DhowKey"), ptrs \in {Null, "given"}, session_id \in Sessions,
       salt \in Salts, params \in GivenParams :
        Open(g, dhow_decoder_new(key, ptrs, session_id, salt, params)) /\ UNCHANGED world

DecoderAccept(g) ==
    \E dec \in Ptr("DhowDecoder"), frame \in OnAir \cup {Null} :
        Change(g, dec, dhow_decoder_accept(dec, frame))

DecoderUse(g) ==
    \E dec \in Ptr("DhowDecoder"), buf \in {"none", "short", "fits"} :
        \/ Ask(g, "int", dhow_decoder_is_complete(dec))
        \/ Ask(g, "int", dhow_decoder_blocks_complete(dec))
        \/ Ask(g, "status", dhow_decoder_resume_state(dec, 0, buf))
        \/ \E other \in Live("DhowDecoder"), sound \in BOOLEAN :
            LET state == [Progress(other, 0) EXCEPT !.sound = sound]
            IN  \/ Ask(g, "status", dhow_decoder_resume_verify(dec, state))
                \/ Ask(g, "status", dhow_resume_state_read(state))

DecoderFinish(g) ==
    \E dec \in Ptr("DhowDecoder"), key \in Ptr("DhowKey"), ptrs \in {Null, "given"},
       session_id \in Sessions, salt \in Salts, nonce \in Nonces,
       buf \in {"none", "short", "fits"} :
        LET o == dhow_decoder_finish(dec, key, ptrs, session_id, salt, nonce, buf)
        IN  /\ Enter(g, "status", o)
            /\ delivered' = IF o.value = <<>> THEN delivered
                            ELSE {[key |-> key.inner, salt |-> salt, nonce |-> nonce,
                                   session_id |-> session_id, payload |-> o.value[1]]}
            /\ UNCHANGED <<program, handles, sent, signed>>

-----------------------------------------------------------------------------
(***************************************************************************)
(* Digests, QR codes, manifests                                            *)
(***************************************************************************)

Hash(g) ==
    \E data \in Payloads \cup {Null}, out \in {"none", "fits"} :
        \/ Ask(g, "status", dhow_blake3(data, out))
        \/ Open(g, dhow_hasher_new) /\ UNCHANGED world
        \/ \E h \in Ptr("DhowHasher") :
            \/ Ask(g, "status", dhow_hasher_finish(h, out))
            \/ (h # Null => Len(h.taken) < program.hashed)
               /\ Change(g, h, dhow_hasher_update(h, data))

Qr(g) ==
    \E level \in Levels, arg \in {Null, "given"}, fits \in BOOLEAN,
       buf \in {"none", "short", "fits"} :
        \/ Ask(g, "int", dhow_qr_number(level, arg, 0))
        \/ Ask(g, "status", dhow_qr_encode_frame(level, arg, fits, buf))

ManifestBuild(g) ==
    \E id \in Ptr("DhowIdentity"), ptrs \in {Null, "given"},
       entries \in Inventories \cup {Null}, session_id \in Sessions, salt \in Salts,
       nonce \in Nonces, params \in ParamSets :
        LET o == dhow_manifest_build(id, ptrs, entries, session_id, salt, nonce, params)
        IN  /\ Cardinality(signed) < MaxSent /\ Open(g, o)
            /\ signed' = IF o.status = "Ok" THEN signed \cup {o.value.bytes} ELSE signed
            /\ UNCHANGED <<program, sent, delivered>>

\* A manifest on its way: as signed, or for another session with a fresh CRC,
\* or without its first entry.
Rebound(m, s) ==
    LET a == [m EXCEPT !.header.session_id = s] IN [a EXCEPT !.crc = crc_covered_bytes(a)]
Shortened(m) == [m EXCEPT !.entries = SubSeq(@, 2, Len(@))]
Carried ==
    signed \cup {Rebound(m, s) : m \in signed, s \in Sessions} \cup {Shortened(m) : m \in signed}

ManifestVerify(g) ==
    \E pub \in Ptr("DhowPublicIdentity"), bytes \in Carried \cup {Null},
       session \in {{}} \cup {{s} : s \in Sessions} :
        Open(g, dhow_manifest_verify(pub, bytes, session)) /\ UNCHANGED world

ManifestUse(g) ==
    \E m \in Ptr("DhowManifest"), buf \in {"none", "short", "fits"}, i \in 1 .. MaxBlocks :
        \/ Ask(g, "status", dhow_manifest_bytes(m, buf))
        \/ \E field \in {"session_id", "salt", "nonce", "params"} :
            Ask(g, "status", manifest_field(m, buf, field))
        \/ Ask(g, "status", dhow_manifest_file_count(m))
        \/ Ask(g, "status", dhow_manifest_file_name(m, i, buf))
        \/ \E field \in {"size", "digest"} :
            Ask(g, "status", dhow_manifest_file_field(m, i, buf, field))
        \/ Ask(g, "status", dhow_manifest_file_executable(m, i))

Transfers(g) ==
    EncoderNew(g) \/ EncoderUse(g) \/ DecoderNew(g) \/ DecoderAccept(g) \/ DecoderUse(g)
        \/ DecoderFinish(g)

Manifests(g) == ManifestBuild(g) \/ ManifestVerify(g) \/ ManifestUse(g)

HandlesNext ==
    \E g \in Callers :
        \/ ReadError(g) \/ Panics(g) \/ Free(g)
        \/ "key" \in program.calls /\ Key(g)
        \/ "identity" \in program.calls /\ Identity(g)
        \/ "transfer" \in program.calls /\ Transfers(g)
        \/ "hash" \in program.calls /\ Hash(g)
        \/ "qr" \in program.calls /\ Qr(g)
        \/ "manifest" \in program.calls /\ Manifests(g)

HandlesSpec == HandlesInit /\ [][HandlesNext]_handleVars

-----------------------------------------------------------------------------
(***************************************************************************)
(* Properties                                                              *)
(***************************************************************************)

\* An error a goroutine gets from a call that returns a status or a handle describes
\* that goroutine's own failure, whatever other goroutines and earlier calls
\* did (clear_last_error, fail, LockOSThread around call and lastError).
ErrorsAreOwn ==
    \A g \in Goroutines : ret[g].kind \in {"status", "ptr"} => ret[g].own

\* Whatever key, session, salt and nonce dhow_decoder_finish is called with, and
\* whatever bytes the frames carried, the payload it hands out is the one that
\* was encrypted with exactly these.
FinishReturnsSent == delivered \subseteq sent

\* A manifest handle is of bytes that parse and that some identity signed, as
\* they are ("possession of the handle means the signature was checked").
ManifestHandleChecked ==
    \A h \in Live("DhowManifest") :
        /\ h.bytes \in signed
        /\ ManifestError(h.bytes) = "Ok"
        /\ h.manifest = ManifestFrom(h.bytes)
=============================================================================
