---------------------------------- MODULE Abi ----------------------------------
(***************************************************************************)
(* The C ABI of the core: every dhow_* entry point of                       *)
(* core/dhow-ffi/src/handle.rs as a function from its arguments to what it  *)
(* returns, with the cryptography of core/dhow-crypt (aead.rs, kdf.rs,      *)
(* manifest.rs) it calls.                                                   *)
(*                                                                         *)
(* A pointer argument is what it points to, or Null.  A buffer argument is  *)
(* "none" for a null buffer, "short" or "fits".  What the world decides (a  *)
(* file that cannot be read, no randomness) is the argument ok.  A key      *)
(* derived with a salt, a ciphertext and a signature are terms; BLAKE3 is   *)
(* the identity on them, so that digests collide for nothing.               *)
(***************************************************************************)
EXTENDS ManifestFormat, FiniteSets

CONSTANT Null

\* What an entry point returns: a status, the description of a failure, and
\* the handle made or the bytes copied out.
Done(value) == [status |-> "Ok", why |-> "", value |-> value]
Fail(status, why) == [status |-> status, why |-> why, value |-> <<>>]

\* A constructor that fails returns null, and has no status.
NoHandle(why) == Fail("null", why)

\* write_out: a null buffer asks for the size.
write_out(data, buf) ==
    FirstError(<<When(buf = "none", Done(<<>>)),
                 When(buf = "short", Fail("BufferTooSmall", "buffer"))>>, Done(data))

\* The three ways an entry point treats the slot of its thread: those that
\* return a status or a handle clear it and describe a failure in it, those
\* that return a number leave it alone, and so do those that return nothing.
Kinds == {"status", "ptr", "int", "unit"}

\* clear_last_error at the start, and fail or set_last_error on the way out.
slot_after(kind, slot, o) == IF kind \in {"status", "ptr"} THEN o.why ELSE slot

\* guard, guard_ptr, guard_int and guard_unit, for a body that panicked.  Each
\* of them describes the panic.
guard(kind) ==
    IF kind = "unit" THEN Done(<<>>)
    ELSE IF kind = "ptr" THEN NoHandle("panic") ELSE Fail("Panic", "panic")

-----------------------------------------------------------------------------
(***************************************************************************)
(* Keys and identities.  path is Null when it is null or not UTF-8.         *)
(***************************************************************************)

dhow_key_generate(k, ok) ==
    FirstError(<<When(~ok, NoHandle("randomness"))>>, Done([type |-> "DhowKey", inner |-> k]))

dhow_key_load(path, k, ok) ==
    FirstError(<<When(path = Null, NoHandle("path")), When(~ok, NoHandle("key file"))>>,
               Done([type |-> "DhowKey", inner |-> k]))

dhow_key_save(key, path, ok) ==
    FirstError(<<When(key = Null, Fail("NullArgument", "key")),
                 When(path = Null, Fail("NullArgument", "path")),
                 When(~ok, Fail("KeyFailed", "key file"))>>, Done(<<>>))

dhow_identity_generate(i, ok) ==
    FirstError(<<When(~ok, NoHandle("randomness"))>>,
               Done([type |-> "DhowIdentity", inner |-> i]))

dhow_identity_load(path, i, ok) ==
    FirstError(<<When(path = Null, NoHandle("path")), When(~ok, NoHandle("key file"))>>,
               Done([type |-> "DhowIdentity", inner |-> i]))

dhow_identity_save(identity, path, ok) ==
    FirstError(<<When(identity = Null, Fail("NullArgument", "identity")),
                 When(path = Null, Fail("NullArgument", "path")),
                 When(~ok, Fail("KeyFailed", "key file"))>>, Done(<<>>))

dhow_identity_public(identity) ==
    IF identity = Null THEN NoHandle("identity")
    ELSE Done([type |-> "DhowPublicIdentity", inner |-> identity.inner])

dhow_public_load(path, i, ok) ==
    FirstError(<<When(path = Null, NoHandle("path")), When(~ok, NoHandle("public key file"))>>,
               Done([type |-> "DhowPublicIdentity", inner |-> i]))

dhow_public_save(public, path, ok) ==
    FirstError(<<When(public = Null, Fail("NullArgument", "public identity")),
                 When(path = Null, Fail("NullArgument", "path")),
                 When(~ok, Fail("KeyFailed", "public key file"))>>, Done(<<>>))

dhow_public_bytes(public, out) ==
    FirstError(<<When(public = Null, Fail("NullArgument", "public identity")),
                 When(out = "none", Fail("NullArgument", "output"))>>, Done(<<public>>))

dhow_public_fingerprint(public, buf) ==
    IF public = Null THEN Fail("NullArgument", "public identity")
    ELSE write_out(<<public>>, buf)

-----------------------------------------------------------------------------
(***************************************************************************)
(* Encryption                                                              *)
(***************************************************************************)

\* TransferKeys::derive: two keys from one, told apart by derive_key's info.
\* Deriving 32 bytes is within what expand can give, so it does not fail.
derive(key, salt) ==
    [payload_key |-> <<"payload", key, salt>>, session_key |-> <<"frame", key, salt>>]

\* encrypt_payload: the session is the associated data.
encrypt_payload(keys, nonce, session_id, plaintext) ==
    [key |-> keys.payload_key, nonce |-> nonce, aad |-> session_id, plaintext |-> plaintext]

\* Fault: the associated data is not compared.
Authentic_aad(keys, nonce, session_id, c) == c.key = keys.payload_key /\ c.nonce = nonce

\* decrypt_payload_in_place: whether the tag is right.
Authentic(keys, nonce, session_id, c) ==
    /\ c.key = keys.payload_key
    /\ c.nonce = nonce
    /\ c.aad = session_id

-----------------------------------------------------------------------------
(***************************************************************************)
(* Encoder and decoder.  A block is one symbol here: how blocks are coded   *)
(* is the subject of Encoder and Decoder.                                   *)
(***************************************************************************)

\* The frames of a ciphertext: Pipeline::encode_to_bytes.
FramesOf(session_id, keys, params, c) ==
    [i \in 1 .. params.block_count |->
        [session_id |-> session_id, mac |-> keys.session_key, block |-> i, of |-> c]]

\* dhow_encoder_new.  The size and digest are those of the ciphertext.  ptrs is
\* Null when one of the pointers is.
dhow_encoder_new(key, ptrs, session_id, salt, nonce, params, payload) ==
    IF key = Null THEN NoHandle("key")
    ELSE LET keys == derive(key.inner, salt)
             c == encrypt_payload(keys, nonce, session_id, payload)
             resolved == [params EXCEPT !.payload_digest = c]
         IN  FirstError(<<When(ptrs = Null, NoHandle("pointer")),
                          When(~ValidParams(params), NoHandle("parameters"))>>,
                        Done([type |-> "DhowEncoder", params |-> resolved,
                              frames |-> FramesOf(session_id, keys, params, c)]))

dhow_encoder_params(encoder, out) ==
    IF encoder = Null \/ out = "none" THEN Fail("NullArgument", "pointer")
    ELSE Done(<<encoder.params>>)

dhow_encoder_frame_count(encoder) ==
    IF encoder = Null THEN Fail("NullArgument", "encoder") ELSE Done(<<Len(encoder.frames)>>)

dhow_encoder_frame(encoder, index, buf) ==
    IF encoder = Null THEN Fail("NullArgument", "encoder")
    ELSE IF index \notin DOMAIN encoder.frames THEN Fail("InvalidArgument", "frame index")
    ELSE write_out(<<encoder.frames[index]>>, buf)

dhow_decoder_new(key, ptrs, session_id, salt, params) ==
    IF key = Null THEN NoHandle("key")
    ELSE FirstError(<<When(ptrs = Null, NoHandle("pointer")),
                      When(~ValidParams(params), NoHandle("parameters"))>>,
                    Done([type |-> "DhowDecoder", session_id |-> session_id,
                          session_key |-> derive(key.inner, salt).session_key,
                          params |-> params, held |-> <<>>]))

\* The blocks a decoder has, in the order they came.
Blocks(decoder) == {decoder.held[i].block : i \in DOMAIN decoder.held}

\* PipelineDecoder::accept, seen from here.  The MAC does not cover what the
\* frame carries.
Acceptable(decoder, frame) ==
    /\ frame.session_id = decoder.session_id
    /\ frame.mac = decoder.session_key
    /\ frame.block \in 1 .. decoder.params.block_count

\* dhow_decoder_accept: the value is the decoder afterwards.
dhow_decoder_accept(decoder, frame) ==
    IF decoder = Null THEN Fail("NullArgument", "decoder")
    ELSE IF frame = Null THEN Fail("NullArgument", "frame")
    ELSE IF ~Acceptable(decoder, frame) THEN Fail("FrameRejected", "frame")
    ELSE IF frame.block \in Blocks(decoder) THEN Done(decoder)
    ELSE Done([decoder EXCEPT !.held = Append(@, frame)])

IsComplete(decoder) == Blocks(decoder) = 1 .. decoder.params.block_count

dhow_decoder_is_complete(decoder) ==
    IF decoder = Null THEN Fail("NullArgument", "decoder") ELSE Done(<<IsComplete(decoder)>>)

dhow_decoder_blocks_complete(decoder) ==
    IF decoder = Null THEN Fail("NullArgument", "decoder")
    ELSE Done(<<Cardinality(Blocks(decoder))>>)

\* What PipelineDecoder::finish compares with the digest: the frames' bytes,
\* which are a ciphertext when all of them are of one.
Reassembled(decoder) == {decoder.held[i].of : i \in DOMAIN decoder.held}

\* dhow_decoder_finish: the digest, then the tag, then the bytes.
dhow_decoder_finish(decoder, key, ptrs, session_id, salt, nonce, buf) ==
    IF decoder = Null \/ key = Null THEN Fail("NullArgument", "handle")
    ELSE IF ptrs = Null THEN Fail("NullArgument", "pointer")
    ELSE IF ~IsComplete(decoder) THEN Fail("Incomplete", "incomplete")
    ELSE IF Reassembled(decoder) # {decoder.params.payload_digest}
         THEN Fail("VerificationFailed", "digest")
    ELSE LET c == decoder.params.payload_digest
         IN  IF ~Authentic(derive(key.inner, salt), nonce, session_id, c)
             THEN Fail("CryptoFailed", "tag")
             ELSE write_out(<<c.plaintext>>, buf)

\* What PipelineDecoder::resume_state writes, and what it is compared with.
Progress(decoder, journal_bytes) ==
    [session_id |-> decoder.session_id, journal |-> decoder.held,
     journal_bytes |-> journal_bytes, sound |-> TRUE]

dhow_decoder_resume_state(decoder, journal_bytes, buf) ==
    IF decoder = Null THEN Fail("NullArgument", "decoder")
    ELSE write_out(<<Progress(decoder, journal_bytes)>>, buf)

dhow_resume_state_read(state) ==
    IF state = Null THEN Fail("NullArgument", "state")
    ELSE IF ~state.sound THEN Fail("ResumeRejected", "state")
    ELSE Done(<<state.session_id, state.journal_bytes>>)

dhow_decoder_resume_verify(decoder, state) ==
    IF decoder = Null THEN Fail("NullArgument", "decoder")
    ELSE IF state = Null THEN Fail("NullArgument", "state")
    ELSE IF ~state.sound THEN Fail("ResumeRejected", "state")
    ELSE IF state # Progress(decoder, state.journal_bytes)
         THEN Fail("ResumeRejected", "other progress")
    ELSE Done(<<>>)

-----------------------------------------------------------------------------
(***************************************************************************)
(* Digests and QR codes                                                    *)
(***************************************************************************)

dhow_blake3(data, out) ==
    FirstError(<<When(out = "none", Fail("NullArgument", "output")),
                 When(data = Null, Fail("NullArgument", "data"))>>, Done(<<data>>))

dhow_hasher_new == Done([type |-> "DhowHasher", taken |-> <<>>])

\* dhow_hasher_update: the value is the hasher afterwards.
dhow_hasher_update(hasher, data) ==
    IF hasher = Null THEN Fail("NullArgument", "hasher")
    ELSE IF data = Null THEN Fail("NullArgument", "data")
    ELSE Done([hasher EXCEPT !.taken = Append(@, data)])

\* dhow_hasher_finish: a clone is finalized, so the hasher can go on.
dhow_hasher_finish(hasher, out) ==
    IF hasher = Null THEN Fail("NullArgument", "hasher")
    ELSE IF out = "none" THEN Fail("NullArgument", "output")
    ELSE Done(<<hasher.taken>>)

\* dhow_qr_capacity and dhow_qr_max_symbol_size: both turn away a letter that is
\* no level and a version that is none.
dhow_qr_number(level, version, n) ==
    FirstError(<<When(level = Null, Fail("InvalidArgument", "level")),
                 When(version = Null, Fail("InvalidArgument", "version"))>>, Done(<<n>>))

\* dhow_qr_encode_frame: the code fits the version, or any version for 0.
dhow_qr_encode_frame(level, frame, fits, buf) ==
    IF level = Null THEN Fail("InvalidArgument", "level")
    ELSE IF frame = Null THEN Fail("NullArgument", "frame")
    ELSE IF ~fits THEN Fail("InvalidArgument", "capacity")
    ELSE write_out(<<frame>>, buf)

-----------------------------------------------------------------------------
(***************************************************************************)
(* Manifests                                                               *)
(***************************************************************************)

\* A manifest handle: what was parsed, and the bytes it was parsed from.
ManifestHandle(bytes) ==
    Done([type |-> "DhowManifest", manifest |-> ManifestFrom(bytes), bytes |-> bytes])

\* Fault: the handle is made without parsing the bytes back.
dhow_manifest_build_unparsed(identity, ptrs, entries, session_id, salt, nonce, params) ==
    IF identity = Null \/ ptrs = Null \/ entries = Null THEN NoHandle("identity")
    ELSE ManifestHandle(BuiltBytes(identity.inner, session_id, salt, nonce, params, entries))

\* dhow_manifest_build.  entries is Null when the array or a name is null, a
\* reserved byte is set or a name is not UTF-8.
dhow_manifest_build(identity, ptrs, entries, session_id, salt, nonce, params) ==
    IF identity = Null THEN NoHandle("identity")
    ELSE IF ptrs = Null THEN NoHandle("pointer")
    ELSE IF entries = Null \/ EntriesRefused(entries) THEN NoHandle("entries")
    ELSE LET bytes == BuiltBytes(identity.inner, session_id, salt, nonce, params, entries)
         IN  IF ManifestError(bytes) # "Ok" THEN NoHandle("did not parse back")
             ELSE ManifestHandle(bytes)

dhow_manifest_verify(public, bytes, session) ==
    IF public = Null THEN NoHandle("public identity")
    ELSE IF bytes = Null THEN NoHandle("manifest")
    ELSE LET v == verify_manifest_with(public.inner, bytes, session, Policy)
         IN  IF v.error # "Ok" THEN NoHandle(v.error) ELSE ManifestHandle(bytes)

dhow_manifest_bytes(manifest, buf) ==
    IF manifest = Null THEN Fail("NullArgument", "manifest")
    ELSE write_out(<<manifest.bytes>>, buf)

\* manifest_field, for the session id, the salt and the nonce, and
\* dhow_manifest_params.
manifest_field(manifest, out, field) ==
    IF manifest = Null THEN Fail("NullArgument", "manifest")
    ELSE IF out = "none" THEN Fail("NullArgument", "output")
    ELSE Done(<<manifest.manifest.header[field]>>)

dhow_manifest_file_count(manifest) ==
    IF manifest = Null THEN Fail("NullArgument", "manifest")
    ELSE Done(<<Len(manifest.manifest.entries)>>)

\* entry_at describes a null manifest as such, and its callers return
\* InvalidArgument either way.
entry_at(manifest, index) ==
    IF manifest = Null THEN Fail("InvalidArgument", "manifest")
    ELSE IF index \notin DOMAIN manifest.manifest.entries
         THEN Fail("InvalidArgument", "file index")
    ELSE Done(manifest.manifest.entries[index])

dhow_manifest_file_name(manifest, index, buf) ==
    LET e == entry_at(manifest, index)
    IN  IF e.status # "Ok" THEN e ELSE write_out(<<e.value.name>>, buf)

\* dhow_manifest_file_size and dhow_manifest_file_digest.
dhow_manifest_file_field(manifest, index, out, field) ==
    LET e == entry_at(manifest, index)
    IN  IF out = "none" THEN Fail("NullArgument", "output")
        ELSE IF e.status # "Ok" THEN e
        ELSE Done(<<e.value[field]>>)

dhow_manifest_file_executable(manifest, index) ==
    LET e == entry_at(manifest, index)
    IN  IF e.status # "Ok" THEN e ELSE Done(<<e.value.executable>>)
=============================================================================
