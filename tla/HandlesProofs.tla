----------------------------- MODULE HandlesProofs -----------------------------
(***************************************************************************)
(* What the handle API promises its callers, for any number of goroutines,  *)
(* threads, handles, transfers and manifests, and every program.            *)
(***************************************************************************)
EXTENDS Handles, ManifestFormatProofs

-----------------------------------------------------------------------------
(***************************************************************************)
(* Errors                                                                  *)
(***************************************************************************)

\* The slots and calls are those of the threads and goroutines there are.
CallTypes ==
    /\ slot = [t \in Threads |-> slot[t]]
    /\ call = [g \in Goroutines |-> call[g]]
    /\ ret = [g \in Goroutines |-> ret[g]]

\* A goroutine that has locked a thread is alone on it, and the slot of the
\* thread still describes the goroutine's failure.
LockedHolds ==
    \A g \in Goroutines :
        /\ call[g] # Idle /\ Locks(call[g].kind) =>
              call[g].on \in Threads /\ slot[call[g].on] = call[g].why
        /\ \A h \in Goroutines \ {g} : call[g].on \in Threads => call[h].on # call[g].on

\* The part of the invariant about errors.
ErrorsIInv == CallTypes /\ LockedHolds /\ ErrorsAreOwn

\* Every step is a call that enters the core, a panic in one, or the reading of
\* a description.
CoreStep(g) == (\E kind, o : Enter(g, kind, o)) \/ Panics(g) \/ ReadError(g)

LEMMA IdleFields == Idle.on = Null /\ ~Locks(Idle.kind) /\ Null \notin Threads
  BY HandlesAssumption DEF Idle, Locks

LEMMA CallerIsGoroutine == \A g \in Callers : g \in Goroutines
  BY HandlesAssumption DEF Callers

LEMMA ThreadIsThread == \A t \in OnThreads : t \in Threads
  BY HandlesAssumption DEF OnThreads

LEMMA NextIsCoreStep ==
    ASSUME HandlesNext
    PROVE  \E g \in Goroutines : CoreStep(g)
<1>1. PICK g \in Callers :
        \/ ReadError(g) \/ Panics(g) \/ Free(g)
        \/ Key(g) \/ Identity(g) \/ Transfers(g) \/ Hash(g) \/ Qr(g) \/ Manifests(g)
  BY DEF HandlesNext
<1>2. g \in Goroutines
  BY CallerIsGoroutine
<1>3. \A kind, o : Ask(g, kind, o) => CoreStep(g)
  BY DEF Ask, CoreStep
<1>4. \A o : Open(g, o) => CoreStep(g)
  BY DEF Open, CoreStep
<1>5. \A h, o : Change(g, h, o) => CoreStep(g)
  BY DEF Change, CoreStep
<1>6. CASE ReadError(g) \/ Panics(g)
  BY <1>2, <1>6 DEF CoreStep
<1>7. CASE Free(g)
  BY <1>2, <1>7 DEF CoreStep, Free
<1>8. CASE Key(g)
  BY <1>2, <1>3, <1>4, <1>8 DEF Key
<1>9. CASE Identity(g)
  BY <1>2, <1>3, <1>4, <1>9 DEF Identity
<1>10. CASE Hash(g)
  BY <1>2, <1>3, <1>4, <1>5, <1>10 DEF Hash
<1>11. CASE Qr(g)
  BY <1>2, <1>3, <1>11 DEF Qr
<1>12. CASE Transfers(g)
  <2>1. CASE EncoderNew(g)
    BY <1>2, <1>4, <2>1 DEF EncoderNew
  <2>2. CASE EncoderUse(g)
    BY <1>2, <1>3, <2>2 DEF EncoderUse
  <2>3. CASE DecoderNew(g)
    BY <1>2, <1>4, <2>3 DEF DecoderNew
  <2>4. CASE DecoderAccept(g)
    BY <1>2, <1>5, <2>4 DEF DecoderAccept
  <2>5. CASE DecoderUse(g)
    BY <1>2, <1>3, <2>5 DEF DecoderUse
  <2>6. CASE DecoderFinish(g)
    BY <1>2, <2>6 DEF DecoderFinish, CoreStep
  <2>. QED
    BY <1>12, <2>1, <2>2, <2>3, <2>4, <2>5, <2>6 DEF Transfers
<1>13. CASE Manifests(g)
  <2>1. CASE ManifestBuild(g)
    BY <1>2, <1>4, <2>1 DEF ManifestBuild
  <2>2. CASE ManifestVerify(g)
    BY <1>2, <1>4, <2>2 DEF ManifestVerify
  <2>3. CASE ManifestUse(g)
    BY <1>2, <1>3, <2>3 DEF ManifestUse
  <2>. QED
    BY <1>13, <2>1, <2>2, <2>3 DEF Manifests
<1>. QED
  BY <1>1, <1>6, <1>7, <1>8, <1>9, <1>10, <1>11, <1>12, <1>13

\* A goroutine calls on a thread nobody has locked: what it leaves in the slot
\* is its own, and no slot another waits for is touched.
LEMMA CallKeepsErrors ==
    ASSUME ErrorsIInv, NEW g \in Goroutines, NEW t \in Threads, NEW kind, NEW o, NEW why,
           Runs(g, t), call[g] = Idle,
           slot' = [slot EXCEPT ![t] = why],
           call' = [call EXCEPT ![g] = After(kind, o, t)],
           ret' = [ret EXCEPT ![g] = NoError],
           o.status # "Ok" /\ Locks(kind) => why = o.why
    PROVE  ErrorsIInv'
<1>1. CallTypes'
  BY DEF ErrorsIInv, CallTypes
<1>2. /\ slot'[t] = why /\ \A u \in Threads \ {t} : slot'[u] = slot[u]
      /\ call'[g] = After(kind, o, t) /\ \A h \in Goroutines \ {g} : call'[h] = call[h]
      /\ ret'[g] = NoError /\ \A h \in Goroutines \ {g} : ret'[h] = ret[h]
  BY DEF ErrorsIInv, CallTypes
<1>3. \A h \in Goroutines \ {g} : call[h].on # t
  BY DEF Runs
<1>4. Null \notin Threads
  BY HandlesAssumption
<1>5. /\ call'[g] # Idle /\ Locks(call'[g].kind) => call'[g].on = t /\ call'[g].why = why
      /\ call'[g].on \in {Null, t}
  <2>1. CASE o.status = "Ok"
    BY <1>2, <2>1, IdleFields DEF After
  <2>2. CASE o.status # "Ok"
    BY <1>2, <2>2 DEF After
  <2>. QED
    BY <2>1, <2>2
<1>6. LockedHolds'
  <2>. SUFFICES ASSUME NEW h \in Goroutines
                PROVE  /\ call'[h] # Idle /\ Locks(call'[h].kind) =>
                            call'[h].on \in Threads /\ slot'[call'[h].on] = call'[h].why
                       /\ \A k \in Goroutines \ {h} :
                            call'[h].on \in Threads => call'[k].on # call'[h].on
    BY DEF LockedHolds
  <2>1. CASE h = g
    BY <1>2, <1>3, <1>4, <1>5, <2>1
  <2>2. CASE h # g
    <3>1. call'[h] = call[h] /\ call[h].on # t
      BY <1>2, <1>3, <2>2
    <3>2. call[h] # Idle /\ Locks(call[h].kind) =>
            call[h].on \in Threads \ {t} /\ slot'[call[h].on] = call[h].why
      BY <1>2, <3>1 DEF ErrorsIInv, LockedHolds
    <3>3. \A k \in Goroutines \ {h} : call[h].on \in Threads => call'[k].on # call[h].on
      BY <1>2, <1>4, <1>5, <3>1 DEF ErrorsIInv, LockedHolds
    <3>. QED
      BY <3>1, <3>2, <3>3
  <2>. QED
    BY <2>1, <2>2
<1>7. ErrorsAreOwn'
  BY <1>2 DEF ErrorsIInv, ErrorsAreOwn, NoError
<1>. QED
  BY <1>1, <1>6, <1>7 DEF ErrorsIInv

LEMMA StepKeepsErrors ==
    ASSUME ErrorsIInv, NEW g \in Goroutines, CoreStep(g)
    PROVE  ErrorsIInv'
<1>1. ASSUME NEW kind, NEW o, Enter(g, kind, o) PROVE ErrorsIInv'
  <2>1. PICK t \in OnThreads :
            /\ Runs(g, t)
            /\ slot' = [slot EXCEPT ![t] = slot_after(kind, @, o)]
            /\ call' = [call EXCEPT ![g] = After(kind, o, t)]
    BY <1>1 DEF Enter
  <2>2. t \in Threads /\ call[g] = Idle /\ ret' = [ret EXCEPT ![g] = NoError]
    BY <1>1, ThreadIsThread DEF Enter
  <2>. DEFINE why == slot_after(kind, slot[t], o)
  <2>3. slot' = [slot EXCEPT ![t] = why]
    BY <2>1
  <2>4. Locks(kind) => why = o.why
    BY DEF Locks, slot_after
  <2>. HIDE DEF why
  <2>. QED
    BY <2>1, <2>2, <2>3, <2>4, CallKeepsErrors
<1>2. CASE Panics(g)
  <2>1. PICK t \in Threads, kind \in Kinds :
            /\ Runs(g, t)
            /\ slot' = [slot EXCEPT ![t] = "panic"]
            /\ call' = [call EXCEPT ![g] = After(kind, guard(kind), t)]
    BY <1>2 DEF Panics
  <2>2. call[g] = Idle /\ ret' = [ret EXCEPT ![g] = NoError]
    BY <1>2 DEF Panics
  <2>3. guard(kind).status # "Ok" => guard(kind).why = "panic"
    BY DEF guard, NoHandle, Fail, Done
  <2>. QED
    BY <2>1, <2>2, <2>3, CallKeepsErrors
<1>3. CASE ReadError(g)
  <2>0. PICK t \in Threads :
          \E detail \in {slot[t]} \cup (IF call[g].on = t THEN {} ELSE {""}) :
            /\ Runs(g, t)
            /\ ret' = [ret EXCEPT ![g] = [own |-> detail = call[g].why, kind |-> call[g].kind]]
    BY <1>3 DEF ReadError
  <2>1. PICK detail \in {slot[t]} \cup (IF call[g].on = t THEN {} ELSE {""}) :
            /\ Runs(g, t)
            /\ ret' = [ret EXCEPT ![g] = [own |-> detail = call[g].why, kind |-> call[g].kind]]
    BY <2>0
  <2>2. call' = [call EXCEPT ![g] = Idle] /\ slot' = slot /\ call[g] # Idle
    BY <1>3 DEF ReadError
  <2>3. CallTypes'
    BY <2>1, <2>2 DEF ErrorsIInv, CallTypes
  <2>4. call'[g] = Idle /\ \A h \in Goroutines \ {g} : call'[h] = call[h]
    BY <2>2 DEF ErrorsIInv, CallTypes
  <2>5. LockedHolds'
    <3>. SUFFICES ASSUME NEW h \in Goroutines
                  PROVE  /\ call'[h] # Idle /\ Locks(call'[h].kind) =>
                              call'[h].on \in Threads /\ slot'[call'[h].on] = call'[h].why
                         /\ \A k \in Goroutines \ {h} :
                              call'[h].on \in Threads => call'[k].on # call'[h].on
      BY DEF LockedHolds
    <3>1. CASE h = g
      BY <2>4, <3>1, IdleFields
    <3>2. CASE h # g
      BY <2>2, <2>4, <3>2, IdleFields DEF ErrorsIInv, LockedHolds
    <3>. QED
      BY <3>1, <3>2
  <2>6. Locks(call[g].kind) => detail = call[g].why
    <3>1. Locks(call[g].kind) => call[g].on \in Threads /\ slot[call[g].on] = call[g].why
      BY <2>2 DEF ErrorsIInv, LockedHolds
    <3>2. call[g].on \in {Null, t} /\ Null \notin Threads
      BY <2>1, HandlesAssumption DEF Runs
    <3>. QED
      BY <2>1, <3>1, <3>2
  <2>7. ErrorsAreOwn'
    <3>1. \A h \in Goroutines \ {g} : ret'[h] = ret[h]
      BY <2>1 DEF ErrorsIInv, CallTypes
    <3>2. (ret'[g].own <=> detail = call[g].why) /\ ret'[g].kind = call[g].kind
      BY <2>1 DEF ErrorsIInv, CallTypes
    <3>. QED
      BY <2>6, <3>1, <3>2 DEF ErrorsIInv, ErrorsAreOwn, Locks
  <2>. QED
    BY <2>3, <2>5, <2>7 DEF ErrorsIInv
<1>. QED
  BY <1>1, <1>2, <1>3 DEF CoreStep

\* The part of the invariant about errors holds whatever is called, on whatever thread.
THEOREM ErrorsInvariant == HandlesSpec => []ErrorsIInv
<1>1. HandlesInit => ErrorsIInv
  <2>. SUFFICES ASSUME HandlesInit PROVE ErrorsIInv
    OBVIOUS
  <2>1. CallTypes
    BY DEF HandlesInit, CallTypes
  <2>2. LockedHolds
    BY IdleFields DEF HandlesInit, LockedHolds
  <2>3. ErrorsAreOwn
    BY DEF HandlesInit, ErrorsAreOwn, NoError
  <2>. QED
    BY <2>1, <2>2, <2>3 DEF ErrorsIInv
<1>2. ErrorsIInv /\ [HandlesNext]_handleVars => ErrorsIInv'
  <2>. SUFFICES ASSUME ErrorsIInv, [HandlesNext]_handleVars PROVE ErrorsIInv'
    OBVIOUS
  <2>1. CASE UNCHANGED handleVars
    BY <2>1 DEF handleVars, ErrorsIInv, CallTypes, LockedHolds, ErrorsAreOwn
  <2>. QED
    BY <2>1, NextIsCoreStep, StepKeepsErrors
<1>. QED
  BY <1>1, <1>2, PTL DEF HandlesSpec

\* The error a goroutine gets describes its own failure (LockOSThread around the
\* call and lastError, clear_last_error and fail in the core).
THEOREM OwnErrors == HandlesSpec => []ErrorsAreOwn
<1>1. ErrorsIInv => ErrorsAreOwn
  BY DEF ErrorsIInv
<1>. QED
  BY <1>1, ErrorsInvariant, PTL

-----------------------------------------------------------------------------
(***************************************************************************)
(* What the handles hold                                                   *)
(***************************************************************************)

\* A decoder, all of whose frames carry bytes of what was sent.
DecoderSound(h) ==
    /\ h = [type |-> "DhowDecoder", session_id |-> h.session_id, session_key |-> h.session_key,
            params |-> h.params, held |-> h.held]
    /\ \E n \in Nat : h.held = [i \in 1 .. n |-> h.held[i]]
    /\ \A i \in DOMAIN h.held : \E s \in sent : h.held[i].of = CipherOf(s)

ManifestSound(h) ==
    /\ h.bytes \in signed
    /\ ManifestError(h.bytes) = "Ok"
    /\ h.manifest = ManifestFrom(h.bytes)

\* A handle is what it was made to be.
Sound(h) ==
    /\ h.type = "DhowDecoder" => DecoderSound(h)
    /\ h.type = "DhowHasher" => h = [type |-> "DhowHasher", taken |-> h.taken]
    /\ h.type = "DhowManifest" => ManifestSound(h)

HandlesSound == \A h \in handles : Sound(h)

\* What was sent is told apart by what it was sent with.
SentShape ==
    \A s \in sent : s = [key |-> s.key, salt |-> s.salt, nonce |-> s.nonce,
                         session_id |-> s.session_id, payload |-> s.payload]

\* Everything signed is signed over its own bytes.
SignedOwn ==
    \A s \in signed : IsBytes(s) /\ s.signature = <<s.signature[1], signing_bytes(s)>>

\* The part of the invariant about handles.
HandlesIInv == HandlesSound /\ SentShape /\ SignedOwn /\ FinishReturnsSent

\* A handle stays what it is when more is sent and signed.
LEMMA StaysSound ==
    ASSUME sent \subseteq sent', signed \subseteq signed', NEW h, Sound(h)
    PROVE  Sound(h)'
<1>1. DecoderSound(h) => DecoderSound(h)'
  BY DEF DecoderSound, CipherOf
<1>2. ManifestSound(h) => ManifestSound(h)'
  BY DEF ManifestSound
<1>. QED
  BY <1>1, <1>2 DEF Sound

\* A step after which nothing but sound handles is new.
LEMMA KeepsHandles ==
    ASSUME HandlesIInv, sent \subseteq sent', signed \subseteq signed',
           \A h \in handles' : h \in handles \/ Sound(h)'
    PROVE  HandlesSound'
  BY StaysSound DEF HandlesIInv, HandlesSound

\* A call that leaves what was sent, signed and delivered alone, and makes no
\* handle that is not sound.
LEMMA WorldKept ==
    ASSUME HandlesIInv, UNCHANGED world, \A h \in handles' : h \in handles \/ Sound(h)'
    PROVE  HandlesIInv'
<1>1. sent' = sent /\ signed' = signed /\ delivered' = delivered
  BY DEF world
<1>2. HandlesSound'
  BY <1>1, KeepsHandles
<1>. QED
  BY <1>1, <1>2 DEF HandlesIInv, SentShape, SignedOwn, FinishReturnsSent

\* Checks that fail with an error come out Ok only with the value.
LEMMA OneCheck ==
    ASSUME NEW c \in BOOLEAN, NEW s, NEW w, s # "Ok", NEW v,
           FirstError(<<When(c, Fail(s, w))>>, Done(v)).status = "Ok"
    PROVE  FirstError(<<When(c, Fail(s, w))>>, Done(v)) = Done(v) /\ ~c
<1>. DEFINE k == <<When(c, Fail(s, w))>>
<1>1. DOMAIN k = {1} /\ DOMAIN k \subseteq Nat /\ (k[1].cond <=> c) /\ k[1].error = Fail(s, w)
  BY WhenFields
<1>2. FirstError(k, Done(v)).status = "Ok" /\ Fail(s, w).status # "Ok"
  BY DEF Fail
<1>. HIDE DEF k
<1>3. FirstError(k, Done(v)) = Done(v) /\ ~c
  BY <1>1, <1>2, FirstErrorCases
<1>. QED
  BY <1>3 DEF k

LEMMA TwoChecks ==
    ASSUME NEW c \in BOOLEAN, NEW s, NEW w, s # "Ok", NEW d \in BOOLEAN, NEW t, NEW x, t # "Ok",
           NEW v,
           FirstError(<<When(c, Fail(s, w)), When(d, Fail(t, x))>>, Done(v)).status = "Ok"
    PROVE  /\ FirstError(<<When(c, Fail(s, w)), When(d, Fail(t, x))>>, Done(v)) = Done(v)
           /\ ~c /\ ~d
<1>. DEFINE k == <<When(c, Fail(s, w)), When(d, Fail(t, x))>>
<1>1. /\ DOMAIN k = {1, 2} /\ DOMAIN k \subseteq Nat
      /\ (k[1].cond <=> c) /\ k[1].error = Fail(s, w)
      /\ (k[2].cond <=> d) /\ k[2].error = Fail(t, x)
  BY WhenFields
<1>2. FirstError(k, Done(v)).status = "Ok" /\ Fail(s, w).status # "Ok" /\ Fail(t, x).status # "Ok"
  BY DEF Fail
<1>. HIDE DEF k
<1>3. FirstError(k, Done(v)) = Done(v) /\ ~c /\ ~d
  BY <1>1, <1>2, FirstErrorCases
<1>. QED
  BY <1>3 DEF k

\* What is copied out is the data, or nothing.
LEMMA WriteOutValue ==
    ASSUME NEW data, NEW buf
    PROVE  write_out(data, buf).value \in {<<>>, data}
<1>. DEFINE none == buf = "none"
            short == buf = "short"
            k == <<When(none, Done(<<>>)), When(short, Fail("BufferTooSmall", "buffer"))>>
<1>0. none \in BOOLEAN /\ short \in BOOLEAN
  OBVIOUS
<1>1. write_out(data, buf) = FirstError(k, Done(data))
  BY DEF write_out
<1>. HIDE DEF none, short
<1>2. /\ DOMAIN k = {1, 2} /\ DOMAIN k \subseteq Nat
      /\ k[1].error = Done(<<>>) /\ k[2].error = Fail("BufferTooSmall", "buffer")
  BY <1>0, WhenFields
<1>. HIDE DEF k
<1>3. \/ write_out(data, buf) = Done(data) \/ write_out(data, buf) = Done(<<>>)
      \/ write_out(data, buf) = Fail("BufferTooSmall", "buffer")
  BY <1>1, <1>2, FirstErrorCases
<1>4. \A v : Done(v).value = v
  BY DEF Done
<1>5. Fail("BufferTooSmall", "buffer").value = <<>>
  BY DEF Fail
<1>. QED
  BY <1>3, <1>4, <1>5

\* The kinds of handle that hold nothing to be wrong about.
LEMMA PlainSound ==
    ASSUME NEW v, v.type \in {"DhowKey", "DhowIdentity", "DhowPublicIdentity", "DhowEncoder"}
    PROVE  Sound(v)'
  BY DEF Sound

\* What a constructor of keys and identities returns, when it returns one.
LEMMA KeysMade ==
    ASSUME NEW i, NEW path, NEW ok \in BOOLEAN, NEW id, NEW o, o.status = "Ok",
           \/ o = dhow_key_generate(i, ok) \/ o = dhow_key_load(path, i, ok)
           \/ o = dhow_identity_generate(i, ok) \/ o = dhow_identity_load(path, i, ok)
           \/ o = dhow_identity_public(id) \/ o = dhow_public_load(path, i, ok)
    PROVE  o.value.type \in {"DhowKey", "DhowIdentity", "DhowPublicIdentity", "DhowEncoder"}
<1>. DEFINE bad == ~ok
            lost == path = Null
<1>0. bad \in BOOLEAN /\ lost \in BOOLEAN
  OBVIOUS
<1>1. \A v : Done(v).value = v
  BY DEF Done
<1>2. CASE o = dhow_key_generate(i, ok)
  <2>. DEFINE v == [type |-> "DhowKey", inner |-> i]
  <2>1. o = FirstError(<<When(bad, Fail("null", "randomness"))>>, Done(v))
    BY <1>2 DEF dhow_key_generate, NoHandle
  <2>2. v.type = "DhowKey"
    OBVIOUS
  <2>. HIDE DEF bad, v
  <2>3. o = Done(v)
    BY <1>0, <2>1, OneCheck
  <2>. QED
    BY <1>1, <2>2, <2>3
<1>3. CASE o = dhow_identity_generate(i, ok)
  <2>. DEFINE v == [type |-> "DhowIdentity", inner |-> i]
  <2>1. o = FirstError(<<When(bad, Fail("null", "randomness"))>>, Done(v))
    BY <1>3 DEF dhow_identity_generate, NoHandle
  <2>2. v.type = "DhowIdentity"
    OBVIOUS
  <2>. HIDE DEF bad, v
  <2>3. o = Done(v)
    BY <1>0, <2>1, OneCheck
  <2>. QED
    BY <1>1, <2>2, <2>3
<1>4. ASSUME NEW v, NEW w,
             o = FirstError(<<When(lost, NoHandle("path")), When(bad, NoHandle(w))>>, Done(v))
      PROVE  o = Done(v)
  <2>1. o = FirstError(<<When(lost, Fail("null", "path")), When(bad, Fail("null", w))>>, Done(v))
    BY <1>4 DEF NoHandle
  <2>. HIDE DEF bad, lost
  <2>. QED
    BY <1>0, <2>1, TwoChecks
<1>5. CASE o = dhow_key_load(path, i, ok)
  <2>1. o = Done([type |-> "DhowKey", inner |-> i])
    BY <1>4, <1>5 DEF dhow_key_load
  <2>. QED
    BY <1>1, <2>1
<1>6. CASE o = dhow_identity_load(path, i, ok)
  <2>1. o = Done([type |-> "DhowIdentity", inner |-> i])
    BY <1>4, <1>6 DEF dhow_identity_load
  <2>. QED
    BY <1>1, <2>1
<1>7. CASE o = dhow_public_load(path, i, ok)
  <2>1. o = Done([type |-> "DhowPublicIdentity", inner |-> i])
    BY <1>4, <1>7 DEF dhow_public_load
  <2>. QED
    BY <1>1, <2>1
<1>8. CASE o = dhow_identity_public(id)
  BY <1>8 DEF dhow_identity_public, NoHandle, Fail, Done
<1>. QED
  BY <1>2, <1>3, <1>5, <1>6, <1>7, <1>8

\* The two checks dhow_encoder_new and dhow_decoder_new end with.
TransferChecks(ptrs, params) ==
    <<When(ptrs = Null, NoHandle("pointer")), When(~ValidParams(params), NoHandle("parameters"))>>

LEMMA TransferChecked ==
    ASSUME NEW ptrs, NEW params, NEW v, NEW o, o.status = "Ok",
           o = FirstError(TransferChecks(ptrs, params), Done(v))
    PROVE  o.value = v
<1>. DEFINE none == ptrs = Null
            bad == ~ValidParams(params)
<1>1. none \in BOOLEAN /\ bad \in BOOLEAN
  BY DEF ValidParams
<1>2. o = FirstError(<<When(none, Fail("null", "pointer")), When(bad, Fail("null", "parameters"))>>,
                     Done(v))
  BY DEF TransferChecks, NoHandle
<1>. HIDE DEF none, bad
<1>3. o = Done(v)
  BY <1>1, <1>2, TwoChecks
<1>4. Done(v).value = v
  BY DEF Done
<1>. QED
  BY <1>3, <1>4

\* What dhow_encoder_new returns, when it returns one.
LEMMA EncoderMade ==
    ASSUME NEW key, NEW ptrs, NEW session_id, NEW salt, NEW nonce, NEW params, NEW payload,
           NEW o, o = dhow_encoder_new(key, ptrs, session_id, salt, nonce, params, payload),
           o.status = "Ok"
    PROVE  o.value.type = "DhowEncoder"
<1>. DEFINE keys == derive(key.inner, salt)
            c == encrypt_payload(keys, nonce, session_id, payload)
            v == [type |-> "DhowEncoder", params |-> [params EXCEPT !.payload_digest = c],
                  frames |-> FramesOf(session_id, keys, params, c)]
<1>1. v.type = "DhowEncoder"
  OBVIOUS
<1>2. key # Null
  BY DEF dhow_encoder_new, NoHandle, Fail
<1>3. o = FirstError(TransferChecks(ptrs, params), Done(v))
  BY <1>2 DEF dhow_encoder_new, TransferChecks
<1>. HIDE DEF v
<1>4. o.value = v
  BY <1>3, TransferChecked
<1>. QED
  BY <1>1, <1>4

\* What dhow_decoder_new returns, when it returns one.
LEMMA DecoderMade ==
    ASSUME NEW key, NEW ptrs, NEW session_id, NEW salt, NEW params,
           NEW o, o = dhow_decoder_new(key, ptrs, session_id, salt, params), o.status = "Ok"
    PROVE  o.value = [type |-> "DhowDecoder", session_id |-> session_id,
                      session_key |-> derive(key.inner, salt).session_key,
                      params |-> params, held |-> <<>>]
<1>. DEFINE v == [type |-> "DhowDecoder", session_id |-> session_id,
                  session_key |-> derive(key.inner, salt).session_key,
                  params |-> params, held |-> <<>>]
<1>1. key # Null
  BY DEF dhow_decoder_new, NoHandle, Fail
<1>2. o = FirstError(TransferChecks(ptrs, params), Done(v))
  BY <1>1 DEF dhow_decoder_new, TransferChecks
<1>. HIDE DEF v
<1>3. o.value = v
  BY <1>2, TransferChecked
<1>. QED
  BY <1>3 DEF v

-----------------------------------------------------------------------------
(***************************************************************************)
(* The calls, one family after the other                                   *)
(***************************************************************************)

\* A question changes no handle.
LEMMA AskKeeps ==
    ASSUME HandlesIInv, NEW g, NEW kind, NEW o, Ask(g, kind, o)
    PROVE  HandlesIInv'
<1>1. UNCHANGED <<handles, world>>
  BY DEF Ask
<1>. QED
  BY <1>1, WorldKept

\* A constructor that makes a sound handle.
LEMMA OpenKeeps ==
    ASSUME HandlesIInv, NEW g, NEW o, Open(g, o), UNCHANGED world,
           o.status = "Ok" => Sound(o.value)'
    PROVE  HandlesIInv'
<1>1. \A h \in handles' : h \in handles \/ Sound(h)'
  BY DEF Open
<1>. QED
  BY <1>1, WorldKept

LEMMA KeyKeeps ==
    ASSUME HandlesIInv, NEW g, Key(g) \/ Identity(g)
    PROVE  HandlesIInv'
<1>1. ASSUME NEW i, NEW path, NEW ok \in BOOLEAN, NEW id, NEW o, Open(g, o), UNCHANGED world,
             \/ o = dhow_key_generate(i, ok) \/ o = dhow_key_load(path, i, ok)
             \/ o = dhow_identity_generate(i, ok) \/ o = dhow_identity_load(path, i, ok)
             \/ o = dhow_identity_public(id) \/ o = dhow_public_load(path, i, ok)
      PROVE  HandlesIInv'
  <2>1. o.status = "Ok" => Sound(o.value)'
    BY <1>1, KeysMade, PlainSound
  <2>. QED
    BY <1>1, <2>1, OpenKeeps
<1>2. CASE Key(g)
  <2>1. PICK k \in Keys, path \in Paths \cup {Null}, ok \in BOOLEAN :
            \/ Open(g, dhow_key_generate(k, ok)) /\ UNCHANGED world
            \/ Open(g, dhow_key_load(path, k, ok)) /\ UNCHANGED world
            \/ \E key \in Ptr("DhowKey") : Ask(g, "status", dhow_key_save(key, path, ok))
    BY <1>2 DEF Key
  <2>. QED
    BY <1>1, <2>1, AskKeeps
<1>3. CASE Identity(g)
  <2>1. PICK i \in Identities, path \in Paths \cup {Null}, ok \in BOOLEAN :
            \/ Open(g, dhow_identity_generate(i, ok)) /\ UNCHANGED world
            \/ Open(g, dhow_identity_load(path, i, ok)) /\ UNCHANGED world
            \/ \E id \in Ptr("DhowIdentity") :
                \/ Ask(g, "status", dhow_identity_save(id, path, ok))
                \/ Open(g, dhow_identity_public(id)) /\ UNCHANGED world
            \/ Open(g, dhow_public_load(path, i, ok)) /\ UNCHANGED world
            \/ \E kind, o : Ask(g, kind, o)
    BY <1>3 DEF Identity
  <2>2. CASE \E kind, o : Ask(g, kind, o)
    BY <2>2, AskKeeps
  <2>3. CASE \E id \in Ptr("DhowIdentity") :
                \/ Ask(g, "status", dhow_identity_save(id, path, ok))
                \/ Open(g, dhow_identity_public(id)) /\ UNCHANGED world
    BY <1>1, <2>3, AskKeeps
  <2>. QED
    BY <1>1, <2>1, <2>2, <2>3
<1>. QED
  BY <1>2, <1>3

\* What is sent has the shape of what is sent.
LEMMA EncoderNewKeeps ==
    ASSUME HandlesIInv, NEW g, EncoderNew(g)
    PROVE  HandlesIInv'
<1>1. PICK key \in Ptr("DhowKey"), ptrs \in {Null, "given"}, session_id \in Sessions,
           salt \in Salts, nonce \in Nonces, params \in ParamSets, payload \in Payloads :
        LET o == dhow_encoder_new(key, ptrs, session_id, salt, nonce, params, payload)
        IN  /\ Cardinality(sent) < MaxSent /\ Open(g, o)
            /\ sent' = IF o.status # "Ok" THEN sent
                       ELSE sent \cup {[key |-> key.inner, salt |-> salt, nonce |-> nonce,
                                        session_id |-> session_id, payload |-> payload]}
            /\ UNCHANGED <<program, signed, delivered>>
  BY DEF EncoderNew
<1>. DEFINE o == dhow_encoder_new(key, ptrs, session_id, salt, nonce, params, payload)
            s == [key |-> key.inner, salt |-> salt, nonce |-> nonce,
                  session_id |-> session_id, payload |-> payload]
<1>2. /\ Open(g, o) /\ sent' = (IF o.status # "Ok" THEN sent ELSE sent \cup {s})
      /\ signed' = signed /\ delivered' = delivered
  BY <1>1
<1>3. o.status = "Ok" => Sound(o.value)'
  <2>1. o.status = "Ok" => o.value.type = "DhowEncoder"
    BY EncoderMade
  <2>. HIDE DEF o
  <2>. QED
    BY <2>1, PlainSound
<1>4. s = [key |-> s.key, salt |-> s.salt, nonce |-> s.nonce, session_id |-> s.session_id,
           payload |-> s.payload]
  OBVIOUS
<1>. HIDE DEF o, s
<1>5. sent \subseteq sent' /\ \A x \in sent' : x \in sent \/ x = s
  BY <1>2
<1>6. \A h \in handles' : h \in handles \/ Sound(h)'
  BY <1>2, <1>3 DEF Open
<1>7. HandlesSound'
  BY <1>2, <1>5, <1>6, KeepsHandles
<1>8. SentShape'
  BY <1>4, <1>5 DEF HandlesIInv, SentShape
<1>. QED
  BY <1>2, <1>5, <1>7, <1>8 DEF HandlesIInv, SignedOwn, FinishReturnsSent

LEMMA DecoderNewKeeps ==
    ASSUME HandlesIInv, NEW g, DecoderNew(g)
    PROVE  HandlesIInv'
<1>1. PICK key \in Ptr("DhowKey"), ptrs \in {Null, "given"}, session_id \in Sessions,
           salt \in Salts, params \in GivenParams :
        Open(g, dhow_decoder_new(key, ptrs, session_id, salt, params)) /\ UNCHANGED world
  BY DEF DecoderNew
<1>. DEFINE o == dhow_decoder_new(key, ptrs, session_id, salt, params)
            session_key == derive(key.inner, salt).session_key
            v == [type |-> "DhowDecoder", session_id |-> session_id,
                  session_key |-> session_key, params |-> params, held |-> <<>>]
<1>2. o.status = "Ok" => o.value = v
  BY DecoderMade
<1>. HIDE DEF o, session_key
<1>3. Sound(v)'
  <2>1. v.held = [i \in 1 .. 0 |-> v.held[i]] /\ DOMAIN v.held = {}
    OBVIOUS
  <2>2. v.type = "DhowDecoder"
    OBVIOUS
  <2>3. DecoderSound(v)'
    BY <2>1 DEF DecoderSound
  <2>. QED
    BY <2>2, <2>3 DEF Sound
<1>. QED
  BY <1>1, <1>2, <1>3, OpenKeeps DEF o

\* A decoder that accepts a frame holds one more, and its bytes were sent.
LEMMA DecoderAcceptKeeps ==
    ASSUME HandlesIInv, NEW g, DecoderAccept(g)
    PROVE  HandlesIInv'
<1>1. PICK dec \in Ptr("DhowDecoder"), frame \in OnAir \cup {Null} :
        Change(g, dec, dhow_decoder_accept(dec, frame))
  BY DEF DecoderAccept
<1>. DEFINE o == dhow_decoder_accept(dec, frame)
<1>2. /\ UNCHANGED world /\ sent' = sent /\ signed' = signed
      /\ handles' = (IF o.status = "Ok" THEN (handles \ {dec}) \cup {o.value} ELSE handles)
  BY <1>1 DEF Change, world
<1>3. ASSUME o.status = "Ok" PROVE Sound(o.value)'
  <2>1. dec # Null /\ frame # Null
    BY <1>3 DEF dhow_decoder_accept, Fail
  <2>2. dec \in handles /\ dec.type = "DhowDecoder" /\ frame \in OnAir
    BY <2>1 DEF Ptr, Live
  <2>3. Sound(dec) /\ DecoderSound(dec)
    BY <2>2 DEF HandlesIInv, HandlesSound, Sound
  <2>4. o.value = dec \/ o.value = [dec EXCEPT !.held = Append(@, frame)]
    BY <1>3, <2>1 DEF dhow_decoder_accept, Done, Fail
  <2>5. CASE o.value = dec
    BY <1>2, <2>3, <2>5, StaysSound
  <2>6. CASE o.value = [dec EXCEPT !.held = Append(@, frame)]
    <3>1. PICK n \in Nat : dec.held = [i \in 1 .. n |-> dec.held[i]]
      BY <2>3 DEF DecoderSound
    <3>. DEFINE T == Range(dec.held) \cup {frame}
                f == Append(dec.held, frame)
                v == [type |-> "DhowDecoder", session_id |-> dec.session_id,
                      session_key |-> dec.session_key, params |-> dec.params, held |-> f]
    <3>2. dec.held \in Seq(T) /\ Len(dec.held) = n
      <4>1. Range(dec.held) \subseteq T
        OBVIOUS
      <4>. HIDE DEF T
      <4>. QED
        BY <3>1, <4>1, SequenceOfRange
    <3>3. /\ DOMAIN f = 1 .. n + 1 /\ f = [i \in 1 .. n + 1 |-> f[i]] /\ n + 1 \in Nat
          /\ f[n + 1] = frame /\ \A i \in 1 .. n : f[i] = dec.held[i]
      <4>. HIDE DEF T
      <4>. QED
        BY <3>2
    <3>. HIDE DEF f
    <3>4. PICK s \in sent : frame.of = CipherOf(s)
      BY <2>2 DEF OnAir
    <3>5. \A i \in 1 .. n : \E x \in sent : dec.held[i].of = CipherOf(x)
      BY <2>3, <3>1 DEF DecoderSound
    <3>6. \A i \in DOMAIN f : \E x \in sent : f[i].of = CipherOf(x)
      <4>. SUFFICES ASSUME NEW i \in 1 .. n + 1 PROVE \E x \in sent : f[i].of = CipherOf(x)
        BY <3>3
      <4>1. CASE i = n + 1
        BY <3>3, <3>4, <4>1
      <4>2. CASE i # n + 1
        <5>1. i \in 1 .. n
          BY <4>2
        <5>. QED
          BY <3>3, <3>5, <5>1
      <4>. QED
        BY <4>1, <4>2
    <3>7. o.value = v
      <4>1. dec = [type |-> "DhowDecoder", session_id |-> dec.session_id,
                   session_key |-> dec.session_key, params |-> dec.params, held |-> dec.held]
        BY <2>3 DEF DecoderSound
      <4>2. [dec EXCEPT !.held = f] = v
        BY <4>1
      <4>. HIDE DEF o, v
      <4>. QED
        BY <2>6, <4>2 DEF f
    <3>8. /\ v.type = "DhowDecoder" /\ v.held = f
          /\ v = [type |-> "DhowDecoder", session_id |-> v.session_id,
                  session_key |-> v.session_key, params |-> v.params, held |-> v.held]
      OBVIOUS
    <3>. HIDE DEF v
    <3>9. DecoderSound(v)
      BY <3>3, <3>6, <3>8 DEF DecoderSound
    <3>10. Sound(v)
      BY <3>8, <3>9 DEF Sound
    <3>. QED
      BY <1>2, <3>7, <3>10, StaysSound
  <2>. QED
    BY <2>4, <2>5, <2>6
<1>. HIDE DEF o
<1>4. \A h \in handles' : h \in handles \/ Sound(h)'
  BY <1>2, <1>3
<1>. QED
  BY <1>2, <1>4, WorldKept

\* A ciphertext is told apart by key, salt, nonce and session.
LEMMA CipherFields ==
    ASSUME NEW s
    PROVE  /\ CipherOf(s).key = <<"payload", s.key, s.salt>>
           /\ CipherOf(s).nonce = s.nonce /\ CipherOf(s).aad = s.session_id
           /\ CipherOf(s).plaintext = s.payload
  BY DEF CipherOf, encrypt_payload, derive

\* What dhow_decoder_finish hands out is the plaintext of a ciphertext that was
\* sent and whose tag is right.
LEMMA FinishedWasSent ==
    ASSUME NEW dec, DecoderSound(dec) \/ dec = Null, NEW key, NEW ptrs, NEW session_id, NEW salt,
           NEW nonce, NEW buf, NEW o,
           o = dhow_decoder_finish(dec, key, ptrs, session_id, salt, nonce, buf), o.value # <<>>
    PROVE  \E s \in sent : /\ s.key = key.inner /\ s.salt = salt /\ s.nonce = nonce
                           /\ s.session_id = session_id /\ o.value = <<s.payload>>
<1>. DEFINE c == dec.params.payload_digest
            right == Authentic(derive(key.inner, salt), nonce, session_id, c)
<1>1. \A status, why : Fail(status, why).value = <<>>
  BY DEF Fail
<1>2. /\ dec # Null /\ Reassembled(dec) = {c} /\ right /\ o = write_out(<<c.plaintext>>, buf)
  <2>. HIDE DEF right
  <2>. QED
    BY <1>1 DEF dhow_decoder_finish, right
<1>3. o.value = <<c.plaintext>>
  BY <1>2, WriteOutValue
<1>4. PICK i \in DOMAIN dec.held : dec.held[i].of = c
  BY <1>2 DEF Reassembled
<1>5. PICK s \in sent : c = CipherOf(s)
  BY <1>2, <1>4 DEF DecoderSound
<1>6. c.key = <<"payload", key.inner, salt>> /\ c.nonce = nonce /\ c.aad = session_id
  BY <1>2 DEF Authentic, derive
<1>. HIDE DEF c
<1>7. s.key = key.inner /\ s.salt = salt /\ s.nonce = nonce /\ s.session_id = session_id
  BY <1>5, <1>6, CipherFields
<1>8. o.value = <<s.payload>>
  BY <1>3, <1>5, CipherFields
<1>. QED
  BY <1>7, <1>8

LEMMA DecoderFinishKeeps ==
    ASSUME HandlesIInv, NEW g, DecoderFinish(g)
    PROVE  HandlesIInv'
<1>1. PICK dec \in Ptr("DhowDecoder"), key \in Ptr("DhowKey"), ptrs \in {Null, "given"},
           session_id \in Sessions, salt \in Salts, nonce \in Nonces,
           buf \in {"none", "short", "fits"} :
        LET o == dhow_decoder_finish(dec, key, ptrs, session_id, salt, nonce, buf)
        IN  /\ Enter(g, "status", o)
            /\ delivered' = IF o.value = <<>> THEN delivered
                            ELSE {[key |-> key.inner, salt |-> salt, nonce |-> nonce,
                                   session_id |-> session_id, payload |-> o.value[1]]}
            /\ UNCHANGED <<program, handles, sent, signed>>
  BY DEF DecoderFinish
<1>. DEFINE o == dhow_decoder_finish(dec, key, ptrs, session_id, salt, nonce, buf)
            d == [key |-> key.inner, salt |-> salt, nonce |-> nonce,
                  session_id |-> session_id, payload |-> o.value[1]]
<1>2. /\ delivered' = (IF o.value = <<>> THEN delivered ELSE {d})
      /\ handles' = handles /\ sent' = sent /\ signed' = signed
  BY <1>1
<1>3. DecoderSound(dec) \/ dec = Null
  BY DEF Ptr, Live, HandlesIInv, HandlesSound, Sound
<1>4. ASSUME o.value # <<>> PROVE d \in sent
  <2>1. PICK s \in sent : /\ s.key = key.inner /\ s.salt = salt /\ s.nonce = nonce
                          /\ s.session_id = session_id /\ o.value = <<s.payload>>
    BY <1>3, <1>4, FinishedWasSent
  <2>. HIDE DEF o
  <2>2. o.value[1] = s.payload
    BY <2>1
  <2>3. s = [key |-> s.key, salt |-> s.salt, nonce |-> s.nonce, session_id |-> s.session_id,
             payload |-> s.payload]
    BY DEF HandlesIInv, SentShape
  <2>. QED
    BY <2>1, <2>2, <2>3
<1>. HIDE DEF o, d
<1>5. FinishReturnsSent'
  BY <1>2, <1>4 DEF HandlesIInv, FinishReturnsSent
<1>6. HandlesSound'
  BY <1>2, KeepsHandles
<1>. QED
  BY <1>2, <1>5, <1>6 DEF HandlesIInv, SentShape, SignedOwn

LEMMA TransfersKeeps ==
    ASSUME HandlesIInv, NEW g, Transfers(g)
    PROVE  HandlesIInv'
<1>1. CASE EncoderUse(g)
  BY <1>1, AskKeeps DEF EncoderUse
<1>2. CASE DecoderUse(g)
  BY <1>2, AskKeeps DEF DecoderUse
<1>. QED
  BY <1>1, <1>2, EncoderNewKeeps, DecoderNewKeeps, DecoderAcceptKeeps, DecoderFinishKeeps
     DEF Transfers

LEMMA HashKeeps ==
    ASSUME HandlesIInv, NEW g, Hash(g)
    PROVE  HandlesIInv'
<1>1. CASE \E kind, o : Ask(g, kind, o)
  BY <1>1, AskKeeps
<1>2. CASE Open(g, dhow_hasher_new) /\ UNCHANGED world
  <2>. DEFINE v == [type |-> "DhowHasher", taken |-> <<>>]
  <2>1. v.type = "DhowHasher" /\ v = [type |-> "DhowHasher", taken |-> v.taken]
    OBVIOUS
  <2>2. dhow_hasher_new.value = v
    BY DEF dhow_hasher_new, Done
  <2>. HIDE DEF v
  <2>3. Sound(v)'
    BY <2>1 DEF Sound
  <2>. QED
    BY <1>2, <2>2, <2>3, OpenKeeps
<1>3. ASSUME NEW h \in Ptr("DhowHasher"), NEW data, Change(g, h, dhow_hasher_update(h, data))
      PROVE  HandlesIInv'
  <2>. DEFINE o == dhow_hasher_update(h, data)
  <2>1. /\ UNCHANGED world
        /\ handles' = (IF o.status = "Ok" THEN (handles \ {h}) \cup {o.value} ELSE handles)
    BY <1>3 DEF Change
  <2>2. ASSUME o.status = "Ok" PROVE Sound(o.value)'
    <3>1. h # Null /\ o.value = [h EXCEPT !.taken = Append(@, data)]
      BY <2>2 DEF dhow_hasher_update, Fail, Done
    <3>2. h = [type |-> "DhowHasher", taken |-> h.taken]
      BY <3>1 DEF Ptr, Live, HandlesIInv, HandlesSound, Sound
    <3>. DEFINE f == Append(h.taken, data)
    <3>. HIDE DEF o
    <3>3. o.value = [h EXCEPT !.taken = f]
      BY <3>1
    <3>. HIDE DEF f
    <3>4. o.value = [type |-> "DhowHasher", taken |-> f]
      BY <3>2, <3>3
    <3>5. o.value.type = "DhowHasher" /\ o.value = [type |-> "DhowHasher", taken |-> o.value.taken]
      BY <3>4
    <3>. QED
      BY <3>5 DEF Sound
  <2>. HIDE DEF o
  <2>3. \A x \in handles' : x \in handles \/ Sound(x)'
    BY <2>1, <2>2
  <2>. QED
    BY <2>1, <2>3, WorldKept
<1>4. \/ \E kind, o : Ask(g, kind, o)
      \/ Open(g, dhow_hasher_new) /\ UNCHANGED world
      \/ \E h \in Ptr("DhowHasher"), data \in Payloads \cup {Null} :
            Change(g, h, dhow_hasher_update(h, data))
  BY DEF Hash
<1>. QED
  BY <1>1, <1>2, <1>3, <1>4

LEMMA HandleValue ==
    ASSUME NEW b
    PROVE  ManifestHandle(b).value =
              [type |-> "DhowManifest", manifest |-> ManifestFrom(b), bytes |-> b]
<1>1. \A v : Done(v).value = v
  BY DEF Done
<1>. QED
  BY <1>1 DEF ManifestHandle

\* What dhow_manifest_build signs it has signed over its own bytes, and read back.
LEMMA ManifestBuildKeeps ==
    ASSUME HandlesIInv, NEW g, ManifestBuild(g)
    PROVE  HandlesIInv'
<1>1. PICK id \in Ptr("DhowIdentity"), ptrs \in {Null, "given"},
           entries \in Inventories \cup {Null}, session_id \in Sessions, salt \in Salts,
           nonce \in Nonces, params \in ParamSets :
        LET o == dhow_manifest_build(id, ptrs, entries, session_id, salt, nonce, params)
        IN  /\ Cardinality(signed) < MaxSent /\ Open(g, o)
            /\ signed' = IF o.status = "Ok" THEN signed \cup {o.value.bytes} ELSE signed
            /\ UNCHANGED <<program, sent, delivered>>
  BY DEF ManifestBuild
<1>. DEFINE o == dhow_manifest_build(id, ptrs, entries, session_id, salt, nonce, params)
            b == BuiltBytes(id.inner, session_id, salt, nonce, params, entries)
<1>2. /\ Open(g, o) /\ sent' = sent /\ delivered' = delivered
      /\ signed' = (IF o.status = "Ok" THEN signed \cup {o.value.bytes} ELSE signed)
  BY <1>1
<1>3. ASSUME o.status = "Ok" PROVE o = ManifestHandle(b) /\ ManifestError(b) = "Ok"
  <2>. HIDE DEF b
  <2>. QED
    BY <1>3 DEF dhow_manifest_build, NoHandle, Fail, b
<1>4. IsBytes(b) /\ b.signature = <<id.inner, signing_bytes(b)>>
  BY BuiltIsSigned
<1>. HIDE DEF o, b
<1>5. ASSUME o.status = "Ok"
      PROVE  o.value = [type |-> "DhowManifest", manifest |-> ManifestFrom(b), bytes |-> b]
  BY <1>3, <1>5, HandleValue
<1>6. signed \subseteq signed' /\ \A s \in signed' : s \in signed \/ s = b
  BY <1>2, <1>5
<1>7. ASSUME o.status = "Ok" PROVE Sound(o.value)'
  <2>1. o.value.type = "DhowManifest" /\ o.value.bytes = b /\ o.value.manifest = ManifestFrom(b)
    BY <1>5, <1>7
  <2>2. b \in signed'
    BY <1>2, <1>7, <2>1
  <2>. QED
    BY <1>3, <1>7, <2>1, <2>2 DEF Sound, ManifestSound
<1>8. \A h \in handles' : h \in handles \/ Sound(h)'
  BY <1>2, <1>7 DEF Open
<1>9. HandlesSound'
  BY <1>2, <1>6, <1>8, KeepsHandles
<1>10. SignedOwn'
  BY <1>4, <1>6 DEF HandlesIInv, SignedOwn
<1>. QED
  BY <1>2, <1>9, <1>10 DEF HandlesIInv, SentShape, FinishReturnsSent

\* A manifest on its way keeps the layout, and a signature that was once made.
LEMMA CarriedBorrows ==
    ASSUME HandlesIInv, NEW m \in Carried
    PROVE  IsBytes(m) /\ \E s \in signed : m.signature = s.signature
<1>0. \A s \in signed : IsBytes(s)
  BY DEF HandlesIInv, SignedOwn
<1>1. CASE m \in signed
  BY <1>0, <1>1
<1>2. ASSUME NEW s \in signed, NEW x, m = Rebound(s, x)
      PROVE  IsBytes(m) /\ m.signature = s.signature
  <2>. DEFINE h == [s.header EXCEPT !.session_id = x]
              a == [s EXCEPT !.header = h]
              c == crc_covered_bytes(a)
  <2>1. m = [a EXCEPT !.crc = c]
    BY <1>2 DEF Rebound
  <2>. HIDE DEF h, c
  <2>2. IsBytes(a) /\ a.signature = s.signature
    BY <1>0 DEF IsBytes
  <2>. HIDE DEF a
  <2>. QED
    BY <2>1, <2>2 DEF IsBytes
<1>3. ASSUME NEW s \in signed, m = Shortened(s)
      PROVE  IsBytes(m) /\ m.signature = s.signature
  <2>. DEFINE e == SubSeq(s.entries, 2, Len(s.entries))
  <2>1. m = [s EXCEPT !.entries = e]
    BY <1>3 DEF Shortened
  <2>. HIDE DEF e
  <2>. QED
    BY <1>0, <2>1 DEF IsBytes
<1>4. m \in signed \/ (\E s \in signed, x \in Sessions : m = Rebound(s, x))
        \/ (\E s \in signed : m = Shortened(s))
  BY DEF Carried
<1>. QED
  BY <1>1, <1>2, <1>3, <1>4

\* Bytes verified are bytes signed, so the handle is of what some identity signed.
LEMMA ManifestVerifyKeeps ==
    ASSUME HandlesIInv, NEW g, ManifestVerify(g)
    PROVE  HandlesIInv'
<1>1. PICK pub \in Ptr("DhowPublicIdentity"), bytes \in Carried \cup {Null},
           session \in {{}} \cup {{s} : s \in Sessions} :
        Open(g, dhow_manifest_verify(pub, bytes, session)) /\ UNCHANGED world
  BY DEF ManifestVerify
<1>. DEFINE o == dhow_manifest_verify(pub, bytes, session)
            v == verify_manifest_with(pub.inner, bytes, session, Policy)
<1>2. ASSUME o.status = "Ok" PROVE bytes # Null /\ v.error = "Ok" /\ o = ManifestHandle(bytes)
  <2>. HIDE DEF v
  <2>. QED
    BY <1>2 DEF dhow_manifest_verify, NoHandle, Fail, v
<1>3. ASSUME o.status = "Ok" PROVE Sound(o.value)'
  <2>1. bytes \in Carried
    BY <1>2, <1>3
  <2>2. SignatureError(pub.inner, bytes) = "Ok"
    BY <1>2, <1>3, VerifyStages
  <2>3. ManifestError(bytes) = "Ok" /\ bytes.signature = <<pub.inner, signing_bytes(bytes)>>
    BY <2>2, SignatureSound
  <2>4. PICK s \in signed : bytes.signature = s.signature
    BY <2>1, CarriedBorrows
  <2>5. IsBytes(bytes) /\ IsBytes(s) /\ s.signature = <<s.signature[1], signing_bytes(s)>>
    BY <2>1, CarriedBorrows DEF HandlesIInv, SignedOwn
  <2>6. signing_bytes(bytes) = signing_bytes(s)
    BY <2>3, <2>4, <2>5
  <2>7. bytes = s
    BY <2>4, <2>5, <2>6, SigningBytesDetermine
  <2>8. signed' = signed
    BY <1>1 DEF world
  <2>9. o.value = [type |-> "DhowManifest", manifest |-> ManifestFrom(bytes), bytes |-> bytes]
    BY <1>2, <1>3, HandleValue
  <2>. HIDE DEF o
  <2>10. /\ o.value.type = "DhowManifest" /\ o.value.bytes = bytes
         /\ o.value.manifest = ManifestFrom(bytes)
    BY <2>9
  <2>. QED
    BY <2>3, <2>7, <2>8, <2>10 DEF Sound, ManifestSound
<1>. QED
  BY <1>1, <1>3, OpenKeeps

LEMMA NextKeepsHandles ==
    ASSUME HandlesIInv, HandlesNext
    PROVE  HandlesIInv'
<1>1. PICK g \in Callers :
        \/ ReadError(g) \/ Panics(g) \/ Free(g)
        \/ Key(g) \/ Identity(g) \/ Transfers(g) \/ Hash(g) \/ Qr(g) \/ Manifests(g)
  BY DEF HandlesNext
<1>2. CASE ReadError(g) \/ Panics(g)
  <2>1. handles' = handles /\ UNCHANGED world
    BY <1>2 DEF ReadError, Panics
  <2>. QED
    BY <2>1, WorldKept
<1>3. CASE Free(g)
  <2>1. handles' \subseteq handles /\ UNCHANGED world
    BY <1>3 DEF Free
  <2>. QED
    BY <2>1, WorldKept
<1>4. CASE Qr(g)
  BY <1>4, AskKeeps DEF Qr
<1>5. CASE Manifests(g)
  <2>1. CASE ManifestUse(g)
    BY <2>1, AskKeeps DEF ManifestUse
  <2>. QED
    BY <1>5, <2>1, ManifestBuildKeeps, ManifestVerifyKeeps DEF Manifests
<1>. QED
  BY <1>1, <1>2, <1>3, <1>4, <1>5, KeyKeeps, TransfersKeeps, HashKeeps

\* The part of the invariant about handles holds whatever is made, used and freed.
THEOREM HandlesInvariant == HandlesSpec => []HandlesIInv
<1>1. HandlesInit => HandlesIInv
  BY DEF HandlesInit, HandlesIInv, HandlesSound, SentShape, SignedOwn, FinishReturnsSent
<1>2. HandlesIInv /\ [HandlesNext]_handleVars => HandlesIInv'
  <2>. SUFFICES ASSUME HandlesIInv, [HandlesNext]_handleVars PROVE HandlesIInv'
    OBVIOUS
  <2>1. CASE UNCHANGED handleVars
    <3>1. handles' = handles /\ UNCHANGED world
      BY <2>1 DEF handleVars, world
    <3>. QED
      BY <3>1, WorldKept
  <2>. QED
    BY <2>1, NextKeepsHandles
<1>. QED
  BY <1>1, <1>2, PTL DEF HandlesSpec

\* Whatever dhow_decoder_finish is called with, the payload it hands out was
\* encrypted under that key, salt, nonce and session (digest, then tag).
THEOREM FinishedPayloadSent == HandlesSpec => []FinishReturnsSent
<1>1. HandlesIInv => FinishReturnsSent
  BY DEF HandlesIInv
<1>. QED
  BY <1>1, HandlesInvariant, PTL

\* Who has a manifest handle has bytes that parse and that some identity signed as
\* they are (dhow_manifest_build parses back, dhow_manifest_verify verifies first).
THEOREM ManifestHandles == HandlesSpec => []ManifestHandleChecked
<1>1. HandlesIInv => ManifestHandleChecked
  BY DEF HandlesIInv, HandlesSound, Sound, ManifestSound, ManifestHandleChecked, Live
<1>. QED
  BY <1>1, HandlesInvariant, PTL
===============================================================================
