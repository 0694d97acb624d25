---------------------------- MODULE FormatsProofs ----------------------------
(***************************************************************************)
(* The state machine of a transfer, key files, archives and what is read   *)
(* from outside, which are parts of MCFormats, for every value of their    *)
(* constants.                                                              *)
(***************************************************************************)
EXTENDS SessionState, Keys, Archive, Wire, ManifestFormatProofs, SequenceTheorems

-----------------------------------------------------------------------------
(***************************************************************************)
(* The state machine of a transfer, for any reasons of failure and any     *)
(* number of recorded frames.                                              *)
(***************************************************************************)

\* The counters count.
Counts == frames_sent \in Nat /\ frames_received \in Nat

\* A machine that has not failed has no reason, and not only no given one: the
\* next failure is then told from none.
ReasonKept ==
    /\ state \in States
    /\ state = "Error" => last_error \in Reasons
    /\ state # "Error" => last_error = NoReason

\* The inductive invariant.
SessionIInv == Counts /\ ReasonKept

LEMMA SessionInitIInv == SessionInit => SessionIInv
  BY DEF SessionInit, SessionIInv, Counts, ReasonKept, States

\* A transition between two states in which the transfer has not failed.
LEMMA MoveKeepsIInv ==
    ASSUME SessionIInv, NEW to \in States, state # "Error", to # "Error", Move(to)
    PROVE  SessionIInv'
  BY DEF Move, counters, SessionIInv, Counts, ReasonKept

LEMMA SessionNextIInv == SessionIInv /\ [SessionNext]_sessionVars => SessionIInv'
<1>. SUFFICES ASSUME SessionIInv, [SessionNext]_sessionVars PROVE SessionIInv'
  OBVIOUS
<1>1. CASE start_sending
  BY <1>1, MoveKeepsIInv DEF start_sending, States
<1>2. CASE start_receiving
  BY <1>2, MoveKeepsIInv DEF start_receiving, States
<1>3. CASE enter_recovery
  BY <1>3, MoveKeepsIInv DEF enter_recovery, States
<1>4. CASE complete
  BY <1>4, MoveKeepsIInv DEF complete, States
<1>5. CASE pause
  BY <1>5, MoveKeepsIInv DEF pause, States
<1>6. CASE \E reason \in Reasons : error(reason)
  BY <1>6 DEF error, counters, SessionIInv, Counts, ReasonKept, States
<1>7. CASE record_frame_sent
  BY <1>7 DEF record_frame_sent, SessionIInv, Counts, ReasonKept
<1>8. CASE record_frame_received
  BY <1>8 DEF record_frame_received, SessionIInv, Counts, ReasonKept
<1>9. CASE UNCHANGED sessionVars
  BY <1>9 DEF sessionVars, SessionIInv, Counts, ReasonKept
<1>. QED
  BY <1>1, <1>2, <1>3, <1>4, <1>5, <1>6, <1>7, <1>8, <1>9 DEF SessionNext

\* A machine has a reason exactly when it has failed (error, last_error).
THEOREM ReasonExact == SessionSpec => []ReasonIffError
<1>1. SessionIInv => ReasonIffError
  BY SessionStateAssumption DEF SessionIInv, ReasonKept, ReasonIffError
<1>. QED
  BY SessionInitIInv, SessionNextIInv, <1>1, PTL DEF SessionSpec

-----------------------------------------------------------------------------
(***************************************************************************)
(* Key files.  However runs of keygen overlap and are cut, the second chunk*)
(* of a file, the checksum, is one that a run wrote for what it had drawn. *)
(***************************************************************************)

\* A file: a mode, and at most two chunks.
Chunked(d) == Len(d) \in 0 .. 2 /\ d = [i \in 1 .. Len(d) |-> d[i]]
TwoChunks(f) == DOMAIN f = {"open", "data"} /\ Chunked(f.data)

\* A checksum is of a key that was drawn.
KeyFile(f, keys) == TwoChunks(f) /\ (Len(f.data) = 2 => f.data[2].material \in keys)

FilesSummed ==
    /\ DOMAIN file = KeyPaths
    /\ \A path \in KeyPaths : file[path] # None => KeyFile(file[path], drawn)

\* A run that writes has drawn its key, and the file it writes to is there.
RunDrawn(run, files, keys) ==
    /\ DOMAIN run = {"pc", "kind", "force", "out", "paths", "key"}
    /\ run.pc # "idle" => run.out \in Outs
    /\ run.pc \in {"open", "write", "rest", "chmod", "openpub", "writepub"} => run.key \in keys
    /\ run.pc \in {"write", "rest", "chmod"} => KeyFile(files[run.out], keys)
    /\ run.pc = "writepub" => KeyFile(files[publicPathFor(run.out)], keys)

RunsDrawn == DOMAIN proc = Procs /\ \A p \in Procs : RunDrawn(proc[p], file, drawn)

\* The inductive invariant.
KeysIInv == FilesSummed /\ RunsDrawn /\ load \in KeyPaths \cup {None} /\ LoadedWasDrawn

\* What a chunk is written to stays a key file, and keeps its other chunk.
LEMMA PutChunk ==
    ASSUME NEW d, Chunked(d), NEW i \in 1 .. 2, NEW c
    PROVE  /\ Len(Put(d, i, c)) = IF Len(d) > i THEN Len(d) ELSE i
           /\ Chunked(Put(d, i, c))
           /\ Put(d, i, c)[i] = c
           /\ \A j \in 1 .. Len(d) : j # i => Put(d, i, c)[j] = d[j]
<1>. DEFINE n == IF Len(d) > i THEN Len(d) ELSE i
            e == Put(d, i, c)
<1>1. n \in 0 .. 2 /\ n \in Nat /\ i \in 1 .. n /\ \A j \in 1 .. Len(d) : j \in 1 .. n
  BY DEF Chunked
<1>2. e = [j \in 1 .. n |-> IF j = i THEN c ELSE IF j <= Len(d) THEN d[j] ELSE Hole]
  BY DEF Put
<1>3. e = [j \in 1 .. n |-> e[j]] /\ e[i] = c /\ \A j \in 1 .. Len(d) : j # i => e[j] = d[j]
  BY <1>1, <1>2
<1>4. Len(e) = n
  <2>. HIDE DEF e, n
  <2>. QED
    BY <1>1, <1>3, SequenceOfRange
<1>5. Chunked(e)
  <2>. HIDE DEF e, n
  <2>. QED
    BY <1>1, <1>3, <1>4 DEF Chunked
<1>. QED
  BY <1>3, <1>4, <1>5

\* The chunks of a secret.
LEMMA ChunksOf ==
    ASSUME NEW kind, NEW material
    PROVE  /\ encode_key_file(kind, material)[2] = Header(kind, material)
           /\ encode_key_file(kind, material)[1] = Header(kind, material)
           /\ Header(kind, material).material = material
           /\ Len(encode_key_file(kind, material)) = 2
           /\ encode_key_file(kind, material)
                = [j \in 1 .. 2 |-> encode_key_file(kind, material)[j]]
  BY DEF encode_key_file, Header

LEMMA KeysInitIInv == KeysInit => KeysIInv
<1>. SUFFICES ASSUME KeysInit PROVE KeysIInv
  OBVIOUS
<1>. DEFINE old == encode_key_file("operator", "old")
<1>1. Len(old) = 2 /\ old = [j \in 1 .. 2 |-> old[j]] /\ old[2].material = "old"
  BY ChunksOf
<1>. HIDE DEF old
<1>2. /\ file \in [KeyPaths -> {None} \cup {[open |-> o, data |-> old] : o \in BOOLEAN}]
      /\ proc = [p \in Procs |-> Resting] /\ drawn = {"old"} /\ load = None /\ loaded = {}
  BY DEF KeysInit, old
<1>3. FilesSummed
  <2>1. ASSUME NEW path \in KeyPaths, file[path] # None
        PROVE  KeyFile(file[path], drawn)
    <3>1. PICK o \in BOOLEAN : file[path] = [open |-> o, data |-> old]
      BY <1>2, <2>1
    <3>. QED
      BY <1>1, <1>2, <3>1 DEF KeyFile, TwoChunks, Chunked
  <2>. QED
    BY <1>2, <2>1 DEF FilesSummed
<1>4. RunsDrawn
  BY <1>2 DEF RunsDrawn, RunDrawn, Resting
<1>. QED
  BY <1>2, <1>3, <1>4 DEF KeysIInv, LoadedWasDrawn

\* A run that moves on without touching a file.
LEMMA RunKeeps ==
    ASSUME KeysIInv, NEW p \in Procs, NEW run, SetProc(p, run), UNCHANGED <<file, load, loaded>>,
           drawn \subseteq drawn', RunDrawn(run, file, drawn')
    PROVE  KeysIInv'
<1>1. proc' = [proc EXCEPT ![p] = run] /\ file' = file /\ load' = load /\ loaded' = loaded
  BY DEF SetProc
<1>0. \A f : KeyFile(f, drawn) => KeyFile(f, drawn')
  BY DEF KeyFile
<1>2. FilesSummed'
  BY <1>0, <1>1 DEF KeysIInv, FilesSummed
<1>3. \A q \in Procs : RunDrawn(proc[q], file, drawn')
  BY <1>0 DEF KeysIInv, RunsDrawn, RunDrawn
<1>4. RunsDrawn'
  BY <1>1, <1>3 DEF KeysIInv, RunsDrawn
<1>. QED
  BY <1>1, <1>2, <1>4 DEF KeysIInv, LoadedWasDrawn

\* A run that writes a file and moves on.
LEMMA WriteKeeps ==
    ASSUME KeysIInv, NEW path \in KeyPaths, NEW f, Write(path, f), KeyFile(f, drawn),
           NEW p \in Procs, NEW run, SetProc(p, run), RunDrawn(run, file', drawn)
    PROVE  KeysIInv'
<1>1. /\ proc' = [proc EXCEPT ![p] = run] /\ file' = [file EXCEPT ![path] = f]
      /\ drawn' = drawn /\ load' = load /\ loaded' = loaded
  BY DEF SetProc, Write
<1>2. /\ DOMAIN file = KeyPaths /\ DOMAIN file' = KeyPaths /\ file'[path] = f
      /\ \A x \in KeyPaths : x # path => file'[x] = file[x]
  BY <1>1 DEF KeysIInv, FilesSummed
<1>3. FilesSummed'
  BY <1>1, <1>2 DEF KeysIInv, FilesSummed
<1>4. \A x \in KeyPaths : KeyFile(file[x], drawn) => KeyFile(file'[x], drawn)
  BY <1>2
<1>5. \A x \in Outs : x \in KeyPaths /\ publicPathFor(x) \in KeyPaths
  BY DEF KeyPaths
<1>6. \A q \in Procs : RunDrawn(proc[q], file', drawn)
  BY <1>4, <1>5 DEF KeysIInv, RunsDrawn, RunDrawn
<1>7. RunsDrawn'
  BY <1>1, <1>6 DEF KeysIInv, RunsDrawn
<1>. QED
  BY <1>1, <1>3, <1>7 DEF KeysIInv, LoadedWasDrawn

\* The files of a run that has begun.
LEMMA RunPaths ==
    ASSUME NEW run, NEW files, NEW keys, RunDrawn(run, files, keys), run.pc # "idle"
    PROVE  run.out \in Outs /\ run.out \in KeyPaths /\ publicPathFor(run.out) \in KeyPaths
<1>1. run.out \in Outs
  BY DEF RunDrawn
<1>. QED
  BY <1>1 DEF KeyPaths

\* A run that ends is as one that was not begun.
LEMMA RestKeeps ==
    ASSUME KeysIInv, NEW p \in Procs, SetProc(p, Resting), UNCHANGED <<file, load, loaded>>,
           drawn' = drawn
    PROVE  KeysIInv'
<1>1. RunDrawn(Resting, file, drawn')
  BY DEF RunDrawn, Resting
<1>. QED
  BY <1>1, RunKeeps

\* What a run does before it opens its file.
LEMMA PrepareKeeps ==
    ASSUME KeysIInv, NEW p \in Procs,
           \/ \E kind \in {"operator", "identity"}, out \in Outs, force \in Forced :
                Start(p, kind, out, force)
           \/ refuseToClobber(p) \/ generate(p) \/ Exit(p) \/ Stop(p)
    PROVE  KeysIInv'
<1>0. RunDrawn(proc[p], file, drawn)
  BY DEF KeysIInv, RunsDrawn
<1>1. ASSUME NEW kind \in {"operator", "identity"}, NEW out \in Outs, NEW force \in Forced,
             Start(p, kind, out, force)
      PROVE  KeysIInv'
  <2>. DEFINE paths == IF kind = "operator" THEN <<out>> ELSE <<out, publicPathFor(out)>>
              run == [pc |-> "clobber", kind |-> kind, force |-> force, out |-> out, key |-> None,
                      paths |-> paths]
  <2>1. SetProc(p, run) /\ UNCHANGED <<file, drawn, load, loaded>>
    BY <1>1 DEF Start
  <2>. HIDE DEF paths
  <2>2. RunDrawn(run, file, drawn')
    BY DEF RunDrawn
  <2>. QED
    BY <2>1, <2>2, RunKeeps
<1>2. CASE refuseToClobber(p)
  <2>. DEFINE run == proc[p]
              a == [run EXCEPT !.pc = "generate", !.paths = <<>>]
              b == [run EXCEPT !.paths = Tail(run.paths)]
  <2>1. /\ run.pc = "clobber" /\ UNCHANGED <<file, drawn, load, loaded>>
        /\ SetProc(p, Resting) \/ SetProc(p, a) \/ SetProc(p, b)
    BY <1>2 DEF refuseToClobber
  <2>2. RunDrawn(a, file, drawn')
    BY <1>0, <2>1 DEF RunDrawn
  <2>3. RunDrawn(b, file, drawn')
    BY <1>0, <2>1 DEF RunDrawn
  <2>. QED
    BY <2>1, <2>2, <2>3, RunKeeps, RestKeeps
<1>3. CASE generate(p)
  <2>1. ASSUME NEW m \in Materials \ drawn, proc[p].pc = "generate", drawn' = drawn \cup {m},
               SetProc(p, [proc[p] EXCEPT !.pc = "open", !.key = m]),
               UNCHANGED <<file, load, loaded>>
        PROVE  KeysIInv'
    <3>1. RunDrawn([proc[p] EXCEPT !.pc = "open", !.key = m], file, drawn')
      BY <1>0, <2>1 DEF RunDrawn
    <3>. QED
      BY <2>1, <3>1, RunKeeps
  <2>. QED
    BY <1>3, <2>1, RestKeeps DEF generate
<1>4. CASE Exit(p)
  BY <1>4, RestKeeps DEF Exit
<1>5. CASE Stop(p)
  BY <1>5, RestKeeps DEF Stop
<1>. QED
  BY <1>1, <1>2, <1>3, <1>4, <1>5

\* A run that goes on to pc, over a file that is there.
LEMMA RunGoesOn ==
    ASSUME NEW run, NEW files, NEW keys, NEW new, RunDrawn(run, files, keys), run.key \in keys,
           run.pc # "idle",
           NEW pc \in {"write", "rest", "chmod", "openpub", "writepub", "done"},
           pc \in {"write", "rest", "chmod"} => KeyFile(new[run.out], keys),
           pc = "writepub" => KeyFile(new[publicPathFor(run.out)], keys)
    PROVE  RunDrawn([run EXCEPT !.pc = pc], new, keys)
  BY DEF RunDrawn

\* Opening a file truncates it.
LEMMA OpenSecretKeeps ==
    ASSUME KeysIInv, NEW p \in Procs, OpenSecret(p)
    PROVE  KeysIInv'
<1>. DEFINE out == proc[p].out
            f == [open |-> IF file[out] = None THEN FALSE ELSE file[out].open, data |-> <<>>]
<1>1. /\ RunDrawn(proc[p], file, drawn) /\ DOMAIN file = KeyPaths
  BY DEF KeysIInv, RunsDrawn, FilesSummed
<1>2. /\ proc[p].pc = "open" /\ Write(out, f) /\ SetProc(p, [proc[p] EXCEPT !.pc = "write"])
  BY DEF OpenSecret
<1>3. proc[p].key \in drawn /\ out \in KeyPaths
  BY <1>1, <1>2, RunPaths DEF RunDrawn
<1>4. KeyFile(f, drawn)
  BY DEF KeyFile, TwoChunks, Chunked
<1>. HIDE DEF f, out
<1>5. file'[out] = f
  BY <1>1, <1>2, <1>3 DEF Write
<1>6. RunDrawn([proc[p] EXCEPT !.pc = "write"], file', drawn)
  BY <1>1, <1>2, <1>3, <1>4, <1>5, RunGoesOn DEF out
<1>. QED
  BY <1>2, <1>3, <1>4, <1>6, WriteKeeps

\* A chunk is written where one of the secret's goes.
LEMMA ChunkPut ==
    ASSUME NEW f, TwoChunks(f), NEW i \in 1 .. 2, NEW c
    PROVE  /\ TwoChunks([f EXCEPT !.data = Put(f.data, i, c)])
           /\ [f EXCEPT !.data = Put(f.data, i, c)].data = Put(f.data, i, c)
           /\ Len(Put(f.data, i, c)) = 2 =>
                 \/ i = 2 /\ Put(f.data, i, c)[2] = c
                 \/ i = 1 /\ Len(f.data) = 2 /\ Put(f.data, i, c)[2] = f.data[2]
<1>. DEFINE b == f.data
            d == Put(b, i, c)
            g == [f EXCEPT !.data = d]
<1>0. DOMAIN f = {"open", "data"} /\ Chunked(b)
  BY DEF TwoChunks
<1>. HIDE DEF b
<1>1. /\ Len(d) = (IF Len(b) > i THEN Len(b) ELSE i) /\ Chunked(d) /\ Len(b) \in 0 .. 2
      /\ d[i] = c /\ \A j \in 1 .. Len(b) : j # i => d[j] = b[j]
  <2>1. Len(b) \in 0 .. 2
    BY <1>0 DEF Chunked
  <2>2. Len(d) = IF Len(b) > i THEN Len(b) ELSE i
    BY <1>0, PutChunk
  <2>3. Chunked(d)
    BY <1>0, PutChunk
  <2>4. d[i] = c
    BY <1>0, PutChunk
  <2>5. \A j \in 1 .. Len(b) : j # i => d[j] = b[j]
    BY <1>0, PutChunk
  <2>. QED
    BY <2>1, <2>2, <2>3, <2>4, <2>5
<1>. HIDE DEF d
<1>2. DOMAIN g = {"open", "data"} /\ g.data = d
  BY <1>0
<1>. HIDE DEF g
<1>3. TwoChunks(g) /\ g.data = d
  BY <1>0, <1>1, <1>2 DEF TwoChunks
<1>4. Len(d) = 2 => \/ i = 2 /\ d[2] = c
                    \/ i = 1 /\ Len(b) = 2 /\ d[2] = b[2]
  <2>1. CASE i = 1
    <3>1. Len(d) = 2 => Len(b) = 2 /\ 2 \in 1 .. Len(b) /\ 2 # i
      BY <1>0, <1>1, <2>1
    <3>. QED
      BY <1>1, <2>1, <3>1
  <2>2. CASE i = 2
    BY <1>1, <2>2
  <2>. QED
    BY <2>1, <2>2
<1>. QED
  BY <1>3, <1>4 DEF d, b, g

\* A chunk of a key that was drawn, or the first, is written to a key file.
LEMMA KeyPut ==
    ASSUME NEW f, NEW keys, KeyFile(f, keys), NEW i \in 1 .. 2, NEW c,
           i = 2 => c.material \in keys
    PROVE  KeyFile([f EXCEPT !.data = Put(f.data, i, c)], keys)
  BY ChunkPut DEF KeyFile

\* A secret is written, at once or in two parts, over whatever is there.
LEMMA WriteAllKeeps ==
    ASSUME KeysIInv, NEW p \in Procs, write_all(p)
    PROVE  KeysIInv'
<1>. DEFINE out == proc[p].out
            chunks == encode_key_file(proc[p].kind, proc[p].key)
            f == file[out]
            one == [f EXCEPT !.data = Put(f.data, 1, chunks[1])]
            two == [f EXCEPT !.data = Put(f.data, 2, chunks[2])]
            both == [f EXCEPT !.data = Put(Put(f.data, 1, chunks[1]), 2, chunks[2])]
            Next(g, pc) == Write(out, g) /\ SetProc(p, [proc[p] EXCEPT !.pc = pc])
<1>1. /\ RunDrawn(proc[p], file, drawn) /\ DOMAIN file = KeyPaths
  BY DEF KeysIInv, RunsDrawn, FilesSummed
<1>2. \/ proc[p].pc = "write" /\ Next(both, "chmod")
      \/ proc[p].pc = "write" /\ Next(one, "rest")
      \/ proc[p].pc = "rest" /\ Next(two, "chmod")
  BY DEF write_all
<1>3. proc[p].key \in drawn /\ out \in KeyPaths /\ KeyFile(f, drawn) /\ proc[p].pc # "idle"
  BY <1>1, <1>2, RunPaths DEF RunDrawn
<1>4. chunks[2].material \in drawn
  BY <1>3, ChunksOf
<1>. HIDE DEF out, chunks, f
<1>5. KeyFile(one, drawn) /\ KeyFile(two, drawn)
  BY <1>3, <1>4, KeyPut
<1>6. KeyFile(both, drawn)
  <2>1. one.data = Put(f.data, 1, chunks[1]) /\ DOMAIN f = {"open", "data"}
    BY <1>3, ChunkPut DEF KeyFile, TwoChunks, Chunked
  <2>2. [one EXCEPT !.data = Put(one.data, 2, chunks[2])] = both
    BY <2>1
  <2>. HIDE DEF one
  <2>. QED
    BY <1>4, <1>5, <2>2, KeyPut
<1>. HIDE DEF one, two, both
<1>7. ASSUME NEW g, KeyFile(g, drawn), NEW pc \in {"rest", "chmod"}, Next(g, pc)
      PROVE  KeysIInv'
  <2>1. file'[out] = g
    BY <1>1, <1>3, <1>7 DEF Write
  <2>2. RunDrawn([proc[p] EXCEPT !.pc = pc], file', drawn)
    BY <1>1, <1>3, <1>7, <2>1, RunGoesOn DEF out
  <2>. QED
    BY <1>3, <1>7, <2>2, WriteKeeps
<1>. QED
  BY <1>2, <1>5, <1>6, <1>7

\* The mode is set, and an identity goes on to its public half.
LEMMA ModeKeeps ==
    ASSUME KeysIInv, NEW p \in Procs, set_permissions(p)
    PROVE  KeysIInv'
<1>. DEFINE out == proc[p].out
            f == [file[out] EXCEPT !.open = FALSE]
            pc == IF proc[p].kind = "operator" THEN "done" ELSE "openpub"
<1>1. /\ RunDrawn(proc[p], file, drawn) /\ DOMAIN file = KeyPaths
  BY DEF KeysIInv, RunsDrawn, FilesSummed
<1>2. proc[p].pc = "chmod" /\ Write(out, f) /\ SetProc(p, [proc[p] EXCEPT !.pc = pc])
  BY DEF set_permissions
<1>3. proc[p].key \in drawn /\ out \in KeyPaths /\ KeyFile(file[out], drawn)
  BY <1>1, <1>2, RunPaths DEF RunDrawn
<1>4. KeyFile(f, drawn)
  <2>2. f.data = file[out].data /\ DOMAIN f = {"open", "data"}
    BY <1>3 DEF KeyFile, TwoChunks, Chunked
  <2>. HIDE DEF f, out
  <2>. QED
    BY <1>3, <2>2 DEF KeyFile, TwoChunks, Chunked
<1>5. pc \in {"openpub", "done"}
  OBVIOUS
<1>. HIDE DEF f, pc
<1>6. RunDrawn([proc[p] EXCEPT !.pc = pc], file', drawn)
  BY <1>1, <1>2, <1>3, <1>5, RunGoesOn
<1>. QED
  BY <1>2, <1>3, <1>4, <1>6, WriteKeeps

\* The public half has one chunk, over whatever a path of another key holds.
LEMMA PublicKeeps ==
    ASSUME KeysIInv, NEW p \in Procs, save_public(p)
    PROVE  KeysIInv'
<1>. DEFINE pub == publicPathFor(proc[p].out)
            new == [open |-> IF file[pub] = None THEN TRUE ELSE file[pub].open, data |-> <<>>]
            filled == [file[pub] EXCEPT !.data = Put(file[pub].data, 1, public(proc[p].key))]
<1>1. /\ RunDrawn(proc[p], file, drawn) /\ DOMAIN file = KeyPaths
  BY DEF KeysIInv, RunsDrawn, FilesSummed
<1>2. \/ /\ proc[p].pc = "openpub" /\ Write(pub, new)
         /\ SetProc(p, [proc[p] EXCEPT !.pc = "writepub"])
      \/ /\ proc[p].pc = "writepub" /\ Write(pub, filled)
         /\ SetProc(p, [proc[p] EXCEPT !.pc = "done"])
  BY DEF save_public
<1>3. /\ proc[p].key \in drawn /\ pub \in KeyPaths /\ proc[p].pc # "idle"
      /\ proc[p].pc = "writepub" => KeyFile(file[pub], drawn)
  BY <1>1, <1>2, RunPaths DEF RunDrawn
<1>4. KeyFile(new, drawn)
  BY DEF KeyFile, TwoChunks, Chunked
<1>5. proc[p].pc = "writepub" => KeyFile(filled, drawn)
  BY <1>3, KeyPut
<1>. HIDE DEF new, filled, pub
<1>6. CASE proc[p].pc = "openpub"
  <2>1. file'[pub] = new
    BY <1>1, <1>2, <1>3, <1>6 DEF Write
  <2>2. RunDrawn([proc[p] EXCEPT !.pc = "writepub"], file', drawn)
    BY <1>1, <1>3, <1>4, <2>1, RunGoesOn DEF pub
  <2>. QED
    BY <1>2, <1>3, <1>4, <1>6, <2>2, WriteKeeps
<1>7. CASE proc[p].pc = "writepub"
  <2>1. RunDrawn([proc[p] EXCEPT !.pc = "done"], file', drawn)
    BY <1>1, <1>3, RunGoesOn
  <2>. QED
    BY <1>2, <1>3, <1>5, <1>7, <2>1, WriteKeeps
<1>. QED
  BY <1>2, <1>6, <1>7

\* A check by path, and the rot of a chunk that is not the checksum.
LEMMA PathKeeps ==
    ASSUME KeysIInv, NEW path \in KeyPaths, check_permissions(path) \/ Rot(path)
    PROVE  KeysIInv'
<1>1. CASE check_permissions(path)
  BY <1>1 DEF check_permissions, KeysIInv, FilesSummed, RunsDrawn, LoadedWasDrawn
<1>2. CASE Rot(path)
  <2>1. PICK chunk : file' = [file EXCEPT ![path].data[1] = chunk]
    BY <1>2 DEF Rot
  <2>2. UNCHANGED <<proc, drawn, load, loaded>>
    BY <1>2 DEF Rot
  <2>. DEFINE f == file[path]
              g == [f EXCEPT !.data[1] = chunk]
  <2>3. /\ DOMAIN file = KeyPaths /\ file'[path] = g /\ DOMAIN file' = KeyPaths
        /\ \A x \in KeyPaths : x # path => file'[x] = file[x]
    BY <2>1 DEF KeysIInv, FilesSummed
  <2>4. KeyFile(f, drawn) => KeyFile(g, drawn)
    <3>. SUFFICES ASSUME KeyFile(f, drawn) PROVE KeyFile(g, drawn)
      OBVIOUS
    <3>. DEFINE d == f.data
                e == [d EXCEPT ![1] = chunk]
    <3>1. DOMAIN f = {"open", "data"} /\ Len(d) \in 0 .. 2 /\ d = [i \in 1 .. Len(d) |-> d[i]]
      BY DEF KeyFile, TwoChunks, Chunked
    <3>2. DOMAIN g = {"open", "data"} /\ g.data = e
      BY <3>1
    <3>3. Len(d) = 2 => d[2].material \in drawn
      BY DEF KeyFile
    <3>. HIDE DEF f, g, d
    <3>4. /\ e = [i \in 1 .. Len(d) |-> e[i]] /\ Len(d) \in Nat
          /\ Len(d) = 2 => e[2] = d[2]
      <4>1. DOMAIN d = 1 .. Len(d)
        BY <3>1
      <4>2. DOMAIN e = 1 .. Len(d) /\ e = [i \in DOMAIN e |-> e[i]]
        BY <4>1
      <4>3. Len(d) = 2 => e[2] = d[2]
        BY <4>1
      <4>. QED
        BY <3>1, <4>2, <4>3
    <3>. HIDE DEF e
    <3>5. Len(e) = Len(d)
      BY <3>4, SequenceOfRange
    <3>. QED
      BY <3>1, <3>2, <3>3, <3>4, <3>5 DEF KeyFile, TwoChunks, Chunked
  <2>. HIDE DEF f, g
  <2>5. \A x \in KeyPaths : KeyFile(file[x], drawn) => KeyFile(file'[x], drawn)
    BY <2>3, <2>4 DEF f
  <2>6. file[path] # None
    BY <1>2 DEF Rot
  <2>7. FilesSummed'
    BY <2>2, <2>3, <2>5, <2>6 DEF KeysIInv, FilesSummed
  <2>8. \A x \in Outs : x \in KeyPaths /\ publicPathFor(x) \in KeyPaths
    BY DEF KeyPaths
  <2>9. \A q \in Procs : RunDrawn(proc[q], file', drawn)
    BY <2>5, <2>8 DEF KeysIInv, RunsDrawn, RunDrawn
  <2>. QED
    BY <2>2, <2>7, <2>9 DEF KeysIInv, RunsDrawn, LoadedWasDrawn
<1>. QED
  BY <1>1, <1>2

\* A file that decodes has the checksum of its first chunk.
LEMMA DecodedSummed ==
    ASSUME NEW data, decode_key_file(data) = "Ok"
    PROVE  Len(data) = 2 /\ data[2] = data[1]
<1>. DEFINE checks == <<When(data[1].magic # "DHKY", "InvalidMagic"),
                        When(data[1].version # 1, "UnsupportedVersion"),
                        When(data[1].kind \notin {"identity", "operator"}, "InvalidKey"),
                        When(data[1].reserved # 0, "InvalidKey"),
                        When(data[2] # data[1], "InvalidKey")>>
<1>1. Len(data) = 2 /\ FirstError(checks, "Ok") = "Ok"
  BY DEF decode_key_file
<1>2. DOMAIN checks = 1 .. 5
  OBVIOUS
<1>3. \A i \in 1 .. 5 : checks[i].error # "Ok"
  BY DEF When
<1>4. checks[5] = When(data[2] # data[1], "InvalidKey")
  OBVIOUS
<1>. HIDE DEF checks
<1>5. ~checks[5].cond
  <2>1. DOMAIN checks \subseteq Nat /\ 5 \in DOMAIN checks
    BY <1>2
  <2>. QED
    BY <1>1, <1>2, <1>3, <2>1, NoErrorFound
<1>6. checks[5].cond <=> data[2] # data[1]
  <2>1. (data[2] # data[1]) \in BOOLEAN
    OBVIOUS
  <2>. QED
    BY <1>4, <2>1, WhenFields, Zenon
<1>. QED
  BY <1>1, <1>5, <1>6

\* What is loaded was drawn.
LEMMA LoadKeeps ==
    ASSUME KeysIInv, NEW kind \in {"operator", "identity"}, load_secret(kind)
    PROVE  KeysIInv'
<1>1. /\ load \in KeyPaths /\ load' = None /\ UNCHANGED <<file, proc, drawn>>
      /\ loaded' = IF Intact(load) /\ SecretIn(load).kind = kind
                   THEN {[secret |-> SecretIn(load), wanted |-> kind]} ELSE {}
  BY DEF load_secret, KeysIInv
<1>2. FilesSummed' /\ RunsDrawn'
  BY <1>1 DEF KeysIInv, FilesSummed, RunsDrawn
<1>3. Intact(load) => SecretIn(load).material \in drawn
  <2>. SUFFICES ASSUME Intact(load) PROVE SecretIn(load).material \in drawn
    OBVIOUS
  <2>1. KeyFile(file[load], drawn) /\ decode_key_file(file[load].data) = "Ok"
    BY <1>1 DEF KeysIInv, FilesSummed, Intact
  <2>2. Len(file[load].data) = 2 /\ file[load].data[2] = file[load].data[1]
    BY <2>1, DecodedSummed
  <2>. QED
    BY <2>1, <2>2 DEF KeyFile, SecretIn
<1>4. LoadedWasDrawn'
  BY <1>1, <1>3 DEF LoadedWasDrawn
<1>. QED
  BY <1>1, <1>2, <1>4 DEF KeysIInv

LEMMA KeysNextIInv == KeysIInv /\ [KeysNext]_keyVars => KeysIInv'
<1>. SUFFICES ASSUME KeysIInv, [KeysNext]_keyVars PROVE KeysIInv'
  OBVIOUS
<1>1. CASE UNCHANGED keyVars
  BY <1>1 DEF keyVars, KeysIInv, FilesSummed, RunsDrawn, LoadedWasDrawn
<1>2. ASSUME NEW p \in Procs,
             \/ \E kind \in {"operator", "identity"}, out \in Outs, force \in Forced :
                  Start(p, kind, out, force)
             \/ refuseToClobber(p) \/ generate(p) \/ OpenSecret(p) \/ write_all(p)
             \/ set_permissions(p) \/ save_public(p) \/ Exit(p) \/ Stop(p)
      PROVE  KeysIInv'
  BY <1>2, PrepareKeeps, OpenSecretKeeps, WriteAllKeeps, ModeKeeps, PublicKeeps
<1>. QED
  BY <1>1, <1>2, PathKeeps, LoadKeeps DEF KeysNext

\* Whatever is in the files and however runs of keygen overlap, are cut or fail,
\* every checksum on the disk is of a key that was drawn (write_all).
THEOREM KeysInvariant == KeysSpec => []KeysIInv
  BY KeysInitIInv, KeysNextIInv, PTL DEF KeysSpec

\* A secret that is loaded was drawn and is of the kind asked for, for any number
\* of runs, files and secrets (decode_key_file, load_secret).
THEOREM LoadedDrawn == KeysSpec => []LoadedWasDrawn
<1>1. KeysIInv => LoadedWasDrawn
  BY DEF KeysIInv
<1>. QED
  BY <1>1, KeysInvariant, PTL

-----------------------------------------------------------------------------
(***************************************************************************)
(* Archives.  What was packed lies in the archive entry behind entry, and   *)
(* the receiver's offset is where an entry begins.                          *)
(***************************************************************************)

\* What archives are made of.
Bytes == UNION {Range(body) : body \in Contents}
EntryHeads == [name: Files, size: Nat, executable: BOOLEAN]
PackEntries == [name: Files \cap Nat, digest: Contents, size: Nat, executable: BOOLEAN]
AnyFile == FileState \cup {NoFile}

\* Files, entries and the archive are what they are called.
ArchiveTypes ==
    /\ tree \in [Files -> AnyFile] /\ dataset \in [Files -> AnyFile] /\ damages \in Nat
    /\ DOMAIN pack = {"pc", "listed", "at", "entries", "out"}
    /\ DOMAIN recv = {"pc", "offset", "staged", "entries"}
    /\ DOMAIN verify = {"pc", "at", "found", "problems", "quiet"}
    /\ pack.pc \in {"walk", "write", "sent", "undescribed", "failed"}
    /\ pack.at \in Nat \ {0} /\ pack.entries \in Seq(PackEntries)
    /\ pack.out \in Seq(EntryHeads \cup Bytes)
    /\ recv.staged \in [Files -> AnyFile] /\ recv.entries \in Seq(EntryHeads)
    /\ verify.pc \in {"idle", "check", "done"} /\ verify.at \in Nat \ {0}
    /\ verify.quiet \in BOOLEAN

\* No file is packed twice, and while files are looked for, none ahead of the walk.
NamesOnce ==
    /\ \A i, j \in DOMAIN pack.entries : pack.entries[i].name = pack.entries[j].name => i = j
    /\ pack.pc = "walk" => \A i \in DOMAIN pack.entries : pack.entries[i].name < pack.at

\* Before the writing there is no archive, and before the end of it no receiver.
PackOrder ==
    /\ pack.pc = "walk" => pack.out = <<>>
    /\ pack.pc = "write" => pack.at \in 1 .. Len(pack.entries) + 1
    /\ pack.pc = "sent" => pack.at = Len(pack.entries) + 1
    /\ pack.pc # "sent" => recv.pc = "idle"
    /\ recv.pc = "idle" => recv.offset = 0 /\ recv.entries = <<>> /\ recv.staged = NoFiles

\* The bytes d lie behind the first m of out.
Follows(out, m, d) == \A j \in 1 .. Len(d) : out[m + j] = d[j]

\* An entry lies in the archive from one place to the next: its head, and behind
\* it the bytes its digest was taken of.
LaidEntry(e, from, to, out) ==
    /\ to = from + 1 + e.size /\ Len(e.digest) = e.size
    /\ out[from + 1] = EntryHead(e)
    /\ Follows(out, from + 1, e.digest)

\* The entries before n begin at pos, one behind the other, and there is no more.
Laid(pos, n, entries, out) ==
    /\ pos[1] = 0 /\ pos[n] = Len(out)
    /\ \A i \in 1 .. n - 1 : LaidEntry(entries[i], pos[i], pos[i + 1], out)

\* The receiver reads where an entry begins.
OffsetLaid ==
    pack.pc \in {"write", "sent"} =>
        \E pos \in [1 .. pack.at -> 0 .. Len(pack.out)] :
            /\ Laid(pos, pack.at, pack.entries, pack.out)
            /\ recv.offset = pos[Len(recv.entries) + 1]

\* The file an entry becomes.
Delivered(i) == writeFile(EntryHead(pack.entries[i]), pack.entries[i].digest)

\* What is staged is what was packed, as far as the receiver is.
StagedIsPacked ==
    LET n == Len(recv.entries)
    IN  /\ n <= Len(pack.entries)
        /\ recv.pc \in {"published", "received"} => n = Len(pack.entries)
        /\ \A i \in 1 .. n : /\ recv.entries[i] = EntryHead(pack.entries[i])
                             /\ recv.staged[pack.entries[i].name] = Delivered(i)
        /\ \A f \in Files : (\A i \in 1 .. n : pack.entries[i].name # f) => recv.staged[f] = NoFile

\* A dataset nobody touched is what was staged.
PublishedIsStaged ==
    /\ recv.pc \in {"idle", "extract", "published", "received"}
    /\ recv.pc \in {"published", "received"} /\ damages = 0 => dataset = recv.staged
    /\ verify.pc # "idle" => recv.pc = "received"

\* The regular file a walk of the dataset finds.
Found(f) == IF Regular(dataset, f) THEN dataset[f] ELSE NoFile

\* What verify says of the entries before n.
Named(n, x) ==
    \E i \in 1 .. n - 1 :
        LET e == pack.entries[i]
        IN  \E p \in Problems(e, Found(e.name), dataset[e.name]) : x = <<e.name, p>>

\* What it says of files nobody sent.
Extra(x) == \E f \in Files \ Expected : Found(f) # NoFile /\ x = <<f, "unexpected">>

\* While nothing changes, verify has named what differs so far, and nothing else.
NamedSoFar ==
    /\ verify.pc = "idle" => verify.at = 1 /\ verify.problems = {}
    /\ verify.pc = "check" => verify.at <= Len(pack.entries) + 1
    /\ verify.pc # "idle" /\ verify.quiet => \A f \in Files : verify.found[f] = Found(f)
    /\ verify.pc = "check" /\ verify.quiet =>
           \A x : x \in verify.problems <=> Named(verify.at, x)
    /\ verify.pc = "done" /\ verify.quiet =>
           \A x : x \in verify.problems <=> Named(Len(pack.entries) + 1, x) \/ Extra(x)

\* The inductive invariant.
ArchiveIInv ==
    /\ ArchiveTypes /\ NamesOnce /\ PackOrder /\ OffsetLaid
    /\ StagedIsPacked /\ PublishedIsStaged /\ NamedSoFar

\* A file has contents, which are a sequence of bytes.
LEMMA BodyBytes ==
    ASSUME NEW body \in Contents
    PROVE  body \in Seq(Bytes) /\ body \in Seq(EntryHeads \cup Bytes) /\ Len(body) \in Nat
<1>1. body \in Seq(Range(body)) /\ Range(body) \subseteq Bytes
  BY ArchiveAssumption DEF Bytes
<1>2. body \in Seq(Bytes) /\ body \in Seq(EntryHeads \cup Bytes)
  BY <1>1
<1>. QED
  BY <1>2

\* What any file has.
LEMMA FileFields ==
    ASSUME NEW f \in AnyFile
    PROVE  f.body \in Contents /\ f.executable \in BOOLEAN
           /\ (f.kind = "regular" => f # NoFile) /\ NoFile \in AnyFile
<1>1. NoFile.body = <<>> /\ (NoFile.executable <=> FALSE) /\ NoFile.kind = "none"
  BY DEF NoFile
<1>2. NoFile.executable \in BOOLEAN
  BY DEF NoFile
<1>3. <<>> \in Contents
  BY ArchiveAssumption
<1>4. CASE f \in FileState
  BY <1>1, <1>4 DEF AnyFile, FileState
<1>5. CASE f = NoFile
  BY <1>1, <1>2, <1>3, <1>5 DEF AnyFile
<1>. QED
  BY <1>4, <1>5 DEF AnyFile

\* The part of a sequence behind m that is d.
LEMMA PartIs ==
    ASSUME NEW T, NEW s \in Seq(T), NEW d \in Seq(T), NEW m \in Nat, m + Len(d) <= Len(s),
           \A j \in 1 .. Len(d) : s[m + j] = d[j]
    PROVE  SubSeq(s, m + 1, m + Len(d)) = d
<1>. DEFINE t == SubSeq(s, m + 1, m + Len(d))
            n == Len(d)
<1>1. n \in Nat /\ d \in [1 .. n -> T]
  OBVIOUS
<1>2. t = [j \in 1 .. (m + n) - (m + 1) + 1 |-> s[j + (m + 1) - 1]]
  BY <1>1
<1>3. (m + n) - (m + 1) + 1 = n /\ \A j \in 1 .. n : j + (m + 1) - 1 = m + j
  BY <1>1
<1>4. t = [j \in 1 .. n |-> d[j]]
  BY <1>2, <1>3
<1>. QED
  BY <1>1, <1>4

LEMMA ArchiveInitIInv == ArchiveInit => ArchiveIInv
<1>. SUFFICES ASSUME ArchiveInit PROVE ArchiveIInv
  OBVIOUS
<1>1. /\ pack.pc = "walk" /\ pack.at = 1 /\ pack.entries = <<>> /\ pack.out = <<>>
      /\ DOMAIN pack = {"pc", "listed", "at", "entries", "out"}
  BY DEF ArchiveInit
<1>2. /\ recv.pc = "idle" /\ recv.offset = 0 /\ recv.entries = <<>> /\ recv.staged = NoFiles
      /\ DOMAIN recv = {"pc", "offset", "staged", "entries"}
  BY DEF ArchiveInit
<1>3. /\ verify.pc = "idle" /\ verify.at = 1 /\ verify.problems = {} /\ verify.quiet \in BOOLEAN
      /\ DOMAIN verify = {"pc", "at", "found", "problems", "quiet"}
  BY DEF ArchiveInit
<1>4. NoFiles \in [Files -> AnyFile]
  BY DEF NoFiles, AnyFile
<1>5. tree \in [Files -> AnyFile]
  BY DEF ArchiveInit, AnyFile, FileState
<1>6. ArchiveTypes
  BY <1>1, <1>2, <1>3, <1>4, <1>5 DEF ArchiveInit, ArchiveTypes
<1>7. NamesOnce /\ PackOrder
  BY <1>1, <1>2 DEF NamesOnce, PackOrder
<1>8. OffsetLaid
  BY <1>1 DEF OffsetLaid
<1>9. StagedIsPacked
  BY <1>1, <1>2 DEF StagedIsPacked, NoFiles
<1>10. PublishedIsStaged
  BY <1>2, <1>3 DEF PublishedIsStaged
<1>11. NamedSoFar
  BY <1>3 DEF NamedSoFar
<1>. QED
  BY <1>6, <1>7, <1>8, <1>9, <1>10, <1>11 DEF ArchiveIInv

\* While the sender is not done, there is nothing on the other side.
LEMMA SenderRests ==
    ASSUME ArchiveIInv, pack.pc # "sent", UNCHANGED <<dataset, recv, damages, verify>>,
           ArchiveTypes'
    PROVE  StagedIsPacked' /\ PublishedIsStaged' /\ NamedSoFar'
<1>1. recv.pc = "idle" /\ recv.entries = <<>> /\ recv.staged = NoFiles /\ verify.pc = "idle"
  BY DEF ArchiveIInv, PackOrder, PublishedIsStaged
<1>2. Len(pack.entries)' \in Nat
  BY DEF ArchiveTypes
<1>3. StagedIsPacked'
  <2>1. recv' = recv /\ Len(recv.entries') = 0
    BY <1>1
  <2>2. \A f \in Files : recv'.staged[f] = NoFile
    BY <1>1, <2>1 DEF NoFiles
  <2>. QED
    BY <1>1, <1>2, <2>1, <2>2 DEF StagedIsPacked
<1>4. PublishedIsStaged'
  BY <1>1 DEF ArchiveIInv, PublishedIsStaged
<1>5. NamedSoFar'
  BY <1>1 DEF ArchiveIInv, NamedSoFar
<1>. QED
  BY <1>3, <1>4, <1>5

\* A file changes under the sender.
LEMMA EditKeeps ==
    ASSUME ArchiveIInv, NEW f \in Files, NEW new \in FileState \cup {NoFile}, Edit(f, new)
    PROVE  ArchiveIInv'
<1>1. /\ pack.pc # "sent" /\ tree' = [tree EXCEPT ![f] = new]
      /\ UNCHANGED <<pack, dataset, recv, damages, verify>>
  BY DEF Edit
<1>2. tree' \in [Files -> AnyFile]
  BY <1>1 DEF ArchiveIInv, ArchiveTypes, AnyFile
<1>3. ArchiveTypes'
  BY <1>1, <1>2 DEF ArchiveIInv, ArchiveTypes
<1>4. NamesOnce' /\ PackOrder'
  BY <1>1 DEF ArchiveIInv, NamesOnce, PackOrder
<1>5. OffsetLaid'
  BY <1>1 DEF ArchiveIInv, OffsetLaid
<1>. QED
  BY <1>1, <1>3, <1>4, <1>5, SenderRests DEF ArchiveIInv

\* The walk: a file is passed over, ends it, or becomes an entry.
LEMMA WalkKeeps ==
    ASSUME ArchiveIInv, Walk
    PROVE  ArchiveIInv'
<1>0. ASSUME NEW info \in Info(tree[pack.at]), pack.at \in Files
      PROVE  info.size \in Nat /\ info.executable \in BOOLEAN
  <2>. DEFINE f == tree[pack.at]
  <2>1. f \in AnyFile
    BY <1>0 DEF ArchiveIInv, ArchiveTypes
  <2>2. f.executable \in BOOLEAN /\ Len(f.body) \in Nat
    BY <2>1, FileFields, BodyBytes
  <2>3. \A body \in Contents : Len(body) \in Nat
    BY BodyBytes
  <2>4. CASE info = [size |-> Len(f.body), executable |-> f.executable]
    BY <2>2, <2>4
  <2>5. CASE info \in [size: {Len(body) : body \in Contents}, executable: {TRUE}]
    BY <2>3, <2>5
  <2>. QED
    BY <1>0, <2>4, <2>5 DEF Info
<1>. DEFINE Entry(info) == [name |-> pack.at, digest |-> <<>>, size |-> info.size,
                            executable |-> info.executable]
<1>1. /\ pack.pc = "walk" /\ pack.at \in Files
      /\ UNCHANGED <<tree, dataset, recv, damages, verify>>
      /\ \/ pack' = [pack EXCEPT !.at = pack.at + 1]
         \/ pack' = PackTo("failed")
         \/ \E info \in Info(tree[pack.at]) :
                pack' = [pack EXCEPT !.at = pack.at + 1,
                                     !.entries = Append(pack.entries, Entry(info))]
  BY DEF Walk, sorted
<1>2. /\ DOMAIN pack = {"pc", "listed", "at", "entries", "out"} /\ pack.at \in Nat \ {0}
      /\ pack.entries \in Seq(PackEntries) /\ pack.out = <<>> /\ recv.pc = "idle"
  BY <1>1 DEF ArchiveIInv, ArchiveTypes, PackOrder
<1>3. PICK e \in PackEntries :
          /\ e.name = pack.at
          /\ \/ pack' = [pack EXCEPT !.at = pack.at + 1]
             \/ pack' = PackTo("failed")
             \/ pack' = [pack EXCEPT !.at = pack.at + 1, !.entries = Append(pack.entries, e)]
  <2>1. \A info \in Info(tree[pack.at]) : Entry(info) \in PackEntries /\ Entry(info).name = pack.at
    <3>. SUFFICES ASSUME NEW info \in Info(tree[pack.at])
                  PROVE  Entry(info) \in PackEntries /\ Entry(info).name = pack.at
      OBVIOUS
    <3>1. info.size \in Nat /\ info.executable \in BOOLEAN
      BY <1>0, <1>1
    <3>. QED
      BY <1>1, <1>2, <3>1, ArchiveAssumption DEF PackEntries
  <2>2. [name |-> pack.at, digest |-> <<>>, size |-> 0, executable |-> TRUE] \in PackEntries
    BY <1>1, <1>2, ArchiveAssumption DEF PackEntries
  <2>. HIDE DEF Entry
  <2>. QED
    BY <1>1, <2>1, <2>2
<1>. DEFINE es == pack.entries
            fs == Append(es, e)
<1>4. /\ fs \in Seq(PackEntries) /\ DOMAIN es = 1 .. Len(es) /\ Len(es) \in Nat
      /\ DOMAIN fs = 1 .. Len(es) + 1 /\ fs[Len(es) + 1] = e
      /\ \A i \in 1 .. Len(es) : fs[i] = es[i]
  BY <1>2, <1>3
<1>5. /\ DOMAIN pack' = DOMAIN pack /\ pack'.out = pack.out
      /\ \/ pack'.pc = "walk" /\ pack'.at = pack.at + 1 /\ pack'.entries \in {es, fs}
         \/ pack'.pc = "failed" /\ pack'.at = pack.at /\ pack'.entries = es
  <2>. HIDE DEF Entry
  <2>1. pack.pc = "walk"
    BY <1>1
  <2>. QED
    BY <1>2, <1>3, <2>1 DEF PackTo
<1>6. ArchiveTypes'
  <2>1. /\ pack'.entries \in Seq(PackEntries) /\ pack'.at \in Nat \ {0}
        /\ pack'.pc \in {"walk", "failed"}
    <3>1. es \in Seq(PackEntries) /\ fs \in Seq(PackEntries)
      BY <1>2, <1>4
    <3>. HIDE DEF es, fs
    <3>. QED
      BY <1>2, <1>5, <3>1
  <2>. HIDE DEF es, fs
  <2>. QED
    BY <1>1, <1>2, <1>5, <2>1 DEF ArchiveIInv, ArchiveTypes
<1>7. NamesOnce'
  <2>1. /\ \A i \in DOMAIN es : es[i].name < pack.at /\ es[i].name \in Nat
        /\ \A i, j \in DOMAIN es : es[i].name = es[j].name => i = j
    <3>1. \A i \in DOMAIN es : es[i] \in PackEntries
      BY <1>2
    <3>2. \A i \in DOMAIN es : es[i].name \in Nat
      BY <3>1 DEF PackEntries
    <3>. QED
      BY <1>1, <3>2 DEF ArchiveIInv, NamesOnce
  <2>2. CASE pack'.entries = es
    BY <1>2, <1>5, <2>1, <2>2 DEF NamesOnce
  <2>3. CASE pack'.entries = fs /\ pack'.at = pack.at + 1
    <3>. HIDE DEF es, fs
    <3>1. \A i \in 1 .. Len(es) : fs[i].name < pack.at /\ fs[i].name \in Nat
      BY <1>4, <2>1
    <3>2. \A i \in DOMAIN fs : fs[i].name < pack.at + 1
      BY <1>2, <1>3, <1>4, <3>1
    <3>3. \A i, j \in DOMAIN fs : fs[i].name = fs[j].name => i = j
      BY <1>2, <1>3, <1>4, <2>1, <3>1
    <3>. QED
      BY <2>3, <3>2, <3>3 DEF NamesOnce
  <2>. QED
    BY <1>5, <2>2, <2>3
<1>8. PackOrder' /\ OffsetLaid'
  BY <1>1, <1>2, <1>5 DEF ArchiveIInv, PackOrder, OffsetLaid
<1>. QED
  BY <1>1, <1>6, <1>7, <1>8, SenderRests DEF ArchiveIInv

\* The end of the walk: the archive is empty yet.
LEMMA CollectedKeeps ==
    ASSUME ArchiveIInv, Collected
    PROVE  ArchiveIInv'
<1>1. /\ pack.pc = "walk" /\ UNCHANGED <<tree, dataset, recv, damages, verify>>
      /\ pack' = PackTo("failed") \/ pack' = [PackTo("write") EXCEPT !.at = 1]
  BY DEF Collected
<1>2. /\ DOMAIN pack = {"pc", "listed", "at", "entries", "out"} /\ pack.out = <<>> /\ recv.pc = "idle"
      /\ recv.offset = 0 /\ recv.entries = <<>> /\ pack.entries \in Seq(PackEntries)
  BY <1>1 DEF ArchiveIInv, ArchiveTypes, PackOrder
<1>3. /\ DOMAIN pack' = DOMAIN pack /\ pack'.out = pack.out /\ pack'.entries = pack.entries
      /\ \/ pack'.pc = "failed" /\ pack'.at = pack.at
         \/ pack'.pc = "write" /\ pack'.at = 1
  BY <1>1, <1>2 DEF PackTo
<1>4. ArchiveTypes'
  BY <1>1, <1>3 DEF ArchiveIInv, ArchiveTypes
<1>5. NamesOnce' /\ PackOrder'
  BY <1>1, <1>2, <1>3 DEF ArchiveIInv, NamesOnce, PackOrder
<1>6. OffsetLaid'
  <2>. SUFFICES ASSUME pack'.pc = "write" PROVE OffsetLaid'
    BY <1>3 DEF OffsetLaid
  <2>. DEFINE pos == [i \in 1 .. 1 |-> 0]
  <2>1. pack'.at = 1 /\ Len(pack'.out) = 0 /\ Len(recv'.entries) = 0 /\ recv'.offset = 0
    BY <1>1, <1>2, <1>3
  <2>2. pos \in [1 .. 1 -> 0 .. 0] /\ pos[1] = 0
    OBVIOUS
  <2>. HIDE DEF pos
  <2>3. Laid(pos, pack'.at, pack'.entries, pack'.out)
    BY <2>1, <2>2 DEF Laid
  <2>. QED
    BY <2>1, <2>2, <2>3 DEF OffsetLaid
<1>. QED
  BY <1>1, <1>4, <1>5, <1>6, SenderRests DEF ArchiveIInv

\* The inventory is taken or turned down.
LEMMA PackedKeeps ==
    ASSUME ArchiveIInv, Packed
    PROVE  ArchiveIInv'
<1>1. /\ pack.pc = "write" /\ pack.at \notin DOMAIN pack.entries
      /\ UNCHANGED <<tree, dataset, recv, damages, verify>>
      /\ pack' = PackTo("sent") \/ pack' = PackTo("undescribed")
  BY DEF Packed
<1>2. /\ DOMAIN pack = {"pc", "listed", "at", "entries", "out"} /\ recv.pc = "idle"
      /\ pack.entries \in Seq(PackEntries) /\ pack.at \in 1 .. Len(pack.entries) + 1
  BY <1>1 DEF ArchiveIInv, ArchiveTypes, PackOrder
<1>3. /\ DOMAIN pack' = DOMAIN pack /\ pack'.out = pack.out /\ pack'.entries = pack.entries
      /\ pack'.at = pack.at /\ pack'.pc \in {"sent", "undescribed"}
  BY <1>1, <1>2 DEF PackTo
<1>4. pack.at = Len(pack.entries) + 1
  BY <1>1, <1>2
<1>5. ArchiveTypes'
  BY <1>1, <1>3 DEF ArchiveIInv, ArchiveTypes
<1>6. NamesOnce' /\ PackOrder'
  BY <1>1, <1>2, <1>3, <1>4 DEF ArchiveIInv, NamesOnce, PackOrder
<1>7. OffsetLaid'
  <2>1. PICK pos \in [1 .. pack.at -> 0 .. Len(pack.out)] :
            /\ Laid(pos, pack.at, pack.entries, pack.out)
            /\ recv.offset = pos[Len(recv.entries) + 1]
    BY <1>1 DEF ArchiveIInv, OffsetLaid
  <2>2. Laid(pos, pack'.at, pack'.entries, pack'.out)
    BY <1>3, <2>1
  <2>. QED
    BY <1>1, <1>3, <2>1, <2>2 DEF OffsetLaid
<1>. QED
  BY <1>1, <1>5, <1>6, <1>7, SenderRests DEF ArchiveIInv

\* An archive with more behind it.
Behind(s, t) == s \o t

\* What lies where in two sequences joined.
LEMMA Joined ==
    ASSUME NEW T, NEW s \in Seq(T), NEW t \in Seq(T)
    PROVE  /\ Behind(s, t) \in Seq(T) /\ Len(Behind(s, t)) = Len(s) + Len(t)
           /\ Len(s) \in Nat /\ Len(t) \in Nat
           /\ \A j \in 1 .. Len(s) : Behind(s, t)[j] = s[j]
           /\ Follows(Behind(s, t), Len(s), t)
<1>1. /\ s \o t \in Seq(T) /\ Len(s \o t) = Len(s) + Len(t) /\ Len(s) \in Nat /\ Len(t) \in Nat
  OBVIOUS
<1>2. \A j \in 1 .. Len(s) : (s \o t)[j] = s[j]
  OBVIOUS
<1>3. ASSUME NEW j \in 1 .. Len(t) PROVE (s \o t)[Len(s) + j] = t[j]
  <2>1. Len(s) + j \in 1 .. Len(s) + Len(t) /\ ~(Len(s) + j <= Len(s)) /\ Len(s) + j - Len(s) = j
    BY <1>1
  <2>. QED
    BY <1>1, <2>1, ConcatProperties
<1>. QED
  BY <1>1, <1>2, <1>3 DEF Behind, Follows

\* An entry lies where it lay when the archive grows.
LEMMA LaidLonger ==
    ASSUME NEW T, NEW out \in Seq(T), NEW more \in Seq(T), NEW e, e.size \in Nat,
           NEW from \in Nat, NEW to \in Nat, to <= Len(out), LaidEntry(e, from, to, out)
    PROVE  LaidEntry(e, from, to, Behind(out, more))
<1>. DEFINE all == Behind(out, more)
            size == e.size
<1>1. to = from + 1 + size /\ size \in Nat
  BY DEF LaidEntry
<1>2. Len(out) \in Nat /\ \A j \in 1 .. Len(out) : all[j] = out[j]
  BY Joined
<1>. HIDE DEF all, size
<1>3. from + 1 \in 1 .. Len(out) /\ \A j \in 1 .. size : from + 1 + j \in 1 .. Len(out)
  BY <1>1, <1>2
<1>4. all[from + 1] = out[from + 1] /\ \A j \in 1 .. size : all[from + 1 + j] = out[from + 1 + j]
  BY <1>2, <1>3
<1>5. Follows(all, from + 1, e.digest)
  <2>1. Follows(out, from + 1, e.digest) /\ Len(e.digest) = size
    BY DEF LaidEntry, size
  <2>. QED
    BY <1>4, <2>1 DEF Follows
<1>. QED
  BY <1>4, <1>5 DEF LaidEntry, all, size

\* A head and the bytes it announces.
EntryBytesOf(h, d) == <<h>> \o d

\* A head and bytes behind the first m of out.
HeadAt(out, m, h, d) == out[m + 1] = h /\ Follows(out, m + 1, d)

\* A head and bytes behind what is there.
LEMMA HeadBehind ==
    ASSUME NEW T, NEW out \in Seq(T), NEW h \in T, NEW d \in Seq(T),
           NEW all, all = Behind(out, EntryBytesOf(h, d))
    PROVE  /\ EntryBytesOf(h, d) \in Seq(T)
           /\ Len(all) = Len(out) + 1 + Len(d) /\ Len(out) \in Nat
           /\ HeadAt(all, Len(out), h, d)
<1>. DEFINE bytes == EntryBytesOf(h, d)
            m == Len(out)
<1>1. Len(d) \in Nat
  OBVIOUS
<1>2. /\ bytes \in Seq(T) /\ Len(bytes) = 1 + Len(d) /\ bytes[1] = h
      /\ \A j \in 1 .. Len(d) : bytes[1 + j] = d[j]
  BY DEF EntryBytesOf
<1>3. /\ all \in Seq(T) /\ Len(all) = m + Len(bytes) /\ m \in Nat /\ Follows(all, m, bytes)
  <2>. HIDE DEF bytes
  <2>1. all = Behind(out, bytes) /\ bytes \in Seq(T)
    BY <1>2 DEF bytes
  <2>. QED
    BY <2>1, Joined
<1>. HIDE DEF m, bytes
<1>4. \A j \in 1 .. Len(bytes) : all[m + j] = bytes[j]
  BY <1>3 DEF Follows
<1>5. all[m + 1] = h
  <2>1. 1 \in 1 .. Len(bytes)
    BY <1>1, <1>2
  <2>. QED
    BY <1>2, <1>4, <2>1
<1>6. ASSUME NEW j \in 1 .. Len(d)
      PROVE  all[m + 1 + j] = d[j]
  <2>0. Len(bytes) = 1 + Len(d) /\ m \in Nat
    BY <1>2, <1>3
  <2>1. 1 + j \in 1 .. Len(bytes) /\ m + 1 + j = m + (1 + j)
    BY ONLY <1>1, <2>0, j \in 1 .. Len(d)
  <2>. QED
    BY <1>2, <1>4, <2>1
<1>7. Len(all) = m + 1 + Len(d) /\ Follows(all, m + 1, d)
  BY <1>1, <1>2, <1>3, <1>6 DEF Follows
<1>. QED
  BY <1>2, <1>3, <1>5, <1>7 DEF HeadAt, m, bytes

\* The places of the entries, with one more of them.
Placed(n, entries, out) ==
    \E at \in [1 .. n + 1 -> 0 .. Len(out)] : Laid(at, n + 1, entries, out) /\ at[1] = 0

LEMMA LaidOneMore ==
    ASSUME NEW T, NEW out \in Seq(T), NEW n \in Nat \ {0}, NEW es, NEW gs, NEW pos,
           pos \in [1 .. n -> 0 .. Len(out)], Laid(pos, n, es, out),
           \A i \in 1 .. n - 1 : gs[i] = es[i] /\ es[i].size \in Nat,
           NEW g, g = gs[n], EntryHead(g) \in T, g.digest \in Seq(T), Len(g.digest) = g.size,
           NEW all, all = Behind(out, EntryBytesOf(EntryHead(g), g.digest))
    PROVE  Placed(n, gs, all)
<1>. DEFINE bytes == EntryBytesOf(EntryHead(g), g.digest)
            at == [i \in 1 .. n + 1 |-> IF i <= n THEN pos[i] ELSE Len(all)]
<1>0. g.digest \in Seq(T) /\ Len(g.digest) = g.size /\ EntryHead(g) \in T
  OBVIOUS
<1>1. /\ bytes \in Seq(T)
      /\ Len(all) = Len(out) + 1 + Len(g.digest) /\ Len(out) \in Nat
      /\ all[Len(out) + 1] = EntryHead(g) /\ Follows(all, Len(out) + 1, g.digest)
  <2>. DEFINE h == EntryHead(g)
              d == g.digest
  <2>. HIDE DEF h, d
  <2>1. h \in T /\ d \in Seq(T) /\ all = Behind(out, EntryBytesOf(h, d))
    BY <1>0 DEF h, d
  <2>2. EntryBytesOf(h, d) \in Seq(T) /\ Len(all) = Len(out) + 1 + Len(d) /\ Len(out) \in Nat
    BY <2>1, HeadBehind
  <2>3. HeadAt(all, Len(out), h, d)
    BY <2>1, HeadBehind
  <2>. QED
    BY <2>2, <2>3 DEF HeadAt, h, d
<1>2. LaidEntry(g, Len(out), Len(all), all)
  BY <1>0, <1>1 DEF LaidEntry
<1>. HIDE DEF bytes
<1>3. all = Behind(out, bytes)
  BY DEF bytes
<1>4. Len(g.digest) \in Nat
  BY <1>0
<1>5. Len(all) \in Nat /\ Len(out) \in Nat /\ Len(out) <= Len(all)
  BY <1>1, <1>4
<1>6. /\ at \in [1 .. n + 1 -> 0 .. Len(all)] /\ at[n + 1] = Len(all)
      /\ \A i \in 1 .. n : at[i] = pos[i]
  BY <1>5
<1>. HIDE DEF at
<1>7. pos[1] = 0 /\ pos[n] = Len(out)
  BY DEF Laid
<1>8. ASSUME NEW i \in 1 .. n
      PROVE  LaidEntry(gs[i], at[i], at[i + 1], all)
  <2>1. CASE i = n
    BY <1>2, <1>6, <1>7, <2>1
  <2>2. CASE i # n
    <3>1. /\ i \in 1 .. n - 1 /\ i + 1 \in 1 .. n /\ pos[i] \in Nat
          /\ pos[i + 1] \in Nat /\ pos[i + 1] <= Len(out)
      BY <1>5, <2>2
    <3>2. LaidEntry(es[i], pos[i], pos[i + 1], out) /\ es[i].size \in Nat
      BY <3>1 DEF Laid
    <3>3. LaidEntry(es[i], pos[i], pos[i + 1], all)
      <4>. DEFINE from == pos[i]
                  to == pos[i + 1]
                  e == es[i]
      <4>1. /\ from \in Nat /\ to \in Nat /\ to <= Len(out) /\ e.size \in Nat
            /\ LaidEntry(e, from, to, out) /\ bytes \in Seq(T) /\ out \in Seq(T)
        BY <1>1, <3>1, <3>2
      <4>. HIDE DEF from, to, e
      <4>2. LaidEntry(e, from, to, Behind(out, bytes))
        BY ONLY <4>1, LaidLonger
      <4>. QED
        BY <1>3, <4>2 DEF from, to, e
    <3>. QED
      BY <1>6, <3>1, <3>3
  <2>. QED
    BY <2>1, <2>2
<1>9. at[1] = 0 /\ (n + 1) - 1 = n
  <2>1. 1 \in 1 .. n /\ (n + 1) - 1 = n
    OBVIOUS
  <2>. QED
    BY <1>6, <1>7, <2>1
<1>10. Laid(at, n + 1, gs, all)
  BY <1>6, <1>8, <1>9 DEF Laid
<1>. QED
  BY <1>6, <1>9, <1>10 DEF Placed

\* An entry is written behind the others, or the packing ends.
LEMMA WriteEntryKeeps ==
    ASSUME ArchiveIInv, WriteEntry
    PROVE  ArchiveIInv'
<1>. DEFINE n == pack.at
            es == pack.entries
            e == es[n]
            body == tree[e.name].body
            bytes == <<EntryHead(e)>> \o body
            out == pack.out \o bytes
            new == [pack EXCEPT !.at = n + 1, !.out = out, !.entries[n].digest = body]
<1>1. /\ pack.pc = "write" /\ n \in DOMAIN es /\ UNCHANGED <<tree, dataset, recv, damages, verify>>
      /\ pack' = PackTo("failed") \/ (Len(body) = e.size /\ pack' = new)
  BY DEF WriteEntry, writeEntry
<1>2. /\ DOMAIN pack = {"pc", "listed", "at", "entries", "out"} /\ recv.pc = "idle"
      /\ es \in Seq(PackEntries) /\ n \in 1 .. Len(es) /\ Len(es) \in Nat /\ DOMAIN es = 1 .. Len(es)
      /\ pack.out \in Seq(EntryHeads \cup Bytes) /\ tree \in [Files -> AnyFile]
      /\ recv.entries = <<>> /\ recv.offset = 0
  BY <1>1 DEF ArchiveIInv, ArchiveTypes, PackOrder
<1>3. e \in PackEntries
  BY <1>2
<1>4. body \in Contents /\ body \in Seq(EntryHeads \cup Bytes) /\ Len(body) \in Nat
  <2>1. e.name \in Files
    BY <1>3 DEF PackEntries
  <2>. QED
    BY <1>2, <2>1, FileFields, BodyBytes
<1>5. EntryHead(e) \in EntryHeads
  BY <1>3 DEF EntryHead, EntryHeads, PackEntries
<1>7. out \in Seq(EntryHeads \cup Bytes)
  <2>. HIDE DEF body, e
  <2>1. <<EntryHead(e)>> \in Seq(EntryHeads \cup Bytes)
    BY <1>5
  <2>2. bytes \in Seq(EntryHeads \cup Bytes)
    BY <1>4, <2>1, ConcatProperties
  <2>. QED
    BY <1>2, <2>2, ConcatProperties
<1>8. CASE pack' = PackTo("failed")
  <2>1. /\ DOMAIN pack' = DOMAIN pack /\ pack'.out = pack.out /\ pack'.entries = pack.entries
        /\ pack'.at = pack.at /\ pack'.pc = "failed"
    BY <1>2, <1>8 DEF PackTo
  <2>2. ArchiveTypes'
    BY <1>1, <2>1 DEF ArchiveIInv, ArchiveTypes
  <2>3. NamesOnce' /\ PackOrder' /\ OffsetLaid'
    BY <1>1, <1>2, <2>1 DEF ArchiveIInv, NamesOnce, PackOrder, OffsetLaid
  <2>. QED
    BY <1>1, <2>2, <2>3, SenderRests DEF ArchiveIInv
<1>9. CASE Len(body) = e.size /\ pack' = new
  <2>. DEFINE g == [e EXCEPT !.digest = body]
              gs == [es EXCEPT ![n] = g]
  <2>1. /\ DOMAIN pack' = DOMAIN pack /\ pack'.out = out /\ pack'.at = n + 1
        /\ pack'.pc = "write" /\ pack'.entries = gs
    BY <1>1, <1>2, <1>9
  <2>2. /\ g \in PackEntries /\ g.name = e.name /\ g.size = e.size /\ g.digest = body
        /\ EntryHead(g) = EntryHead(e)
    BY <1>3, <1>4 DEF PackEntries, EntryHead
  <2>. HIDE DEF g
  <2>3. /\ gs \in Seq(PackEntries) /\ Len(gs) = Len(es) /\ gs[n] = g /\ DOMAIN gs = 1 .. Len(es)
        /\ \A i \in 1 .. Len(es) : i # n => gs[i] = es[i]
    BY <1>2, <2>2, ExceptSeq
  <2>. HIDE DEF gs, new, body
  <2>4. ArchiveTypes'
    <3>1. n + 1 \in Nat \ {0}
      BY <1>2
    <3>. QED
      BY <1>1, <1>7, <2>1, <2>3, <3>1 DEF ArchiveIInv, ArchiveTypes
  <2>5. \A i \in 1 .. Len(es) : gs[i].name = es[i].name
    BY <2>2, <2>3
  <2>6. NamesOnce'
    <3>1. \A i, j \in DOMAIN es : es[i].name = es[j].name => i = j
      BY DEF ArchiveIInv, NamesOnce
    <3>. QED
      BY <1>2, <2>1, <2>3, <2>5, <3>1 DEF NamesOnce
  <2>7. PackOrder'
    BY <1>1, <1>2, <2>1, <2>3 DEF PackOrder, ArchiveIInv
  <2>8. OffsetLaid'
    <3>1. PICK pos \in [1 .. n -> 0 .. Len(pack.out)] : Laid(pos, n, es, pack.out)
      BY <1>1 DEF ArchiveIInv, OffsetLaid
    <3>2. \A i \in 1 .. n - 1 : gs[i] = es[i] /\ es[i].size \in Nat
      <4>1. \A i \in 1 .. Len(es) : es[i] \in PackEntries
        BY <1>2
      <4>2. \A i \in 1 .. Len(es) : es[i].size \in Nat
        BY <4>1 DEF PackEntries
      <4>3. \A i \in 1 .. n - 1 : i \in 1 .. Len(es) /\ i # n
        BY <1>2
      <4>. QED
        BY <2>3, <4>2, <4>3
    <3>3. /\ EntryHead(g) \in EntryHeads \cup Bytes /\ g.digest \in Seq(EntryHeads \cup Bytes)
          /\ Len(g.digest) = g.size /\ g = gs[n]
      BY <1>4, <1>5, <1>9, <2>2, <2>3
    <3>4. out = Behind(pack.out, EntryBytesOf(EntryHead(g), g.digest))
      BY <2>2, <2>3 DEF Behind, EntryBytesOf, out, bytes
    <3>5. n \in Nat \ {0}
      BY <1>2
    <3>. HIDE DEF out, es, n
    <3>9. Placed(n, gs, out)
      BY <1>2, <3>1, <3>2, <3>3, <3>4, <3>5, LaidOneMore
    <3>6. PICK at \in [1 .. n + 1 -> 0 .. Len(out)] : Laid(at, n + 1, gs, out) /\ at[1] = 0
      BY <3>9 DEF Placed
    <3>7. recv'.offset = at[Len(recv'.entries) + 1]
      BY <1>1, <1>2, <3>6
    <3>. QED
      BY <2>1, <3>6, <3>7 DEF OffsetLaid
  <2>. QED
    BY <1>1, <2>4, <2>6, <2>7, <2>8, SenderRests DEF ArchiveIInv
<1>. QED
  BY <1>1, <1>8, <1>9

\* On the receiver's side the sender is done and changes nothing.
LEMMA ReceiverRests ==
    ASSUME ArchiveIInv, pack' = pack, pack.pc = "sent",
           recv'.pc # "idle" \/ recv' = recv
    PROVE  NamesOnce' /\ PackOrder'
  BY DEF ArchiveIInv, NamesOnce, PackOrder

LEMMA StartExtractKeeps ==
    ASSUME ArchiveIInv, StartExtract
    PROVE  ArchiveIInv'
<1>1. /\ pack.pc = "sent" /\ recv.pc = "idle" /\ recv' = [recv EXCEPT !.pc = "extract"]
      /\ UNCHANGED <<tree, pack, dataset, damages, verify>>
  BY DEF StartExtract
<1>2. /\ DOMAIN recv' = DOMAIN recv /\ recv'.pc = "extract" /\ recv'.offset = recv.offset
      /\ recv'.staged = recv.staged /\ recv'.entries = recv.entries
  BY <1>1 DEF ArchiveIInv, ArchiveTypes
<1>3. ArchiveTypes'
  BY <1>1, <1>2 DEF ArchiveIInv, ArchiveTypes
<1>4. NamesOnce' /\ PackOrder'
  BY <1>1, <1>2, ReceiverRests
<1>5. OffsetLaid'
  BY <1>1, <1>2 DEF ArchiveIInv, OffsetLaid
<1>6. StagedIsPacked'
  BY <1>1, <1>2 DEF ArchiveIInv, StagedIsPacked, Delivered
<1>7. PublishedIsStaged'
  BY <1>1, <1>2 DEF ArchiveIInv, PublishedIsStaged
<1>8. verify.pc = "idle"
  BY <1>1 DEF ArchiveIInv, PublishedIsStaged
<1>9. NamedSoFar'
  BY <1>1, <1>8 DEF ArchiveIInv, NamedSoFar
<1>. QED
  BY <1>3, <1>4, <1>5, <1>6, <1>7, <1>9 DEF ArchiveIInv

\* The entry the receiver comes to is the sender's next, and is whole.
LEMMA NextEntry ==
    ASSUME ArchiveIInv, recv.pc = "extract", Len(recv.entries) < Len(pack.entries)
    PROVE  LET k == Len(recv.entries) + 1
               e == pack.entries[k]
           IN  /\ k \in DOMAIN pack.entries /\ pack.pc = "sent"
               /\ e \in PackEntries /\ pack.out[recv.offset + 1] = EntryHead(e)
               /\ recv.offset \in Nat /\ recv.offset + 1 + e.size <= Len(pack.out)
               /\ SubSeq(pack.out, recv.offset + 2, recv.offset + 1 + e.size) = e.digest
               /\ \E pos \in [1 .. pack.at -> 0 .. Len(pack.out)] :
                    /\ Laid(pos, pack.at, pack.entries, pack.out)
                    /\ recv.offset + 1 + e.size = pos[k + 1]
<1>. DEFINE k == Len(recv.entries) + 1
            e == pack.entries[k]
            out == pack.out
            T == EntryHeads \cup Bytes
<1>1. /\ pack.pc = "sent" /\ pack.at = Len(pack.entries) + 1 /\ pack.entries \in Seq(PackEntries)
      /\ recv.entries \in Seq(EntryHeads) /\ out \in Seq(T)
  BY DEF ArchiveIInv, ArchiveTypes, PackOrder
<1>2. /\ Len(recv.entries) \in Nat /\ Len(pack.entries) \in Nat /\ Len(out) \in Nat
      /\ DOMAIN pack.entries = 1 .. Len(pack.entries)
  BY <1>1
<1>3. k \in 1 .. Len(pack.entries) /\ k \in 1 .. pack.at - 1 /\ k + 1 \in 1 .. pack.at
      /\ k \in 1 .. pack.at
  BY <1>1, <1>2
<1>4. e \in PackEntries
  BY <1>1, <1>3
<1>5. PICK pos \in [1 .. pack.at -> 0 .. Len(pack.out)] :
          /\ Laid(pos, pack.at, pack.entries, pack.out)
          /\ recv.offset = pos[Len(recv.entries) + 1]
  BY <1>1 DEF ArchiveIInv, OffsetLaid
<1>6. LaidEntry(e, pos[k], pos[k + 1], out)
  BY <1>3, <1>5 DEF Laid
<1>7. e.size \in Nat /\ e.digest \in Contents
  BY <1>4 DEF PackEntries
<1>8. e.digest \in Seq(T)
  BY <1>7, BodyBytes
<1>. DEFINE m == recv.offset
<1>9. m \in Nat /\ pos[k + 1] <= Len(out) /\ pos[k] = m
  BY <1>2, <1>3, <1>5
<1>10. /\ pos[k + 1] = m + 1 + e.size /\ Len(e.digest) = e.size /\ out[m + 1] = EntryHead(e)
       /\ Follows(out, m + 1, e.digest)
  BY <1>6, <1>9 DEF LaidEntry
<1>11. SubSeq(out, m + 2, m + 1 + e.size) = e.digest
  <2>. DEFINE d == e.digest
              n == m + 1
              l == Len(out)
              s == e.size
  <2>. HIDE DEF d
  <2>0. d \in Seq(T)
    BY <1>8 DEF d
  <2>4. m \in Nat /\ s \in Nat /\ l \in Nat /\ m + 1 + s <= l /\ Len(d) = s
    <3>1. Len(d) = s
      BY <1>10 DEF d
    <3>. HIDE DEF m, s, l
    <3>. QED
      BY <1>2, <1>7, <1>9, <1>10, <3>1 DEF m, s, l
  <2>1. /\ d \in Seq(T) /\ Len(d) = e.size /\ n \in Nat /\ n + Len(d) <= Len(out)
        /\ n + 1 = m + 2 /\ n + Len(d) = m + 1 + e.size
    <3>. HIDE DEF m, s, l
    <3>1. /\ n \in Nat /\ n + s <= l /\ n + 1 = m + 2 /\ n + s = m + 1 + s
      BY <2>4
    <3>. QED
      BY <2>0, <2>4, <3>1 DEF s, l
  <2>2. \A j \in 1 .. Len(d) : out[n + j] = d[j]
    BY <1>10 DEF Follows, d
  <2>. HIDE DEF n, out, T
  <2>3. SubSeq(out, n + 1, n + Len(d)) = d
    BY <1>1, <2>1, <2>2, PartIs
  <2>. QED
    BY <2>1, <2>3 DEF d
<1>. QED
  BY <1>1, <1>2, <1>3, <1>4, <1>5, <1>9, <1>10, <1>11

\* A head is read when it is there with its bytes.
LEMMA HeadRead ==
    ASSUME NEW offset, IsHead(offset), ~(offset + 1 + pack.out[offset + 1].size > Len(pack.out))
    PROVE  readEntry(offset) = "Ok"
<1>. DEFINE short == IsHead(offset) /\ offset + 1 + pack.out[offset + 1].size > Len(pack.out)
            checks == <<When(~IsHead(offset), "Truncated"), When(short, "Truncated")>>
<1>1. readEntry(offset) = FirstError(checks, "Ok")
  BY DEF readEntry
<1>2. DOMAIN checks = 1 .. 2 /\ checks[1] = When(~IsHead(offset), "Truncated")
      /\ checks[2] = When(short, "Truncated")
  OBVIOUS
<1>3. ~checks[1].cond
  <2>1. (~IsHead(offset)) \in BOOLEAN
    OBVIOUS
  <2>. QED
    BY <1>2, <2>1, WhenFields, Zenon
<1>4. ~short /\ short \in BOOLEAN
  OBVIOUS
<1>5. ~checks[2].cond
  <2>. HIDE DEF short
  <2>. QED
    BY <1>2, <1>4, WhenFields, Zenon
<1>. HIDE DEF checks
<1>6. Failing(checks) = {}
  BY <1>2, <1>3, <1>5 DEF Failing
<1>. QED
  BY <1>1, <1>6 DEF FirstError

\* The next entry is extracted, and nothing is in its way.
LEMMA ExtractKeeps ==
    ASSUME ArchiveIInv, ExtractEntry
    PROVE  ArchiveIInv'
<1>. DEFINE n == Len(recv.entries)
            k == n + 1
            e == pack.entries[k]
            h == EntryHead(e)
            m == recv.offset
            old == recv.staged
<1>1. /\ recv.pc = "extract" /\ n < Len(pack.entries)
      /\ UNCHANGED <<tree, pack, dataset, damages, verify>>
  BY DEF ExtractEntry
<1>2. /\ k \in DOMAIN pack.entries /\ pack.pc = "sent" /\ e \in PackEntries
      /\ pack.out[m + 1] = h /\ m \in Nat /\ m + 1 + e.size <= Len(pack.out)
      /\ SubSeq(pack.out, m + 2, m + 1 + e.size) = e.digest
  BY <1>1, NextEntry
<1>3. PICK pos \in [1 .. pack.at -> 0 .. Len(pack.out)] :
          /\ Laid(pos, pack.at, pack.entries, pack.out) /\ m + 1 + e.size = pos[k + 1]
  BY <1>1, NextEntry
<1>4. /\ h.name = e.name /\ h.size = e.size /\ h \in EntryHeads /\ e.name \in Files
      /\ e.size \in Nat /\ e.digest \in Contents
      /\ (h.executable <=> e.executable) /\ e.executable \in BOOLEAN
      /\ DOMAIN h = {"name", "size", "executable"}
  BY <1>2 DEF EntryHead, PackEntries, EntryHeads
<1>5. /\ recv.entries \in Seq(EntryHeads) /\ n \in Nat /\ pack.entries \in Seq(PackEntries)
      /\ Len(pack.entries) \in Nat /\ DOMAIN pack.entries = 1 .. Len(pack.entries)
      /\ DOMAIN recv = {"pc", "offset", "staged", "entries"} /\ pack.out \in Seq(EntryHeads \cup Bytes)
      /\ old \in [Files -> AnyFile] /\ Len(pack.out) \in Nat
  BY DEF ArchiveIInv, ArchiveTypes
<1>6. readEntry(m) = "Ok"
  <2>1. IsHead(m)
    BY <1>2, <1>4, <1>5 DEF IsHead
  <2>2. ~(m + 1 + pack.out[m + 1].size > Len(pack.out))
    BY <1>2, <1>4, <1>5
  <2>. QED
    BY <2>1, <2>2, HeadRead
<1>7. \A i \in 1 .. n : pack.entries[i].name # e.name
  <2>1. \A i \in 1 .. n : i \in DOMAIN pack.entries /\ i # k
    BY <1>1, <1>5
  <2>. QED
    BY <1>2, <2>1 DEF ArchiveIInv, NamesOnce
<1>8. old[e.name] = NoFile
  BY <1>4, <1>7 DEF ArchiveIInv, StagedIsPacked
<1>. DEFINE landed == writeFile(h, e.digest)
            new == [recv EXCEPT !.offset = m + 1 + e.size, !.staged[e.name] = landed,
                                !.entries = Append(recv.entries, h)]
<1>9. recv' = new
  BY <1>2, <1>4, <1>6, <1>8 DEF ExtractEntry
<1>. HIDE DEF h, e, landed, m
<1>10. /\ DOMAIN recv' = DOMAIN recv /\ recv'.pc = "extract" /\ recv'.offset = m + 1 + e.size
       /\ recv'.staged = [old EXCEPT ![e.name] = landed]
       /\ recv'.entries = Append(recv.entries, h)
  BY <1>1, <1>5, <1>9
<1>11. landed \in AnyFile
  <2>1. landed = [kind |-> "regular", body |-> e.digest, executable |-> h.executable]
    BY DEF landed, writeFile
  <2>2. h.executable \in BOOLEAN
    BY <1>4 DEF EntryHeads
  <2>. QED
    BY <1>4, <2>1, <2>2 DEF AnyFile, FileState
<1>12. /\ recv'.entries \in Seq(EntryHeads) /\ Len(recv'.entries) = k /\ recv'.entries[k] = h
       /\ \A i \in 1 .. n : recv'.entries[i] = recv.entries[i]
  BY <1>4, <1>5, <1>10
<1>13. /\ recv'.staged \in [Files -> AnyFile] /\ recv'.staged[e.name] = landed
       /\ \A f \in Files : f # e.name => recv'.staged[f] = old[f]
  BY <1>4, <1>5, <1>10, <1>11
<1>14. ArchiveTypes'
  BY <1>1, <1>10, <1>12, <1>13 DEF ArchiveIInv, ArchiveTypes
<1>15. NamesOnce' /\ PackOrder'
  BY <1>1, <1>2, <1>10, ReceiverRests
<1>16. OffsetLaid'
  BY <1>1, <1>3, <1>10, <1>12 DEF OffsetLaid
<1>17. StagedIsPacked'
  <2>1. \A i \in 1 .. n : /\ recv.entries[i] = EntryHead(pack.entries[i])
                          /\ old[pack.entries[i].name] = Delivered(i)
                          /\ pack.entries[i].name \in Files
    <3>1. \A i \in 1 .. n : pack.entries[i] \in PackEntries
      BY <1>1, <1>5
    <3>2. \A i \in 1 .. n : pack.entries[i].name \in Files
      BY <3>1 DEF PackEntries
    <3>. QED
      BY <3>2 DEF ArchiveIInv, StagedIsPacked
  <2>2. \A i \in 1 .. n : /\ recv'.entries[i] = EntryHead(pack.entries[i])
                          /\ recv'.staged[pack.entries[i].name] = Delivered(i)
    BY <1>7, <1>12, <1>13, <2>1
  <2>3. recv'.entries[k] = EntryHead(pack.entries[k])
    BY <1>12 DEF h, e
  <2>4. recv'.staged[pack.entries[k].name] = Delivered(k)
    BY <1>13 DEF Delivered, landed, h, e
  <2>5. \A i \in 1 .. k : /\ recv'.entries[i] = EntryHead(pack.entries[i])
                          /\ recv'.staged[pack.entries[i].name] = Delivered(i)
    BY <1>5, <2>2, <2>3, <2>4
  <2>6. ASSUME NEW f \in Files, \A i \in 1 .. k : pack.entries[i].name # f
        PROVE  recv'.staged[f] = NoFile
    <3>1. f # e.name /\ \A i \in 1 .. n : pack.entries[i].name # f
      BY <1>5, <2>6 DEF e
    <3>. QED
      BY <1>13, <3>1 DEF ArchiveIInv, StagedIsPacked
  <2>7. k <= Len(pack.entries)
    BY <1>1, <1>5
  <2>. HIDE DEF k, n, old, new
  <2>. QED
    BY <1>1, <1>10, <1>12, <2>5, <2>6, <2>7 DEF StagedIsPacked, Delivered
<1>18. PublishedIsStaged'
  BY <1>1, <1>10 DEF ArchiveIInv, PublishedIsStaged
<1>19. verify.pc = "idle"
  BY <1>1 DEF ArchiveIInv, PublishedIsStaged
<1>20. NamedSoFar'
  BY <1>1, <1>19 DEF ArchiveIInv, NamedSoFar
<1>. QED
  BY <1>14, <1>15, <1>16, <1>17, <1>18, <1>20 DEF ArchiveIInv

\* The dataset appears, and is compared with the inventory.
LEMMA PublishKeeps ==
    ASSUME ArchiveIInv, Publish \/ Reconcile
    PROVE  ArchiveIInv'
<1>0. /\ DOMAIN recv = {"pc", "offset", "staged", "entries"} /\ recv.staged \in [Files -> AnyFile]
      /\ pack.entries \in Seq(PackEntries) /\ DOMAIN pack.entries = 1 .. Len(pack.entries)
  BY DEF ArchiveIInv, ArchiveTypes
<1>1. /\ UNCHANGED <<tree, pack, damages, verify>> /\ recv.pc \in {"extract", "published"}
      /\ Len(recv.entries) = Len(pack.entries)
  BY DEF ArchiveIInv, Publish, Reconcile, StagedIsPacked
<1>2. recv.pc = "published" => reconcile(recv.entries, pack.entries)
  BY <1>0, <1>1 DEF ArchiveIInv, StagedIsPacked, reconcile
<1>3. \/ /\ recv.pc = "extract" /\ dataset' = recv.staged
         /\ recv' = [recv EXCEPT !.pc = "published"]
      \/ recv.pc = "published" /\ dataset' = dataset /\ recv' = [recv EXCEPT !.pc = "received"]
  BY <1>2 DEF Publish, Reconcile
<1>4. /\ DOMAIN recv' = DOMAIN recv /\ recv'.offset = recv.offset
      /\ recv'.staged = recv.staged /\ recv'.entries = recv.entries
      /\ recv'.pc \in {"published", "received"}
      /\ dataset' = recv.staged \/ (dataset' = dataset /\ recv.pc = "published")
  BY <1>0, <1>3
<1>5. pack.pc = "sent"
  BY <1>1 DEF ArchiveIInv, PackOrder
<1>6. ArchiveTypes'
  <2>1. dataset' \in [Files -> AnyFile]
    BY <1>0, <1>4 DEF ArchiveIInv, ArchiveTypes
  <2>. QED
    BY <1>1, <1>4, <2>1 DEF ArchiveIInv, ArchiveTypes
<1>7. NamesOnce' /\ PackOrder'
  BY <1>1, <1>4, <1>5, ReceiverRests
<1>8. OffsetLaid'
  BY <1>1, <1>4 DEF ArchiveIInv, OffsetLaid
<1>9. StagedIsPacked'
  BY <1>1, <1>4 DEF ArchiveIInv, StagedIsPacked, Delivered
<1>10. verify.pc = "idle"
  BY <1>1 DEF ArchiveIInv, PublishedIsStaged
<1>11. PublishedIsStaged'
  BY <1>1, <1>4, <1>10 DEF ArchiveIInv, PublishedIsStaged
<1>12. NamedSoFar'
  BY <1>1, <1>10 DEF ArchiveIInv, NamedSoFar
<1>. QED
  BY <1>6, <1>7, <1>8, <1>9, <1>11, <1>12 DEF ArchiveIInv

\* What a step of verify, or of whoever changes the dataset, leaves alone.
LEMMA VerifyRests ==
    ASSUME ArchiveIInv, UNCHANGED <<pack, recv>>
    PROVE  NamesOnce' /\ PackOrder' /\ OffsetLaid' /\ StagedIsPacked'
<1>1. NamesOnce' /\ PackOrder'
  BY DEF ArchiveIInv, NamesOnce, PackOrder
<1>2. OffsetLaid'
  BY DEF ArchiveIInv, OffsetLaid
<1>3. StagedIsPacked'
  BY DEF ArchiveIInv, StagedIsPacked, Delivered
<1>. QED
  BY <1>1, <1>2, <1>3

\* A file of the dataset changes: verify has not begun, or is not quiet.
LEMMA DamageKeeps ==
    ASSUME ArchiveIInv, NEW f \in Files, NEW new \in FileState \cup {NoFile}, Damage(f, new)
    PROVE  ArchiveIInv'
<1>1. /\ recv.pc \in {"received", "mismatch"} /\ verify.pc # "done"
      /\ dataset' = [dataset EXCEPT ![f] = new] /\ damages' = damages + 1
      /\ verify' = [verify EXCEPT !.quiet = (verify.pc = "idle")]
      /\ UNCHANGED <<tree, pack, recv>>
  BY DEF Damage
<1>2. /\ DOMAIN verify = {"pc", "at", "found", "problems", "quiet"} /\ damages \in Nat
      /\ dataset \in [Files -> AnyFile] /\ recv.pc = "received"
      /\ verify.pc \in {"idle", "check"}
  BY <1>1 DEF ArchiveIInv, ArchiveTypes, PublishedIsStaged
<1>3. /\ DOMAIN verify' = DOMAIN verify /\ verify'.pc = verify.pc /\ verify'.at = verify.at
      /\ verify'.found = verify.found /\ verify'.problems = verify.problems
      /\ verify'.quiet \in BOOLEAN /\ (verify'.quiet <=> verify.pc = "idle")
  BY <1>1, <1>2
<1>4. ArchiveTypes'
  <2>1. dataset' \in [Files -> AnyFile] /\ damages' \in Nat
    BY <1>1, <1>2 DEF AnyFile
  <2>. QED
    BY <1>1, <1>3, <2>1 DEF ArchiveIInv, ArchiveTypes
<1>5. PublishedIsStaged'
  <2>1. damages' # 0
    BY <1>1, <1>2
  <2>. QED
    BY <1>1, <1>2, <1>3, <2>1 DEF ArchiveIInv, PublishedIsStaged
<1>6. NamedSoFar'
  BY <1>1, <1>2, <1>3 DEF ArchiveIInv, NamedSoFar
<1>. QED
  BY <1>1, <1>4, <1>5, <1>6, VerifyRests DEF ArchiveIInv

\* The walk of the dataset: nothing is named yet.
LEMMA WalkDatasetKeeps ==
    ASSUME ArchiveIInv, WalkDataset
    PROVE  ArchiveIInv'
<1>. DEFINE found == [f \in Files |-> IF Regular(dataset, f) THEN dataset[f] ELSE NoFile]
<1>1. /\ recv.pc = "received" /\ verify.pc = "idle"
      /\ verify' = [verify EXCEPT !.pc = "check", !.found = found]
      /\ UNCHANGED <<tree, pack, dataset, recv, damages>>
  BY DEF WalkDataset
<1>2. /\ DOMAIN verify = {"pc", "at", "found", "problems", "quiet"} /\ verify.at = 1
      /\ verify.problems = {} /\ Len(pack.entries) \in Nat
  BY <1>1 DEF ArchiveIInv, ArchiveTypes, NamedSoFar
<1>3. \A f \in Files : found[f] = Found(f)
  BY DEF Found
<1>. HIDE DEF found
<1>4. /\ DOMAIN verify' = DOMAIN verify /\ verify'.pc = "check" /\ verify'.at = 1
      /\ verify'.found = found /\ verify'.problems = {} /\ verify'.quiet = verify.quiet
  BY <1>1, <1>2
<1>5. ArchiveTypes'
  BY <1>1, <1>4 DEF ArchiveIInv, ArchiveTypes
<1>6. PublishedIsStaged'
  BY <1>1, <1>4 DEF ArchiveIInv, PublishedIsStaged
<1>7. \A x : ~Named(1, x)
  BY DEF Named
<1>8. \A x : ~Named(1, x)'
  BY DEF Named
<1>9. \A f \in Files : Found(f)' = Found(f)
  BY <1>1 DEF Found, Regular
<1>10. NamedSoFar'
  BY <1>2, <1>1, <1>3, <1>4, <1>8, <1>9 DEF NamedSoFar
<1>. QED
  BY <1>1, <1>5, <1>6, <1>10, VerifyRests DEF ArchiveIInv

\* What is named does not change while the dataset does not.
LEMMA NamedSame ==
    ASSUME UNCHANGED <<pack, dataset>>
    PROVE  /\ \A n, x : Named(n, x)' <=> Named(n, x)
           /\ \A x : Extra(x)' <=> Extra(x)
           /\ \A f : Found(f)' = Found(f)
<1>1. \A f : Found(f)' = Found(f)
  BY DEF Found, Regular
<1>2. \A n, x : Named(n, x)' <=> Named(n, x)
  BY <1>1 DEF Named
<1>3. Expected' = Expected
  BY DEF Expected
<1>4. \A x : Extra(x)' <=> Extra(x)
  BY <1>1, <1>3 DEF Extra
<1>. QED
  BY <1>1, <1>2, <1>4

\* One more entry is looked at.
LEMMA CheckEntryKeeps ==
    ASSUME ArchiveIInv, CheckEntry
    PROVE  ArchiveIInv'
<1>. DEFINE n == verify.at
            e == pack.entries[n]
            more == {<<e.name, p>> : p \in Problems(e, verify.found[e.name], dataset[e.name])}
<1>1. /\ verify.pc = "check" /\ n \in DOMAIN pack.entries
      /\ verify' = [verify EXCEPT !.at = n + 1, !.problems = verify.problems \cup more]
      /\ UNCHANGED <<tree, pack, dataset, recv, damages>>
  BY DEF CheckEntry
<1>2. /\ DOMAIN verify = {"pc", "at", "found", "problems", "quiet"} /\ n \in Nat \ {0}
      /\ pack.entries \in Seq(PackEntries) /\ n \in 1 .. Len(pack.entries)
  BY <1>1 DEF ArchiveIInv, ArchiveTypes
<1>. HIDE DEF more
<1>3. /\ DOMAIN verify' = DOMAIN verify /\ verify'.pc = "check" /\ verify'.at = n + 1
      /\ verify'.found = verify.found /\ verify'.quiet = verify.quiet
      /\ verify'.problems = verify.problems \cup more
  BY <1>1, <1>2
<1>4. ArchiveTypes'
  BY <1>1, <1>2, <1>3 DEF ArchiveIInv, ArchiveTypes
<1>5. PublishedIsStaged'
  BY <1>1, <1>3 DEF ArchiveIInv, PublishedIsStaged
<1>6. verify.quiet => \A x : x \in verify'.problems <=> Named(n + 1, x)
  <2>. SUFFICES ASSUME verify.quiet, NEW x
                PROVE  x \in verify'.problems <=> Named(n + 1, x)
    OBVIOUS
  <2>1. x \in verify.problems <=> Named(n, x)
    BY <1>1 DEF ArchiveIInv, NamedSoFar
  <2>2. e.name \in Files
    <3>1. e \in PackEntries
      BY <1>2
    <3>. QED
      BY <3>1 DEF PackEntries
  <2>3. verify.found[e.name] = Found(e.name)
    BY <1>1, <2>2 DEF ArchiveIInv, NamedSoFar
  <2>. DEFINE N(i) == \E p \in Problems(pack.entries[i], Found(pack.entries[i].name),
                                        dataset[pack.entries[i].name]) :
                          x = <<pack.entries[i].name, p>>
  <2>4. x \in more <=> N(n)
    BY <2>3 DEF more
  <2>5. /\ Named(n, x) <=> \E i \in 1 .. n - 1 : N(i)
        /\ Named(n + 1, x) <=> \E i \in 1 .. (n + 1) - 1 : N(i)
    BY DEF Named
  <2>. HIDE DEF N
  <2>6. (\E i \in 1 .. (n + 1) - 1 : N(i)) <=> (\E i \in 1 .. n - 1 : N(i)) \/ N(n)
    <3>1. \A i : i \in 1 .. (n + 1) - 1 <=> i \in 1 .. n - 1 \/ i = n
      BY <1>2
    <3>. QED
      BY <3>1, Zenon
  <2>. QED
    BY <1>3, <2>1, <2>4, <2>5, <2>6
<1>7. NamedSoFar'
  BY <1>1, <1>2, <1>3, <1>6, NamedSame DEF ArchiveIInv, NamedSoFar
<1>. QED
  BY <1>1, <1>4, <1>5, <1>7, VerifyRests DEF ArchiveIInv

\* The files nobody sent are named, and that is all.
LEMMA CheckExtraKeeps ==
    ASSUME ArchiveIInv, CheckExtra
    PROVE  ArchiveIInv'
<1>. DEFINE more == {<<f, "unexpected">> : f \in {g \in Files \ Expected : verify.found[g] # NoFile}}
<1>1. /\ verify.pc = "check" /\ verify.at \notin DOMAIN pack.entries
      /\ verify' = [verify EXCEPT !.pc = "done", !.problems = verify.problems \cup more]
      /\ UNCHANGED <<tree, pack, dataset, recv, damages>>
  BY DEF CheckExtra
<1>2. /\ DOMAIN verify = {"pc", "at", "found", "problems", "quiet"} /\ verify.at \in Nat \ {0}
      /\ pack.entries \in Seq(PackEntries) /\ verify.at <= Len(pack.entries) + 1
      /\ Len(pack.entries) \in Nat /\ DOMAIN pack.entries = 1 .. Len(pack.entries)
  BY <1>1 DEF ArchiveIInv, ArchiveTypes, NamedSoFar
<1>3. verify.at = Len(pack.entries) + 1
  BY <1>1, <1>2
<1>4. verify.quiet => \A x : x \in more <=> Extra(x)
  <2>. SUFFICES ASSUME verify.quiet, NEW x PROVE x \in more <=> Extra(x)
    OBVIOUS
  <2>1. \A f \in Files : verify.found[f] = Found(f)
    BY <1>1 DEF ArchiveIInv, NamedSoFar
  <2>. QED
    BY <2>1 DEF Extra
<1>. HIDE DEF more
<1>5. /\ DOMAIN verify' = DOMAIN verify /\ verify'.pc = "done" /\ verify'.at = verify.at
      /\ verify'.found = verify.found /\ verify'.quiet = verify.quiet
      /\ verify'.problems = verify.problems \cup more
  BY <1>1, <1>2
<1>6. ArchiveTypes'
  BY <1>1, <1>5 DEF ArchiveIInv, ArchiveTypes
<1>7. PublishedIsStaged'
  BY <1>1, <1>5 DEF ArchiveIInv, PublishedIsStaged
<1>8. verify.quiet =>
          \A x : x \in verify'.problems <=> Named(Len(pack.entries) + 1, x) \/ Extra(x)
  BY <1>1, <1>3, <1>4, <1>5 DEF ArchiveIInv, NamedSoFar
<1>9. NamedSoFar'
  BY <1>1, <1>5, <1>8, NamedSame DEF ArchiveIInv, NamedSoFar
<1>. QED
  BY <1>1, <1>6, <1>7, <1>9, VerifyRests DEF ArchiveIInv

LEMMA ArchiveNextIInv == ArchiveIInv /\ [ArchiveNext]_archiveVars => ArchiveIInv'
<1>. SUFFICES ASSUME ArchiveIInv, [ArchiveNext]_archiveVars PROVE ArchiveIInv'
  OBVIOUS
<1>1. CASE UNCHANGED archiveVars
  <2>1. UNCHANGED <<tree, pack, dataset, recv, damages, verify>>
    BY <1>1 DEF archiveVars
  <2>2. ArchiveTypes' /\ PublishedIsStaged'
    BY <2>1 DEF ArchiveIInv, ArchiveTypes, PublishedIsStaged
  <2>3. NamedSoFar'
    BY <2>1, NamedSame DEF ArchiveIInv, NamedSoFar
  <2>. QED
    BY <2>1, <2>2, <2>3, VerifyRests DEF ArchiveIInv
<1>. QED
  BY <1>1, EditKeeps, DamageKeeps, WalkKeeps, CollectedKeeps, WriteEntryKeeps, PackedKeeps,
     StartExtractKeeps, ExtractKeeps, PublishKeeps, WalkDatasetKeeps, CheckEntryKeeps,
     CheckExtraKeeps DEF ArchiveNext

\* The archive holds what was packed, the staging directory what the archive held,
\* and verify has named what differs, however files change (Create, Extract).
THEOREM ArchiveInvariant == ArchiveSpec => []ArchiveIInv
  BY ArchiveInitIInv, ArchiveNextIInv, PTL DEF ArchiveSpec

\* What was sent is received, for any number of files of any length, and however
\* they change while they are packed (writeEntry, Extract, reconcile).
THEOREM ReceivedAsSent == ArchiveSpec => []SentIsReceived
<1>1. ArchiveIInv => SentIsReceived
  BY DEF ArchiveIInv, PublishedIsStaged, SentIsReceived
<1>. QED
  BY <1>1, ArchiveInvariant, PTL

\* The names that the archive takes and the manifest may not.
DriveBehindWide(name) == name.wide /\ "drive" \in name.refused
Odd(name) == DriveBehindWide(name) \/ ~name.utf8

\* The two validations of a name differ in nothing but the drive.
LEMMA NamesCompared ==
    ASSUME NEW name, name.wide \in BOOLEAN,
           ValidateName(name) = "Ok", validate_name(name) # "Ok"
    PROVE  DriveBehindWide(name)
<1>. DEFINE theirs == <<When(name.len = 0 \/ name.len > MAX_NAME_LEN, "PathTraversal"),
                        When(name.refused \ (IF name.wide THEN {"drive"} ELSE {}) # {}, "PathTraversal"),
                        When(\E i \in DOMAIN name.path : name.path[i] = "..", "PathTraversal")>>
            ours == <<When(name.len = 0, "PathTraversal"),
                      When(name.len > MAX_NAME_LEN, "FileNameTooLong"),
                      When(name.refused # {}, "PathTraversal"),
                      When(\E i \in DOMAIN name.path : name.path[i] = "..", "PathTraversal")>>
<1>1. \A i \in DOMAIN theirs : ~theirs[i].cond
  <2>1. DOMAIN theirs = 1 .. 3 /\ \A i \in 1 .. 3 : theirs[i].error = "PathTraversal"
    BY DEF When
  <2>2. FirstError(theirs, "Ok") = "Ok"
    BY DEF ValidateName
  <2>. HIDE DEF theirs
  <2>. QED
    BY <2>1, <2>2, NoErrorFound
<1>2. \E i \in DOMAIN ours : ours[i].cond
  <2>1. DOMAIN ours = 1 .. 4
    OBVIOUS
  <2>2. FirstError(ours, "Ok") # "Ok"
    BY DEF validate_name
  <2>. HIDE DEF ours
  <2>. QED
    BY <2>1, <2>2, FirstErrorCases
<1>3. /\ ~(name.len = 0 \/ name.len > MAX_NAME_LEN)
      /\ name.refused \ (IF name.wide THEN {"drive"} ELSE {}) = {}
      /\ ~(\E i \in DOMAIN name.path : name.path[i] = "..")
  <2>1. 1 \in DOMAIN theirs /\ 2 \in DOMAIN theirs /\ 3 \in DOMAIN theirs
    OBVIOUS
  <2>2. ~theirs[1].cond /\ ~theirs[2].cond /\ ~theirs[3].cond
    BY <1>1, <2>1, Zenon
  <2>. QED
    BY <2>2 DEF When
<1>4. name.refused # {}
  <2>1. DOMAIN ours = 1 .. 4
    OBVIOUS
  <2>2. ours[1].cond \/ ours[2].cond \/ ours[3].cond \/ ours[4].cond
    <3>. HIDE DEF ours
    <3>. QED
      BY <1>2, <2>1
  <2>. QED
    BY <1>3, <2>2 DEF When
<1>. QED
  BY <1>3, <1>4 DEF DriveBehindWide

\* The archive took the name of every entry, and one the manifest did not take
\* is among them when the send ends there.
NamesTaken ==
    /\ \A i \in DOMAIN pack.entries : ValidateName(NameOf[pack.entries[i].name]) = "Ok"
    /\ pack.pc = "undescribed" =>
           \E i \in DOMAIN pack.entries : ~Describable(NameOf[pack.entries[i].name])

LEMMA NamesTakenKept ==
    ASSUME ArchiveIInv, NamesTaken, [ArchiveNext]_archiveVars
    PROVE  NamesTaken'
<1>0. DOMAIN pack = {"pc", "listed", "at", "entries", "out"} /\ pack.entries \in Seq(PackEntries)
  BY DEF ArchiveIInv, ArchiveTypes
<1>1. CASE pack' = pack
  BY <1>1 DEF NamesTaken
<1>2. CASE Walk
  <2>1. \/ pack'.entries = pack.entries
        \/ \E e : /\ pack'.entries = Append(pack.entries, e)
                  /\ ValidateName(NameOf[e.name]) = "Ok"
    <3>1. CASE pack'.entries = pack.entries
      BY <3>1
    <3>2. CASE pack'.entries # pack.entries
      <4>1. /\ ValidateName(NameOf[pack.at]) = "Ok"
            /\ \E e : e.name = pack.at /\ pack' = [pack EXCEPT !.at = pack.at + 1,
                                                       !.entries = Append(pack.entries, e)]
        BY <1>0, <1>2, <3>2 DEF Walk, PackTo, sorted
      <4>. QED
        BY <1>0, <4>1
    <3>. QED
      BY <3>1, <3>2
  <2>2. pack'.pc # "undescribed"
    BY <1>0, <1>2 DEF Walk, PackTo
  <2>3. CASE pack'.entries = pack.entries
    BY <2>2, <2>3 DEF NamesTaken
  <2>4. ASSUME NEW e, pack'.entries = Append(pack.entries, e),
               ValidateName(NameOf[e.name]) = "Ok"
        PROVE  NamesTaken'
    <3>. DEFINE es == pack.entries
                fs == Append(es, e)
    <3>1. /\ DOMAIN es = 1 .. Len(es) /\ Len(es) \in Nat
          /\ DOMAIN fs = 1 .. Len(es) + 1 /\ fs[Len(es) + 1] = e
          /\ \A i \in 1 .. Len(es) : fs[i] = es[i]
      BY <1>0
    <3>2. \A i \in DOMAIN es : ValidateName(NameOf[es[i].name]) = "Ok"
      BY DEF NamesTaken
    <3>. HIDE DEF es, fs
    <3>3. \A i \in DOMAIN fs : ValidateName(NameOf[fs[i].name]) = "Ok"
      BY <2>4, <3>1, <3>2
    <3>4. pack'.entries = fs
      BY <2>4 DEF es, fs
    <3>. QED
      BY <2>2, <3>3, <3>4 DEF NamesTaken
  <2>. QED
    BY <2>1, <2>3, <2>4
<1>3. CASE WriteEntry
  <2>1. /\ DOMAIN pack'.entries = DOMAIN pack.entries
        /\ \A i \in DOMAIN pack.entries : pack'.entries[i].name = pack.entries[i].name
        /\ pack'.pc # "undescribed"
    <3>1. /\ pack.pc = "write"
          /\ \/ pack' = [pack EXCEPT !.pc = "failed"]
             \/ \E out, d : pack' = [pack EXCEPT !.at = pack.at + 1, !.out = out,
                                         !.entries[pack.at].digest = d]
      BY <1>3 DEF WriteEntry, PackTo
    <3>2. CASE pack' = [pack EXCEPT !.pc = "failed"]
      BY <1>0, <3>2
    <3>3. ASSUME NEW out, NEW d,
                 pack' = [pack EXCEPT !.at = pack.at + 1, !.out = out,
                              !.entries[pack.at].digest = d]
          PROVE  /\ pack'.pc = "write"
                 /\ pack'.entries = [pack.entries EXCEPT ![pack.at].digest = d]
      BY <1>0, <3>1, <3>3
    <3>4. \A i \in DOMAIN pack.entries : pack.entries[i] \in PackEntries
      BY <1>0
    <3>5. ASSUME NEW d, NEW i \in DOMAIN pack.entries
          PROVE  [pack.entries EXCEPT ![pack.at].digest = d][i].name = pack.entries[i].name
      BY <3>4 DEF PackEntries
    <3>6. CASE \E out, d : pack' = [pack EXCEPT !.at = pack.at + 1, !.out = out,
                                         !.entries[pack.at].digest = d]
      <4>1. PICK d : /\ pack'.entries = [pack.entries EXCEPT ![pack.at].digest = d]
                     /\ pack'.pc = "write"
        BY <3>3, <3>6
      <4>2. \A i \in DOMAIN pack.entries : pack'.entries[i].name = pack.entries[i].name
        BY <3>5, <4>1
      <4>. QED
        BY <4>1, <4>2
    <3>. QED
      BY <3>1, <3>2, <3>6
  <2>. QED
    BY <2>1 DEF NamesTaken
<1>4. CASE Collected
  <2>1. pack'.entries = pack.entries /\ pack'.pc \in {"failed", "write"}
    BY <1>0, <1>4 DEF Collected, PackTo
  <2>. QED
    BY <2>1 DEF NamesTaken
<1>5. CASE Packed
  <2>1. /\ pack'.entries = pack.entries
        /\ pack'.pc = "undescribed" =>
               \E i \in DOMAIN pack.entries : ~Describable(NameOf[pack.entries[i].name])
    BY <1>0, <1>5 DEF Packed, PackTo
  <2>. QED
    BY <2>1 DEF NamesTaken
<1>6. CASE \/ \E f \in Files, new \in FileState \cup {NoFile} : Edit(f, new) \/ Damage(f, new)
           \/ StartExtract \/ ExtractEntry \/ Publish \/ Reconcile
           \/ WalkDataset \/ CheckEntry \/ CheckExtra \/ UNCHANGED archiveVars
  <2>1. pack' = pack
    BY <1>6 DEF Edit, Damage, StartExtract, ExtractEntry, Publish, Reconcile, WalkDataset,
                CheckEntry, CheckExtra, archiveVars
  <2>. QED
    BY <1>1, <2>1
<1>. QED
  BY <1>2, <1>3, <1>4, <1>5, <1>6 DEF ArchiveNext

\* pack.ValidateName's claim, that a name it accepts is one the manifest accepts,
\* holds of every name but two kinds: those where the colon of a drive stands behind
\* a character of more than one byte, and those whose bytes are not UTF-8.  A send
\* ends undescribed for no other reason (ValidateName, entries_from, validate_name,
\* runSend).
THEOREM NamesAgreeButOdd ==
    ArchiveSpec => []((\A f \in Files : ~Odd(NameOf[f])) => NamesAgree)
<1>1. ArchiveInit => NamesTaken
  BY DEF ArchiveInit, NamesTaken
<1>2. ArchiveIInv /\ NamesTaken /\ [ArchiveNext]_archiveVars => NamesTaken'
  BY NamesTakenKept
<1>3. ArchiveIInv /\ NamesTaken => ((\A f \in Files : ~Odd(NameOf[f])) => NamesAgree)
  <2>. SUFFICES ASSUME ArchiveIInv, NamesTaken, pack.pc = "undescribed"
                PROVE  \E f \in Files : Odd(NameOf[f])
    BY DEF NamesAgree
  <2>1. PICK i \in DOMAIN pack.entries : ~Describable(NameOf[pack.entries[i].name])
    BY DEF NamesTaken
  <2>2. pack.entries[i] \in PackEntries
    BY DEF ArchiveIInv, ArchiveTypes
  <2>3. pack.entries[i].name \in Files
    BY <2>2 DEF PackEntries
  <2>4. NameOf[pack.entries[i].name].wide \in BOOLEAN
    BY <2>3, ArchiveAssumption
  <2>5. ValidateName(NameOf[pack.entries[i].name]) = "Ok"
    BY DEF NamesTaken
  <2>6. CASE validate_name(NameOf[pack.entries[i].name]) # "Ok"
    BY <2>3, <2>4, <2>5, <2>6, NamesCompared DEF Odd
  <2>7. CASE ~NameOf[pack.entries[i].name].utf8
    BY <2>3, <2>7 DEF Odd
  <2>. QED
    BY <2>1, <2>6, <2>7 DEF Describable
<1>. QED
  BY <1>1, <1>2, <1>3, ArchiveInvariant, PTL DEF ArchiveSpec

\* The dataset's file is as the entry says.
AsEntered(e) ==
    /\ Regular(dataset, e.name)
    /\ dataset[e.name].body = e.digest
    /\ dataset[e.name].executable = e.executable

\* The problems of one entry, when the walk and the reading see the same file.
LEMMA ProblemsExact ==
    ASSUME NEW e \in PackEntries, Len(e.digest) = e.size, dataset \in [Files -> AnyFile]
    PROVE  /\ Problems(e, Found(e.name), dataset[e.name]) = {} <=> AsEntered(e)
           /\ Regular(dataset, e.name) /\ Len(dataset[e.name].body) = e.size
                /\ dataset[e.name].body # e.digest =>
                     "content" \in Problems(e, Found(e.name), dataset[e.name])
<1>. DEFINE d == dataset[e.name]
            P == Problems(e, Found(e.name), d)
<1>1. e.name \in Files /\ d \in AnyFile
  BY DEF PackEntries
<1>2. d.kind = "regular" => d # NoFile
  BY <1>1, FileFields
<1>3. CASE ~Regular(dataset, e.name)
  <2>1. Found(e.name) = NoFile
    BY <1>3 DEF Found
  <2>2. P = {"missing"}
    BY <2>1 DEF Problems
  <2>. QED
    BY <1>3, <2>2 DEF AsEntered
<1>4. CASE Regular(dataset, e.name)
  <2>1. Found(e.name) = d /\ d # NoFile
    BY <1>2, <1>4 DEF Found, Regular
  <2>2. CASE Len(d.body) # e.size
    <3>1. P = {"size"}
      BY <2>1, <2>2 DEF Problems
    <3>2. d.body # e.digest
      BY <2>2
    <3>. QED
      BY <2>2, <3>1, <3>2 DEF AsEntered
  <2>3. CASE Len(d.body) = e.size
    <3>1. P = (IF d.executable # e.executable THEN {"mode"} ELSE {})
              \cup (IF d.body # e.digest THEN {"content"} ELSE {})
      BY <2>1, <2>3 DEF Problems
    <3>. QED
      BY <1>4, <3>1 DEF AsEntered
  <2>. QED
    BY <2>2, <2>3
<1>. QED
  BY <1>3, <1>4

\* What verify's report says, when nothing changed meanwhile.
LEMMA ReportExact ==
    ASSUME ArchiveIInv, verify.pc = "done", verify.quiet
    PROVE  /\ damages = 0 => verify.problems = {}
           /\ {p[1] : p \in verify.problems} = {f \in Files : ~SameAsSent(f)}
           /\ \A i \in DOMAIN pack.entries :
                  Regular(dataset, pack.entries[i].name)
                  /\ Len(dataset[pack.entries[i].name].body) = pack.entries[i].size
                  /\ dataset[pack.entries[i].name].body # pack.entries[i].digest
                      => <<pack.entries[i].name, "content">> \in verify.problems
<1>. DEFINE es == pack.entries
            n == Len(es)
            P(i) == Problems(es[i], Found(es[i].name), dataset[es[i].name])
<1>1. /\ recv.pc = "received" /\ pack.pc = "sent" /\ es \in Seq(PackEntries) /\ n \in Nat
      /\ DOMAIN es = 1 .. n /\ dataset \in [Files -> AnyFile] /\ pack.at = n + 1
      /\ Len(recv.entries) = n
  BY DEF ArchiveIInv, ArchiveTypes, PublishedIsStaged, PackOrder, StagedIsPacked
<1>2. \A i \in 1 .. n : es[i] \in PackEntries
  BY <1>1
<1>3. \A i \in 1 .. n : es[i].name \in Files
  BY <1>2 DEF PackEntries
<1>4. \A i \in 1 .. n : Len(es[i].digest) = es[i].size
  <2>1. PICK pos \in [1 .. pack.at -> 0 .. Len(pack.out)] :
            Laid(pos, pack.at, pack.entries, pack.out)
    BY <1>1 DEF ArchiveIInv, OffsetLaid
  <2>2. pack.at - 1 = n
    BY <1>1
  <2>3. \A i \in 1 .. n : LaidEntry(es[i], pos[i], pos[i + 1], pack.out)
    BY <2>1, <2>2 DEF Laid
  <2>. QED
    BY <2>3 DEF LaidEntry
<1>5. \A i \in 1 .. n : /\ P(i) = {} <=> AsEntered(es[i])
                        /\ Regular(dataset, es[i].name) /\ Len(dataset[es[i].name].body) = es[i].size
                             /\ dataset[es[i].name].body # es[i].digest => "content" \in P(i)
  BY <1>1, <1>2, <1>4, ProblemsExact
<1>6. \A i, j \in 1 .. n : es[i].name = es[j].name => i = j
  BY <1>1 DEF ArchiveIInv, NamesOnce
<1>7. /\ \A f \in Files : f \in Expected <=> \E i \in 1 .. n : es[i].name = f
      /\ \A i \in 1 .. n : es[i].name \in Expected
  BY <1>1 DEF Expected
<1>8. \A x : Named(n + 1, x) <=> \E i \in 1 .. n : \E p \in P(i) : x = <<es[i].name, p>>
  <2>1. (n + 1) - 1 = n
    BY <1>1
  <2>. QED
    BY <2>1 DEF Named
<1>. HIDE DEF P
<1>9. \A x : x \in verify.problems <=>
          \/ \E i \in 1 .. n : \E p \in P(i) : x = <<es[i].name, p>>
          \/ \E f \in Files \ Expected : Found(f) # NoFile /\ x = <<f, "unexpected">>
  <2>1. \A x : x \in verify.problems <=> Named(n + 1, x) \/ Extra(x)
    BY DEF ArchiveIInv, NamedSoFar
  <2>2. \A x : Extra(x) <=> \E f \in Files \ Expected : Found(f) # NoFile /\ x = <<f, "unexpected">>
    BY DEF Extra
  <2>. QED
    BY <1>8, <2>1, <2>2, Zenon
<1>10. \A f \in Files : Found(f) # NoFile <=> Regular(dataset, f)
  <2>1. \A f \in Files : dataset[f] \in AnyFile
    BY <1>1
  <2>2. \A f \in Files : Regular(dataset, f) => dataset[f] # NoFile
    BY <2>1, FileFields DEF Regular
  <2>. QED
    BY <2>2 DEF Found
<1>11. damages = 0 => verify.problems = {}
  <2>. SUFFICES ASSUME damages = 0 PROVE verify.problems = {}
    OBVIOUS
  <2>1. dataset = recv.staged
    BY <1>1 DEF ArchiveIInv, PublishedIsStaged
  <2>2. \A i \in 1 .. n : AsEntered(es[i])
    <3>. SUFFICES ASSUME NEW i \in 1 .. n PROVE AsEntered(es[i])
      OBVIOUS
    <3>1. dataset[es[i].name] = Delivered(i)
      BY <1>1, <2>1 DEF ArchiveIInv, StagedIsPacked
    <3>2. Delivered(i) = [kind |-> "regular", body |-> es[i].digest, executable |-> es[i].executable]
      BY DEF Delivered, writeFile, EntryHead
    <3>. QED
      BY <3>1, <3>2 DEF AsEntered, Regular
  <2>3. \A i \in 1 .. n : P(i) = {}
    BY <1>5, <2>2
  <2>4. \A f \in Files \ Expected : Found(f) = NoFile
    <3>1. \A f \in Files \ Expected : recv.staged[f] = NoFile
      BY <1>1, <1>7 DEF ArchiveIInv, StagedIsPacked
    <3>. QED
      BY <2>1, <3>1 DEF Found
  <2>. QED
    BY <1>9, <2>3, <2>4
<1>12. \A i \in 1 .. n : SameAsSent(es[i].name) <=> AsEntered(es[i])
  <2>. SUFFICES ASSUME NEW i \in 1 .. n PROVE SameAsSent(es[i].name) <=> AsEntered(es[i])
    OBVIOUS
  <2>1. SameAsSent(es[i].name) <=>
            Regular(dataset, es[i].name) /\ \E j \in 1 .. n :
                /\ es[j].name = es[i].name
                /\ dataset[es[i].name].body = es[j].digest
                /\ dataset[es[i].name].executable = es[j].executable
    BY <1>1, <1>7 DEF SameAsSent
  <2>. QED
    BY <1>6, <2>1 DEF AsEntered
<1>13. \A f \in Files \ Expected : SameAsSent(f) <=> ~Regular(dataset, f)
  BY DEF SameAsSent
<1>14. ASSUME NEW x \in verify.problems
       PROVE  x[1] \in Files /\ ~SameAsSent(x[1])
  <2>1. CASE \E i \in 1 .. n : \E p \in P(i) : x = <<es[i].name, p>>
    <3>1. PICK i \in 1 .. n : \E p \in P(i) : x = <<es[i].name, p>>
      BY <2>1
    <3>2. PICK p \in P(i) : x = <<es[i].name, p>>
      BY <3>1
    <3>3. x[1] = es[i].name /\ P(i) # {}
      BY <3>2
    <3>. QED
      BY <1>3, <1>5, <1>12, <3>3
  <2>2. CASE \E f \in Files \ Expected : Found(f) # NoFile /\ x = <<f, "unexpected">>
    <3>1. PICK f \in Files \ Expected : Found(f) # NoFile /\ x = <<f, "unexpected">>
      BY <2>2
    <3>2. x[1] = f
      BY <3>1
    <3>. QED
      BY <1>10, <1>13, <3>1, <3>2
  <2>. QED
    BY <1>9, <2>1, <2>2
<1>15. ASSUME NEW f \in Files, ~SameAsSent(f)
       PROVE  \E x \in verify.problems : f = x[1]
  <2>1. CASE f \in Expected
    <3>1. PICK i \in 1 .. n : es[i].name = f
      BY <1>7, <2>1
    <3>2. PICK p : p \in P(i)
      BY <1>5, <1>12, <1>15, <3>1
    <3>3. <<f, p>> \in verify.problems /\ f = <<f, p>>[1]
      BY <1>9, <3>1, <3>2
    <3>. QED
      BY <3>3
  <2>2. CASE f \notin Expected
    <3>1. <<f, "unexpected">> \in verify.problems /\ f = <<f, "unexpected">>[1]
      BY <1>9, <1>10, <1>13, <1>15, <2>2
    <3>. QED
      BY <3>1
  <2>. QED
    BY <2>1, <2>2
<1>16. {p[1] : p \in verify.problems} = {f \in Files : ~SameAsSent(f)}
  BY <1>14, <1>15
<1>17. ASSUME NEW i \in DOMAIN pack.entries, Regular(dataset, es[i].name),
              Len(dataset[es[i].name].body) = es[i].size,
              dataset[es[i].name].body # es[i].digest
       PROVE  <<es[i].name, "content">> \in verify.problems
  <2>1. i \in 1 .. n /\ "content" \in P(i)
    BY <1>1, <1>5, <1>17
  <2>. QED
    BY <1>9, <2>1
<1>. QED
  BY <1>11, <1>16, <1>17

\* verify reports nothing of a dataset nobody touched, and otherwise names exactly
\* the files that differ, with wrong contents whatever the mode (inspectDataset).
THEOREM VerifyExact == ArchiveSpec => []VerifyNamesAll
<1>1. ArchiveIInv => VerifyNamesAll
  BY ReportExact DEF VerifyNamesAll
<1>. QED
  BY <1>1, ArchiveInvariant, PTL

-----------------------------------------------------------------------------
(***************************************************************************)
(* The formats read from outside.  What is written is taken, and the first  *)
(* change is refused or says the same; after any number of changes the MAC  *)
(* of a frame is still the sender's, or no MAC.                             *)
(***************************************************************************)

\* A frame, a session header and a resume file as they are written.
IsFrame(m) ==
    /\ DOMAIN m = {"kind", "short", "magic", "version", "frame_type", "reserved", "session_id",
                   "block_index", "symbol_index", "payload_length", "crc32c", "payload", "mac"}
    /\ m.kind = "frame" /\ (m.short <=> FALSE) /\ m.short \in BOOLEAN /\ m.magic = 0
    /\ m.version = 1 /\ m.frame_type \in 0 .. 2 /\ m.reserved = 0 /\ m.payload \in Payloads
    /\ m.payload_length = Len(m.payload) /\ m.crc32c = m.payload
    /\ m.mac = compute_mac(m, SessionKey)

IsSession(m) ==
    /\ DOMAIN m = {"kind", "short", "magic", "version", "reserved1", "session_id", "params",
                   "reserved2", "crc32c"}
    /\ m.kind = "session" /\ (m.short <=> FALSE) /\ m.short \in BOOLEAN /\ m.magic = 0
    /\ m.version = 1 /\ m.reserved1 = 0 /\ m.reserved2 = 0 /\ m.crc32c = SessionCrc(m)

\* A block entry, written for a bitmap of count symbols.
IsEntry(e, index, count) ==
    /\ DOMAIN e = {"block_index", "symbol_count", "symbols_held", "bitmap", "bytes"}
    /\ e.block_index = index /\ e.symbol_count = count /\ e.bitmap \subseteq 0 .. count - 1
    /\ e.symbols_held = Cardinality(e.bitmap) /\ e.bytes = bitmap_bytes(count)

IsResume(m) ==
    /\ DOMAIN m = {"kind", "short", "magic", "version", "reserved1", "session_id", "block_count",
                   "journal_bytes", "journal_digest", "reserved2", "crc32c",
                   "integrity_digest", "entries"}
    /\ m.kind = "resume" /\ (m.short <=> FALSE) /\ m.short \in BOOLEAN /\ m.magic = 0
    /\ m.version = 2 /\ m.reserved1 = 0 /\ m.reserved2 = 0 /\ m.block_count = 2
    /\ m.crc32c = ResumeCrc(m) /\ m.integrity_digest = ResumeDigest(m)
    /\ m.entries = [i \in 1 .. 2 |-> m.entries[i]]
    /\ \E count \in SymbolCounts : \A i \in 1 .. 2 : IsEntry(m.entries[i], i - 1, count)

LEMMA FramesWritten ==
    ASSUME NEW m \in WrittenFrames
    PROVE  IsFrame(m)
<1>1. PICK t \in 0 .. 2, s \in {1, 2}, b \in {0, 1}, p \in Payloads :
          m = BuildFrame(FrameHeader(t, s, b, 0, p), SessionKey)
  BY DEF WrittenFrames
<1>. DEFINE h == FrameHeader(t, s, b, 0, p)
            c == compute_mac(h, SessionKey)
<1>2. /\ DOMAIN h = {"kind", "short", "magic", "version", "frame_type", "reserved", "session_id",
                   "block_index", "symbol_index", "payload_length", "crc32c", "payload", "mac"}
      /\ h.kind = "frame" /\ (h.short <=> FALSE) /\ h.short \in BOOLEAN /\ h.magic = 0
      /\ h.version = 1 /\ h.frame_type = t /\ h.reserved = 0 /\ h.payload = p
      /\ h.payload_length = Len(p) /\ h.crc32c = p
  BY DEF FrameHeader
<1>3. m = [h EXCEPT !.mac = c]
  BY <1>1 DEF BuildFrame
<1>. HIDE DEF h, c
<1>4. /\ DOMAIN m = DOMAIN h /\ m.mac = c /\ m.kind = h.kind /\ m.short = h.short
      /\ m.magic = h.magic /\ m.version = h.version /\ m.frame_type = h.frame_type
      /\ m.reserved = h.reserved /\ m.session_id = h.session_id
      /\ m.block_index = h.block_index /\ m.symbol_index = h.symbol_index
      /\ m.payload_length = h.payload_length /\ m.crc32c = h.crc32c /\ m.payload = h.payload
  BY <1>2, <1>3
<1>5. c = compute_mac(m, SessionKey)
  BY <1>4 DEF compute_mac, c
<1>. QED
  BY <1>2, <1>4, <1>5 DEF IsFrame

LEMMA SessionsWritten ==
    ASSUME NEW m \in WrittenSessions
    PROVE  IsSession(m)
<1>1. PICK s \in {1, 2}, p \in {1, 2} : m = SessionHeader(s, p)
  BY DEF WrittenSessions
<1>. DEFINE h == [kind |-> "session", short |-> FALSE, magic |-> 0, version |-> 1,
                  reserved1 |-> 0, session_id |-> s, params |-> p, reserved2 |-> 0,
                  crc32c |-> <<>>]
            c == SessionCrc(h)
<1>2. /\ DOMAIN h = {"kind", "short", "magic", "version", "reserved1", "session_id", "params",
                     "reserved2", "crc32c"}
      /\ h.kind = "session" /\ (h.short <=> FALSE) /\ h.short \in BOOLEAN /\ h.magic = 0
      /\ h.version = 1 /\ h.reserved1 = 0 /\ h.reserved2 = 0
  OBVIOUS
<1>3. m = [h EXCEPT !.crc32c = c]
  BY <1>1 DEF SessionHeader
<1>. HIDE DEF h, c
<1>4. /\ DOMAIN m = DOMAIN h /\ m.crc32c = c /\ m.kind = h.kind /\ m.short = h.short
      /\ m.magic = h.magic /\ m.version = h.version /\ m.reserved1 = h.reserved1
      /\ m.session_id = h.session_id /\ m.params = h.params /\ m.reserved2 = h.reserved2
  BY <1>2, <1>3
<1>5. c = SessionCrc(m)
  BY <1>4 DEF SessionCrc, c
<1>. QED
  BY <1>2, <1>4, <1>5 DEF IsSession

LEMMA ResumesWritten ==
    ASSUME NEW m \in WrittenResumes
    PROVE  IsResume(m)
<1>1. PICK count \in SymbolCounts : m \in ResumesOf(count)
  BY DEF WrittenResumes
<1>2. PICK s \in {1, 2}, n \in {0, 1}, held \in [1 .. 2 -> SUBSET (0 .. count - 1)] :
          m = ResumeFile(s, n, n, count, held)
  BY <1>1 DEF ResumesOf
<1>. DEFINE es == [i \in 1 .. 2 |-> BlockEntry(i - 1, count, held[i])]
            h == [kind |-> "resume", short |-> FALSE, magic |-> 0, version |-> 2,
                  reserved1 |-> 0, session_id |-> s, block_count |-> 2, journal_bytes |-> n,
                  journal_digest |-> n, reserved2 |-> 0, crc32c |-> <<>>,
                  integrity_digest |-> <<>>, entries |-> es]
            sum == ResumeCrc(h)
            c == [h EXCEPT !.crc32c = sum]
            digest == ResumeDigest(c)
<1>3. Len(held) = 2
  OBVIOUS
<1>4. m = [c EXCEPT !.integrity_digest = digest]
  BY <1>2, <1>3 DEF ResumeFile
<1>5. ASSUME NEW i \in 1 .. 2 PROVE IsEntry(es[i], i - 1, count)
  <2>. DEFINE bits == held[i]
  <2>1. bits \subseteq 0 .. count - 1 /\ es[i] = BlockEntry(i - 1, count, bits)
    OBVIOUS
  <2>. HIDE DEF bits, es
  <2>. QED
    BY <2>1 DEF IsEntry, BlockEntry
<1>6. es = [i \in 1 .. 2 |-> es[i]]
  OBVIOUS
<1>. HIDE DEF es
<1>7. /\ DOMAIN h = {"kind", "short", "magic", "version", "reserved1", "session_id",
                     "block_count", "journal_bytes", "journal_digest", "reserved2", "crc32c",
                     "integrity_digest", "entries"}
      /\ h.kind = "resume" /\ (h.short <=> FALSE) /\ h.short \in BOOLEAN /\ h.magic = 0
      /\ h.version = 2 /\ h.reserved1 = 0 /\ h.reserved2 = 0 /\ h.block_count = 2
      /\ h.entries = es
  OBVIOUS
<1>. HIDE DEF h, sum, digest
<1>8. /\ DOMAIN c = DOMAIN h /\ c.crc32c = sum /\ c.kind = h.kind /\ c.short = h.short
      /\ c.magic = h.magic /\ c.version = h.version /\ c.reserved1 = h.reserved1
      /\ c.session_id = h.session_id /\ c.block_count = h.block_count
      /\ c.journal_bytes = h.journal_bytes /\ c.journal_digest = h.journal_digest
      /\ c.reserved2 = h.reserved2 /\ c.entries = h.entries
  BY <1>7
<1>. HIDE DEF c
<1>9. /\ DOMAIN m = DOMAIN h /\ m.integrity_digest = digest /\ m.crc32c = c.crc32c
      /\ m.kind = c.kind /\ m.short = c.short
      /\ m.magic = c.magic /\ m.version = c.version /\ m.reserved1 = c.reserved1
      /\ m.session_id = c.session_id /\ m.block_count = c.block_count
      /\ m.journal_bytes = c.journal_bytes /\ m.journal_digest = c.journal_digest
      /\ m.reserved2 = c.reserved2 /\ m.entries = c.entries
  BY <1>4, <1>7, <1>8
<1>10. ResumeCrc(m) = sum /\ ResumeCrc(c) = sum
  BY <1>8, <1>9 DEF ResumeCrc, sum
<1>11. ResumeDigest(m) = digest
  BY <1>8, <1>9, <1>10 DEF ResumeDigest, digest
<1>12. m.entries = es /\ m.crc32c = sum
  BY <1>7, <1>8, <1>9
<1>. QED
  BY <1>5, <1>6, <1>7, <1>8, <1>9, <1>10, <1>11, <1>12 DEF IsResume

\* What a frame is taken for.
LEMMA FrameExact ==
    ASSUME NEW f, f.short \in BOOLEAN
    PROVE  FrameError(f) = "Ok" <=>
              /\ ~(f.short)
              /\ ~(f.magic # 0)
              /\ ~(f.version # 1)
              /\ ~(f.frame_type \notin 0 .. 2)
              /\ ~(f.reserved # 0)
              /\ ~(f.mac # compute_mac(f, SessionKey))
              /\ ~(Len(f.payload) < f.payload_length)
              /\ ~(f.crc32c # Carried(f))
<1>. DEFINE a1 == f.short
            a2 == f.magic # 0
            a3 == f.version # 1
            a4 == f.frame_type \notin 0 .. 2
            a5 == f.reserved # 0
            a6 == f.mac # compute_mac(f, SessionKey)
            a7 == Len(f.payload) < f.payload_length
            a8 == f.crc32c # Carried(f)
            c == <<When(a1, "HeaderTooShort"),
                   When(a2, "InvalidMagic"),
                   When(a3, "UnsupportedVersion"),
                   When(a4, "UnknownFrameType"),
                   When(a5, "ReservedFieldNonZero"),
                   When(a6, "MacVerificationFailed"),
                   When(a7, "Truncated"),
                   When(a8, "CrcMismatch")>>
<1>1. FrameError(f) = FirstError(c, "Ok")
  BY DEF FrameError
<1>2. /\ a1 \in BOOLEAN
      /\ a2 \in BOOLEAN
      /\ a3 \in BOOLEAN
      /\ a4 \in BOOLEAN
      /\ a5 \in BOOLEAN
      /\ a6 \in BOOLEAN
      /\ a7 \in BOOLEAN
      /\ a8 \in BOOLEAN
  OBVIOUS
<1>3. DOMAIN c = {1, 2, 3, 4, 5, 6, 7, 8} /\ DOMAIN c \subseteq Nat
  OBVIOUS
<1>. HIDE DEF a1, a2, a3, a4, a5, a6, a7, a8
<1>4. /\ (c[1].cond <=> a1) /\ c[1].error = "HeaderTooShort"
      /\ (c[2].cond <=> a2) /\ c[2].error = "InvalidMagic"
      /\ (c[3].cond <=> a3) /\ c[3].error = "UnsupportedVersion"
      /\ (c[4].cond <=> a4) /\ c[4].error = "UnknownFrameType"
      /\ (c[5].cond <=> a5) /\ c[5].error = "ReservedFieldNonZero"
      /\ (c[6].cond <=> a6) /\ c[6].error = "MacVerificationFailed"
      /\ (c[7].cond <=> a7) /\ c[7].error = "Truncated"
      /\ (c[8].cond <=> a8) /\ c[8].error = "CrcMismatch"
  BY <1>2, WhenFields
<1>. HIDE DEF c
<1>5. Range(c) = {c[1], c[2], c[3], c[4], c[5], c[6], c[7], c[8]}
  BY <1>3 DEF Range
<1>6. FirstError(c, "Ok") = "Ok" <=> \A x \in Range(c) : ~x.cond
  <2>1. \A x \in Range(c) : x.cond => x.error # "Ok"
    BY <1>4, <1>5
  <2>. QED
    BY <1>3, <2>1, OkIffQuiet
<1>7. FrameError(f) = "Ok" <=> ~a1 /\ ~a2 /\ ~a3 /\ ~a4 /\ ~a5 /\ ~a6 /\ ~a7 /\ ~a8
  BY <1>1, <1>4, <1>5, <1>6
<1>. QED
  BY <1>7 DEF a1, a2, a3, a4, a5, a6, a7, a8

\* What a session header is taken for.
LEMMA SessionExact ==
    ASSUME NEW h, h.short \in BOOLEAN
    PROVE  SessionError(h) = "Ok" <=>
              /\ ~(h.short)
              /\ ~(h.magic # 0)
              /\ ~(h.version # 1)
              /\ ~(h.reserved1 # 0)
              /\ ~(h.reserved2 # 0)
              /\ ~(h.crc32c # SessionCrc(h))
<1>. DEFINE a1 == h.short
            a2 == h.magic # 0
            a3 == h.version # 1
            a4 == h.reserved1 # 0
            a5 == h.reserved2 # 0
            a6 == h.crc32c # SessionCrc(h)
            c == <<When(a1, "too short"),
                   When(a2, "magic"),
                   When(a3, "version"),
                   When(a4, "reserved"),
                   When(a5, "reserved 2"),
                   When(a6, "crc")>>
<1>1. SessionError(h) = FirstError(c, "Ok")
  BY DEF SessionError
<1>2. /\ a1 \in BOOLEAN
      /\ a2 \in BOOLEAN
      /\ a3 \in BOOLEAN
      /\ a4 \in BOOLEAN
      /\ a5 \in BOOLEAN
      /\ a6 \in BOOLEAN
  OBVIOUS
<1>3. DOMAIN c = {1, 2, 3, 4, 5, 6} /\ DOMAIN c \subseteq Nat
  OBVIOUS
<1>. HIDE DEF a1, a2, a3, a4, a5, a6
<1>4. /\ (c[1].cond <=> a1) /\ c[1].error = "too short"
      /\ (c[2].cond <=> a2) /\ c[2].error = "magic"
      /\ (c[3].cond <=> a3) /\ c[3].error = "version"
      /\ (c[4].cond <=> a4) /\ c[4].error = "reserved"
      /\ (c[5].cond <=> a5) /\ c[5].error = "reserved 2"
      /\ (c[6].cond <=> a6) /\ c[6].error = "crc"
  BY <1>2, WhenFields
<1>. HIDE DEF c
<1>5. Range(c) = {c[1], c[2], c[3], c[4], c[5], c[6]}
  BY <1>3 DEF Range
<1>6. FirstError(c, "Ok") = "Ok" <=> \A x \in Range(c) : ~x.cond
  <2>1. \A x \in Range(c) : x.cond => x.error # "Ok"
    BY <1>4, <1>5
  <2>. QED
    BY <1>3, <2>1, OkIffQuiet
<1>7. SessionError(h) = "Ok" <=> ~a1 /\ ~a2 /\ ~a3 /\ ~a4 /\ ~a5 /\ ~a6
  BY <1>1, <1>4, <1>5, <1>6
<1>. QED
  BY <1>7 DEF a1, a2, a3, a4, a5, a6

\* What the header of a resume file is taken for.
LEMMA ResumeHeaderExact ==
    ASSUME NEW h, h.short \in BOOLEAN
    PROVE  ResumeHeaderError(h) = "Ok" <=>
              /\ ~(h.short)
              /\ ~(h.magic # 0)
              /\ ~(h.version # 2)
              /\ ~(h.reserved1 # 0)
              /\ ~(h.reserved2 # 0)
              /\ ~(h.crc32c # ResumeCrc(h))
              /\ ~(h.integrity_digest # ResumeDigest(h))
<1>. DEFINE a1 == h.short
            a2 == h.magic # 0
            a3 == h.version # 2
            a4 == h.reserved1 # 0
            a5 == h.reserved2 # 0
            a6 == h.crc32c # ResumeCrc(h)
            a7 == h.integrity_digest # ResumeDigest(h)
            c == <<When(a1, "Truncated"),
                   When(a2, "InvalidMagic"),
                   When(a3, "UnsupportedVersion"),
                   When(a4, "ReservedNotZero"),
                   When(a5, "ReservedNotZero"),
                   When(a6, "IntegrityCheckFailed"),
                   When(a7, "IntegrityCheckFailed")>>
<1>1. ResumeHeaderError(h) = FirstError(c, "Ok")
  BY DEF ResumeHeaderError
<1>2. /\ a1 \in BOOLEAN
      /\ a2 \in BOOLEAN
      /\ a3 \in BOOLEAN
      /\ a4 \in BOOLEAN
      /\ a5 \in BOOLEAN
      /\ a6 \in BOOLEAN
      /\ a7 \in BOOLEAN
  OBVIOUS
<1>3. DOMAIN c = {1, 2, 3, 4, 5, 6, 7} /\ DOMAIN c \subseteq Nat
  OBVIOUS
<1>. HIDE DEF a1, a2, a3, a4, a5, a6, a7
<1>4. /\ (c[1].cond <=> a1) /\ c[1].error = "Truncated"
      /\ (c[2].cond <=> a2) /\ c[2].error = "InvalidMagic"
      /\ (c[3].cond <=> a3) /\ c[3].error = "UnsupportedVersion"
      /\ (c[4].cond <=> a4) /\ c[4].error = "ReservedNotZero"
      /\ (c[5].cond <=> a5) /\ c[5].error = "ReservedNotZero"
      /\ (c[6].cond <=> a6) /\ c[6].error = "IntegrityCheckFailed"
      /\ (c[7].cond <=> a7) /\ c[7].error = "IntegrityCheckFailed"
  BY <1>2, WhenFields
<1>. HIDE DEF c
<1>5. Range(c) = {c[1], c[2], c[3], c[4], c[5], c[6], c[7]}
  BY <1>3 DEF Range
<1>6. FirstError(c, "Ok") = "Ok" <=> \A x \in Range(c) : ~x.cond
  <2>1. \A x \in Range(c) : x.cond => x.error # "Ok"
    BY <1>4, <1>5
  <2>. QED
    BY <1>3, <2>1, OkIffQuiet
<1>7. ResumeHeaderError(h) = "Ok" <=> ~a1 /\ ~a2 /\ ~a3 /\ ~a4 /\ ~a5 /\ ~a6 /\ ~a7
  BY <1>1, <1>4, <1>5, <1>6
<1>. QED
  BY <1>7 DEF a1, a2, a3, a4, a5, a6, a7

\* What a block entry is taken for.
LEMMA BlockEntryExact ==
    ASSUME NEW e, NEW index
    PROVE  BlockEntryError(e, index) = "Ok" <=>
              /\ ~(e.symbols_held > e.symbol_count)
              /\ ~(bitmap_bytes(e.symbol_count) # e.bytes)
              /\ ~(Cardinality(e.bitmap) # e.symbols_held)
              /\ ~(\E bit \in e.bitmap : bit >= e.symbol_count)
              /\ ~(e.block_index # index)
<1>. DEFINE a1 == e.symbols_held > e.symbol_count
            a2 == bitmap_bytes(e.symbol_count) # e.bytes
            a3 == Cardinality(e.bitmap) # e.symbols_held
            a4 == \E bit \in e.bitmap : bit >= e.symbol_count
            a5 == e.block_index # index
            c == <<When(a1, "InvalidSymbolCount"),
                   When(a2, "Truncated"),
                   When(a3, "HeldCountMismatch"),
                   When(a4, "InvalidSymbolCount"),
                   When(a5, "BlockIndexOutOfRange")>>
<1>1. BlockEntryError(e, index) = FirstError(c, "Ok")
  BY DEF BlockEntryError
<1>2. /\ a1 \in BOOLEAN
      /\ a2 \in BOOLEAN
      /\ a3 \in BOOLEAN
      /\ a4 \in BOOLEAN
      /\ a5 \in BOOLEAN
  OBVIOUS
<1>3. DOMAIN c = {1, 2, 3, 4, 5} /\ DOMAIN c \subseteq Nat
  OBVIOUS
<1>. HIDE DEF a1, a2, a3, a4, a5
<1>4. /\ (c[1].cond <=> a1) /\ c[1].error = "InvalidSymbolCount"
      /\ (c[2].cond <=> a2) /\ c[2].error = "Truncated"
      /\ (c[3].cond <=> a3) /\ c[3].error = "HeldCountMismatch"
      /\ (c[4].cond <=> a4) /\ c[4].error = "InvalidSymbolCount"
      /\ (c[5].cond <=> a5) /\ c[5].error = "BlockIndexOutOfRange"
  BY <1>2, WhenFields
<1>. HIDE DEF c
<1>5. Range(c) = {c[1], c[2], c[3], c[4], c[5]}
  BY <1>3 DEF Range
<1>6. FirstError(c, "Ok") = "Ok" <=> \A x \in Range(c) : ~x.cond
  <2>1. \A x \in Range(c) : x.cond => x.error # "Ok"
    BY <1>4, <1>5
  <2>. QED
    BY <1>3, <2>1, OkIffQuiet
<1>7. BlockEntryError(e, index) = "Ok" <=> ~a1 /\ ~a2 /\ ~a3 /\ ~a4 /\ ~a5
  BY <1>1, <1>4, <1>5, <1>6
<1>. QED
  BY <1>7 DEF a1, a2, a3, a4, a5

\* A frame is taken as it is written, with its payload.
LEMMA FrameTaken ==
    ASSUME NEW w, IsFrame(w)
    PROVE  FrameError(w) = "Ok" /\ Carried(w) = w.payload
<1>. DEFINE p == w.payload
<1>1. p \in Seq(Range(p)) /\ Len(p) \in Nat
  BY WireAssumption DEF IsFrame
<1>2. SubSeq(p, 1, Len(p)) = p
  <2>. DEFINE T == Range(p)
  <2>1. p \in Seq(T)
    BY <1>1
  <2>. HIDE DEF T, p
  <2>. QED
    BY <2>1
<1>3. Carried(w) = p
  BY <1>1, <1>2 DEF Carried, IsFrame
<1>. QED
  BY <1>1, <1>3, FrameExact DEF IsFrame

LEMMA SessionTaken ==
    ASSUME NEW w, IsSession(w)
    PROVE  SessionError(w) = "Ok"
  BY SessionExact DEF IsSession

\* No number in a frame is changed without its being refused.
LEMMA FrameNumber ==
    ASSUME NEW w, IsFrame(w), NEW x \in Numbers(w), NEW v, v # w[x],
           NEW m, m = [w EXCEPT ![x] = v]
    PROVE  FrameError(m) # "Ok"
<1>1. x \in {"magic", "version", "frame_type", "reserved", "session_id", "block_index",
             "symbol_index", "payload_length"}
  BY DEF IsFrame, Numbers
<1>2. /\ DOMAIN m = DOMAIN w /\ m[x] = v /\ \A y \in DOMAIN w : y # x => m[y] = w[y]
      /\ m.short = w.short /\ m.mac = w.mac /\ x \in DOMAIN w
  BY <1>1 DEF IsFrame
<1>5. m.short \in BOOLEAN
  BY <1>2 DEF IsFrame
<1>6. FrameError(m) = "Ok" => /\ m.magic = 0 /\ m.version = 1 /\ m.reserved = 0
                             /\ m.mac = compute_mac(m, SessionKey)
  BY ONLY <1>5, FrameExact
<1>3. CASE x \in {"magic", "version", "reserved"}
  <2>1. x = "magic" => m.magic # 0
    BY <1>2 DEF IsFrame
  <2>2. x = "version" => m.version # 1
    BY <1>2 DEF IsFrame
  <2>3. x = "reserved" => m.reserved # 0
    BY <1>2 DEF IsFrame
  <2>. QED
    BY <1>3, <1>6, <2>1, <2>2, <2>3
<1>4. CASE x \in {"frame_type", "session_id", "block_index", "symbol_index", "payload_length"}
  <2>1. compute_mac(m, SessionKey) # compute_mac(w, SessionKey)
    BY <1>2, <1>4 DEF compute_mac
  <2>. QED
    BY <1>2, <1>6, <2>1 DEF IsFrame
<1>. QED
  BY <1>1, <1>3, <1>4

LEMMA SessionNumber ==
    ASSUME NEW w, IsSession(w), NEW x \in Numbers(w), NEW v, v # w[x],
           NEW m, m = [w EXCEPT ![x] = v]
    PROVE  SessionError(m) # "Ok"
<1>1. x \in {"magic", "version", "reserved1", "session_id", "params", "reserved2"}
  BY DEF IsSession, Numbers
<1>2. /\ DOMAIN m = DOMAIN w /\ m[x] = v /\ \A y \in DOMAIN w : y # x => m[y] = w[y]
      /\ m.short = w.short /\ m.crc32c = w.crc32c /\ x \in DOMAIN w
  BY <1>1 DEF IsSession
<1>5. m.short \in BOOLEAN
  BY <1>2 DEF IsSession
<1>6. SessionError(m) = "Ok" => /\ m.magic = 0 /\ m.version = 1 /\ m.reserved1 = 0
                               /\ m.reserved2 = 0 /\ m.crc32c = SessionCrc(m)
  BY ONLY <1>5, SessionExact
<1>3. CASE x \in {"magic", "version", "reserved1", "reserved2"}
  <2>1. x = "magic" => m.magic # 0
    BY <1>2 DEF IsSession
  <2>2. x = "version" => m.version # 1
    BY <1>2 DEF IsSession
  <2>3. x = "reserved1" => m.reserved1 # 0
    BY <1>2 DEF IsSession
  <2>4. x = "reserved2" => m.reserved2 # 0
    BY <1>2 DEF IsSession
  <2>. QED
    BY <1>3, <1>6, <2>1, <2>2, <2>3, <2>4
<1>4. CASE x \in {"session_id", "params"}
  <2>1. SessionCrc(m) # SessionCrc(w)
    BY <1>2, <1>4 DEF SessionCrc
  <2>. QED
    BY <1>2, <1>6, <2>1 DEF IsSession
<1>. QED
  BY <1>1, <1>3, <1>4

LEMMA ResumeNumber ==
    ASSUME NEW w, IsResume(w), NEW x \in Numbers(w), NEW v, v # w[x],
           NEW m, m = [w EXCEPT ![x] = v]
    PROVE  ResumeError(m) # "Ok"
<1>1. x \in {"magic", "version", "reserved1", "session_id", "block_count", "journal_bytes",
             "journal_digest", "reserved2"}
  BY DEF IsResume, Numbers
<1>2. /\ DOMAIN m = DOMAIN w /\ m[x] = v /\ \A y \in DOMAIN w : y # x => m[y] = w[y]
      /\ m.short = w.short /\ m.crc32c = w.crc32c /\ x \in DOMAIN w
  BY <1>1 DEF IsResume
<1>3. ResumeCrc(m) # ResumeCrc(w)
  BY <1>1, <1>2 DEF ResumeCrc
<1>5. m.short \in BOOLEAN
  BY <1>2 DEF IsResume
<1>6. ResumeHeaderError(m) = "Ok" => m.crc32c = ResumeCrc(m)
  BY ONLY <1>5, ResumeHeaderExact
<1>4. ResumeHeaderError(m) # "Ok"
  BY <1>2, <1>3, <1>6 DEF IsResume
<1>. QED
  BY <1>4 DEF ResumeError

\* A resume file that is taken has an intact header, the blocks it declares, each
\* of which is taken, and no more.
LEMMA ResumeExact ==
    ASSUME NEW f, f.block_count \in Nat, Len(f.entries) \in Nat
    PROVE  ResumeError(f) = "Ok" <=>
              /\ ResumeHeaderError(f) = "Ok"
              /\ Len(f.entries) = f.block_count
              /\ \A i \in 1 .. f.block_count : BlockEntryError(f.entries[i], i - 1) = "Ok"
<1>. DEFINE n == f.block_count
            Err(i) == BlockEntryError(f.entries[i], i - 1)
            A == [i \in 1 .. n |-> Pass(Err(i))]
            more == Len(f.entries) > n
            B == <<When(more, "TrailingBytes")>>
            c == A \o B
            T == Range(A) \cup Range(B)
<1>1. ResumeError(f) = "Ok" <=>
        /\ ResumeHeaderError(f) = "Ok" /\ ~(Len(f.entries) < n) /\ FirstError(c, "Ok") = "Ok"
  BY DEF ResumeError
<1>2. more \in BOOLEAN /\ n \in Nat
  OBVIOUS
<1>. HIDE DEF n, Err, more
<1>3. /\ A = [i \in 1 .. n |-> A[i]] /\ B = [i \in 1 .. 1 |-> B[i]] /\ 1 \in Nat
      /\ DOMAIN A = 1 .. n /\ DOMAIN B = {1}
      /\ \A i \in 1 .. n : A[i] = Pass(Err(i))
      /\ B[1] = When(more, "TrailingBytes")
  BY <1>2
<1>. HIDE DEF A, B
<1>4. A \in Seq(T) /\ B \in Seq(T)
  BY <1>2, <1>3, SequenceOfRange
<1>5. c \in Seq(T) /\ Range(c) = Range(A) \cup Range(B)
  <2>. HIDE DEF T
  <2>. QED
    BY <1>4, ChecksJoined
<1>6. DOMAIN c \subseteq Nat
  BY <1>5
<1>. HIDE DEF c
<1>7. \A i \in 1 .. n : (A[i].cond <=> Err(i) # "Ok") /\ A[i].error = Err(i)
  BY <1>3, PassFields
<1>8. (B[1].cond <=> more) /\ B[1].error = "TrailingBytes"
  BY <1>2, <1>3, WhenFields
<1>9. /\ \A x \in Range(A) : \E i \in 1 .. n : x = A[i]
      /\ \A i \in 1 .. n : A[i] \in Range(A)
      /\ Range(B) = {B[1]}
  BY <1>3 DEF Range
<1>10. \A x \in Range(c) : x.cond => x.error # "Ok"
  BY <1>5, <1>7, <1>8, <1>9
<1>11. FirstError(c, "Ok") = "Ok" <=> \A x \in Range(c) : ~x.cond
  BY <1>6, <1>10, OkIffQuiet
<1>12. FirstError(c, "Ok") = "Ok" <=> ~more /\ \A i \in 1 .. n : Err(i) = "Ok"
  BY <1>5, <1>7, <1>8, <1>9, <1>11
<1>. QED
  BY <1>1, <1>2, <1>12 DEF n, Err, more

\* An entry is taken as it is written, up to one whose bitmap is full.
LEMMA EntryTaken ==
    ASSUME NEW e, NEW index, NEW count \in Nat, IsEntry(e, index, count)
    PROVE  BlockEntryError(e, index) = "Ok"
<1>. DEFINE bits == e.bitmap
<1>1. bits \subseteq 0 .. count - 1 /\ e.symbols_held = Cardinality(bits) /\ e.symbol_count = count
      /\ e.block_index = index /\ e.bytes = bitmap_bytes(count)
  BY DEF IsEntry
<1>. HIDE DEF bits
<1>2. IsFiniteSet(0 .. count - 1) /\ Cardinality(0 .. count - 1) = count
  <2>1. 0 \in Int /\ count - 1 \in Int
    OBVIOUS
  <2>2. IsFiniteSet(0 .. count - 1)
    BY <2>1, FS_Interval
  <2>3. Cardinality(0 .. count - 1) = IF 0 > count - 1 THEN 0 ELSE count - 1 - 0 + 1
    BY <2>1, FS_Interval
  <2>. QED
    BY <2>2, <2>3
<1>3. Cardinality(bits) <= count /\ Cardinality(bits) \in Nat
  <2>1. IsFiniteSet(bits) /\ Cardinality(bits) <= Cardinality(0 .. count - 1)
    BY <1>1, <1>2, FS_Subset
  <2>. QED
    BY <1>2, <2>1, FS_CardinalityType
<1>4. \A bit \in bits : ~(bit >= count)
  BY <1>1
<1>5. ~(e.symbols_held > e.symbol_count)
  BY <1>1, <1>3
<1>. QED
  BY <1>1, <1>4, <1>5, BlockEntryExact DEF bits

\* The blocks of a resume file as it is written.
LEMMA ResumeBlocks ==
    ASSUME NEW w, IsResume(w)
    PROVE  w.entries \in Seq(Range(w.entries)) /\ Len(w.entries) = 2
<1>. DEFINE es == w.entries
            T == Range(es)
<1>1. es = [i \in 1 .. 2 |-> es[i]]
  BY DEF IsResume
<1>2. 2 \in Nat /\ T \subseteq T
  OBVIOUS
<1>. QED
  BY ONLY <1>1, <1>2, SequenceOfRange

\* A resume file is taken as it is written.
LEMMA ResumeTaken ==
    ASSUME NEW w, IsResume(w)
    PROVE  ResumeError(w) = "Ok" /\ verify_resume_file(w, w)
<1>1. Len(w.entries) = 2 /\ w.block_count = 2
  BY ResumeBlocks DEF IsResume
<1>2. ResumeHeaderError(w) = "Ok"
  BY ResumeHeaderExact DEF IsResume
<1>3. PICK count \in SymbolCounts : \A i \in 1 .. 2 : IsEntry(w.entries[i], i - 1, count)
  BY DEF IsResume
<1>4. count \in Nat
  BY WireAssumption
<1>5. ASSUME NEW i \in 1 .. 2 PROVE BlockEntryError(w.entries[i], i - 1) = "Ok"
  <2>. DEFINE e == w.entries[i]
              j == i - 1
  <2>1. IsEntry(e, j, count)
    BY <1>3
  <2>. HIDE DEF e, j
  <2>2. BlockEntryError(e, j) = "Ok"
    BY <1>4, <2>1, EntryTaken
  <2>. QED
    BY <2>2 DEF e, j
<1>6. ResumeError(w) = "Ok"
  <2>1. w.block_count \in Nat /\ Len(w.entries) \in Nat
    BY <1>1
  <2>2. \A i \in 1 .. w.block_count : BlockEntryError(w.entries[i], i - 1) = "Ok"
    BY <1>1, <1>5
  <2>. QED
    BY ONLY <1>1, <1>2, <2>1, <2>2, ResumeExact
<1>. QED
  BY <1>6 DEF verify_resume_file

\* A message as it is written.
IsWritten(w) == IsFrame(w) \/ IsSession(w) \/ IsResume(w)

\* What a reader goes by: a message is accepted, and a resume file agrees with
\* what a replay gives.
Taken(m, w) == Accepted(m) /\ (m.kind = "resume" => verify_resume_file(m, w))

LEMMA WrittenTaken ==
    ASSUME NEW w, IsWritten(w)
    PROVE  Taken(w, w)
<1>1. CASE IsFrame(w)
  BY <1>1, FrameTaken DEF Taken, Accepted, IsFrame
<1>2. CASE IsSession(w)
  BY <1>2, SessionTaken DEF Taken, Accepted, IsSession
<1>3. CASE IsResume(w)
  BY <1>3, ResumeTaken DEF Taken, Accepted, IsResume
<1>. QED
  BY <1>1, <1>2, <1>3 DEF IsWritten

\* A change of a number is refused.
LEMMA NumberRefused ==
    ASSUME NEW w, IsWritten(w), NEW x \in Numbers(w), NEW v, v # w[x],
           NEW m, m = [w EXCEPT ![x] = v]
    PROVE  ~Accepted(m)
<1>1. x # "kind" /\ x \in DOMAIN w
  BY DEF Numbers
<1>2. m.kind = w.kind
  BY <1>1 DEF IsWritten, IsFrame, IsSession, IsResume
<1>3. CASE IsFrame(w)
  <2>1. FrameError(m) # "Ok"
    BY <1>3, FrameNumber
  <2>. QED
    BY <1>2, <1>3, <2>1 DEF Accepted, IsFrame
<1>4. CASE IsSession(w)
  <2>1. SessionError(m) # "Ok"
    BY <1>4, SessionNumber
  <2>. QED
    BY <1>2, <1>4, <2>1 DEF Accepted, IsSession
<1>5. CASE IsResume(w)
  <2>1. ResumeError(m) # "Ok"
    BY <1>5, ResumeNumber
  <2>. QED
    BY <1>2, <1>5, <2>1 DEF Accepted, IsResume
<1>. QED
  BY <1>3, <1>4, <1>5 DEF IsWritten

\* Nobody acts on a check value.
LEMMA SumSaysSame ==
    ASSUME NEW w, IsWritten(w), NEW x \in SumFields(w), NEW v, NEW m, m = [w EXCEPT ![x] = v]
    PROVE  Says(m) = Says(w)
<1>1. x \in {"mac", "crc32c", "integrity_digest"} /\ x \in DOMAIN w
  BY DEF SumFields
<1>2. \A y \in DOMAIN w : y # x => m[y] = w[y]
  BY <1>1
<1>3. CASE IsFrame(w)
  <2>1. /\ m.kind = w.kind /\ m.frame_type = w.frame_type /\ m.session_id = w.session_id
        /\ m.block_index = w.block_index /\ m.symbol_index = w.symbol_index
        /\ m.payload = w.payload /\ m.payload_length = w.payload_length
    BY <1>1, <1>2, <1>3 DEF IsFrame
  <2>. QED
    BY ONLY <2>1, <1>3 DEF Says, FrameSays, FrameTo, Carried, IsFrame
<1>4. CASE IsSession(w)
  <2>1. m.kind = w.kind /\ m.session_id = w.session_id /\ m.params = w.params
    BY <1>1, <1>2, <1>4 DEF IsSession
  <2>. QED
    BY ONLY <2>1, <1>4 DEF Says, SessionSays, IsSession
<1>5. CASE IsResume(w)
  <2>1. /\ m.kind = w.kind /\ m.session_id = w.session_id /\ m.journal_bytes = w.journal_bytes
        /\ m.journal_digest = w.journal_digest /\ m.entries = w.entries
    BY <1>1, <1>2, <1>5 DEF IsResume
  <2>. QED
    BY ONLY <2>1, <1>5 DEF Says, ResumeSays, IsResume
<1>. QED
  BY <1>3, <1>4, <1>5 DEF IsWritten

\* Another payload is refused unless it only has bytes behind it.
LEMMA PayloadNoticed ==
    ASSUME NEW w, IsFrame(w), NEW p, NEW m, m = [w EXCEPT !.payload = p], Accepted(m)
    PROVE  Says(m) = Says(w)
<1>1. /\ m.kind = "frame" /\ m.short = w.short /\ m.frame_type = w.frame_type
      /\ m.session_id = w.session_id /\ m.block_index = w.block_index
      /\ m.symbol_index = w.symbol_index /\ m.crc32c = w.crc32c /\ m.short \in BOOLEAN
  BY DEF IsFrame
<1>2. FrameError(m) = "Ok"
  BY ONLY <1>1, Accepted(m) DEF Accepted
<1>3. m.crc32c = Carried(m)
  BY ONLY <1>1, <1>2, FrameExact
<1>4. Carried(m) = Carried(w)
  BY <1>1, <1>3, FrameTaken DEF IsFrame
<1>5. FrameTo(m) = FrameTo(w)
  BY <1>1 DEF FrameTo
<1>6. w.kind = "frame"
  BY DEF IsFrame
<1>. QED
  BY ONLY <1>1, <1>4, <1>5, <1>6 DEF Says, FrameSays

\* Other entries are refused, or a replay says otherwise, or they are the same to
\* whoever reads them.
LEMMA EntriesNoticed ==
    ASSUME NEW w, IsResume(w), NEW es, Len(es) \in Nat, DOMAIN es = 1 .. Len(es),
           NEW m, m = [w EXCEPT !.entries = es], Taken(m, w)
    PROVE  Says(m) = Says(w)
<1>1. /\ m.kind = "resume" /\ m.entries = es /\ m.block_count = 2
      /\ m.session_id = w.session_id /\ m.journal_bytes = w.journal_bytes
      /\ m.journal_digest = w.journal_digest
  BY DEF IsResume
<1>2. ResumeError(m) = "Ok" /\ verify_resume_file(m, w)
  BY ONLY <1>1, Taken(m, w) DEF Taken, Accepted
<1>3. Len(es) = 2
  <2>1. m.block_count \in Nat /\ Len(m.entries) \in Nat
    BY ONLY <1>1, Len(es) \in Nat
  <2>2. Len(m.entries) = m.block_count
    BY ONLY <1>2, <2>1, ResumeExact
  <2>. QED
    BY ONLY <1>1, <2>2
<1>4. DOMAIN es = DOMAIN w.entries
  <2>1. DOMAIN w.entries = 1 .. 2
    BY DEF IsResume
  <2>. QED
    BY <1>3, <2>1
<1>5. \A i \in DOMAIN es : /\ es[i].symbol_count = w.entries[i].symbol_count
                           /\ es[i].bitmap = w.entries[i].bitmap
  BY ONLY <1>1, <1>2 DEF verify_resume_file
<1>6. w.kind = "resume"
  BY DEF IsResume
<1>. QED
  BY ONLY <1>1, <1>4, <1>5, <1>6 DEF Says, ResumeSays

\* A message on the way: the fields and the kind it was written with and, in a
\* frame, the sender's MAC or none.
Shaped(m, w) ==
    /\ DOMAIN m = DOMAIN w /\ m.kind = w.kind /\ m.short \in BOOLEAN
    /\ m.kind = "frame" => m.mac \in {w.mac, <<Junk>>}

\* The inductive invariant.
WireIInv ==
    /\ was \in Written /\ faults \in Nat /\ Shaped(now, was)
    /\ faults = 0 => now = was
    /\ OneFaultNoticed

LEMMA AllWritten ==
    ASSUME NEW w \in Written
    PROVE  IsWritten(w) /\ (w.kind = "frame" => w \in WrittenFrames)
<1>1. CASE w \in WrittenFrames
  BY <1>1, FramesWritten DEF IsWritten
<1>2. CASE w \in WrittenSessions
  BY <1>2, SessionsWritten DEF IsWritten, IsSession
<1>3. CASE w \in WrittenResumes
  BY <1>3, ResumesWritten DEF IsWritten, IsResume
<1>. QED
  BY <1>1, <1>2, <1>3 DEF Written

LEMMA WrittenShaped ==
    ASSUME NEW w, IsWritten(w)
    PROVE  /\ Shaped(w, w) /\ {"kind", "short"} \subseteq DOMAIN w
           /\ w.kind = "frame" => "mac" \in DOMAIN w
  BY DEF IsWritten, IsFrame, IsSession, IsResume, Shaped

\* OneFaultNoticed, in the words of these lemmas.
LEMMA NoticedIs ==
    OneFaultNoticed <=> /\ faults = 0 => Taken(now, was)
                        /\ faults = 1 /\ Taken(now, was) => Says(now) = Says(was)
  BY DEF OneFaultNoticed, Taken

LEMMA WireInitIInv == WireInit => WireIInv
<1>. SUFFICES ASSUME WireInit PROVE WireIInv
  OBVIOUS
<1>1. was \in Written /\ now = was /\ faults = 0
  BY DEF WireInit
<1>2. IsWritten(was)
  BY <1>1, AllWritten
<1>3. Taken(now, was)
  BY <1>1, <1>2, WrittenTaken
<1>4. OneFaultNoticed
  BY <1>1, <1>3, NoticedIs
<1>. QED
  BY <1>1, <1>2, <1>4, WrittenShaped DEF WireIInv

\* A change of one field keeps the shape.
LEMMA ShapeKept ==
    ASSUME NEW w, NEW m, Shaped(m, w), {"kind", "short"} \subseteq DOMAIN w,
           w.kind = "frame" => "mac" \in DOMAIN w,
           NEW x, NEW v, x # "kind", x = "short" => v \in BOOLEAN, x = "mac" => v = <<Junk>>
    PROVE  Shaped([m EXCEPT ![x] = v], w)
<1>. DEFINE c == [m EXCEPT ![x] = v]
<1>1. /\ DOMAIN c = DOMAIN m /\ (x \in DOMAIN m => c[x] = v)
      /\ \A y \in DOMAIN m : y # x => c[y] = m[y]
  OBVIOUS
<1>2. DOMAIN m = DOMAIN w /\ m.kind = w.kind /\ m.short \in BOOLEAN
  BY DEF Shaped
<1>. HIDE DEF c
<1>3. DOMAIN c = DOMAIN w /\ c.kind = w.kind
  BY <1>1, <1>2
<1>4. c.short \in BOOLEAN
  BY <1>1, <1>2
<1>5. c.kind = "frame" => c.mac \in {w.mac, <<Junk>>}
  <2>. DEFINE none == <<Junk>>
  <2>1. m.kind = "frame" => m.mac \in {w.mac, none}
    BY DEF Shaped
  <2>2. x = "mac" => v = none
    OBVIOUS
  <2>. HIDE DEF none
  <2>3. c.kind = "frame" => c.mac \in {w.mac, none}
    BY <1>1, <1>2, <1>3, <2>1, <2>2
  <2>. QED
    BY <2>3 DEF none
<1>6. Shaped(c, w)
  BY <1>3, <1>4, <1>5 DEF Shaped
<1>. QED
  BY <1>6 DEF c

\* Every change keeps the shape.
LEMMA WireShapeKept ==
    ASSUME WireIInv, WireNext
    PROVE  Shaped(now', was)
<1>0. /\ {"kind", "short"} \subseteq DOMAIN was /\ (was.kind = "frame" => "mac" \in DOMAIN was)
      /\ Shaped(now, was)
  BY AllWritten, WrittenShaped DEF WireIInv
<1>1. ASSUME NEW x, NEW v, now' = [now EXCEPT ![x] = v], x \notin {"kind", "short", "mac"}
      PROVE  Shaped(now', was)
  <2>1. x # "kind" /\ (x = "short" => v \in BOOLEAN) /\ (x = "mac" => v = <<Junk>>)
    BY <1>1
  <2>2. Shaped([now EXCEPT ![x] = v], was)
    BY ONLY <1>0, <2>1, ShapeKept
  <2>. QED
    BY <1>1, <2>2
<1>2. CASE ChangeNumber
  <2>1. PICK x \in Numbers(now), v \in {0, 1, 2, Junk} : now' = [now EXCEPT ![x] = v]
    BY <1>2 DEF ChangeNumber
  <2>2. x \notin {"kind", "short", "mac"}
    BY DEF Numbers
  <2>. QED
    BY <1>1, <2>1, <2>2
<1>3. CASE ChangeSum
  <2>. DEFINE none == <<Junk>>
  <2>1. PICK x \in SumFields(now) : now' = [now EXCEPT ![x] = none]
    BY <1>3 DEF ChangeSum
  <2>2. x # "kind" /\ (x = "short" => none \in BOOLEAN) /\ (x = "mac" => none = <<Junk>>)
    BY DEF SumFields
  <2>3. Shaped([now EXCEPT ![x] = none], was)
    <3>. HIDE DEF none
    <3>. QED
      BY ONLY <1>0, <2>2, ShapeKept
  <2>. QED
    BY <2>1, <2>3
<1>4. CASE ChangePayload
  <2>1. PICK p : now' = [now EXCEPT !.payload = p]
    BY <1>4 DEF ChangePayload
  <2>. QED
    BY <1>1, <2>1
<1>5. CASE ChangeEntry
  <2>1. PICK es : now' = [now EXCEPT !.entries = es]
    BY <1>5 DEF ChangeEntry
  <2>. QED
    BY <1>1, <2>1
<1>6. CASE Cut
  <2>1. Shaped([now EXCEPT !.short = TRUE], was)
    <3>. DEFINE v == TRUE
                x == "short"
    <3>1. x # "kind" /\ (x = "short" => v \in BOOLEAN) /\ (x = "mac" => v = <<Junk>>)
      OBVIOUS
    <3>. HIDE DEF v, x
    <3>2. Shaped([now EXCEPT ![x] = v], was)
      BY ONLY <1>0, <3>1, ShapeKept
    <3>. QED
      BY <3>2 DEF v, x
  <2>. QED
    BY <1>6, <2>1 DEF Cut
<1>7. CASE Recompute
  <2>1. CASE \E v : now' = [now EXCEPT !.crc32c = v]
    BY <1>1, <2>1
  <2>2. CASE now.kind = "resume" /\ \E v, d :
                now' = [now EXCEPT !.crc32c = v, !.integrity_digest = d]
    <3>1. PICK v, d : now' = [now EXCEPT !.crc32c = v, !.integrity_digest = d]
      BY <2>2
    <3>2. DOMAIN now' = DOMAIN now /\ now'.kind = now.kind /\ now'.short = now.short
      BY <1>0, <3>1 DEF Shaped
    <3>. QED
      BY <1>0, <2>2, <3>2 DEF Shaped
  <2>. QED
    BY <1>7, <2>1, <2>2 DEF Recompute
<1>. QED
  BY <1>2, <1>3, <1>4, <1>5, <1>6, <1>7 DEF WireNext

\* A written file with a changed entry, without its first or with one more, still
\* has a list of entries.
LEMMA EntriesListed ==
    ASSUME NEW w, IsResume(w), NEW es, NEW one,
           \/ \E i \in DOMAIN w.entries : es = [w.entries EXCEPT ![i] = one]
           \/ es = Tail(w.entries)
           \/ es = Append(w.entries, one)
    PROVE  Len(es) \in Nat /\ DOMAIN es = 1 .. Len(es)
<1>. DEFINE old == w.entries
            T == Range(old) \cup {one}
<1>0. old \in Seq(Range(old)) /\ Len(old) = 2
  BY ResumeBlocks
<1>1. old \in Seq(Range(old)) /\ Len(old) = 2 /\ old # <<>>
  <2>1. Len(<<>>) = 0
    OBVIOUS
  <2>. QED
    BY <1>0, <2>1
<1>2. old \in Seq(T) /\ one \in T
  BY <1>1
<1>. HIDE DEF T, old
<1>3. es \in Seq(T)
  <2>1. CASE \E i \in DOMAIN old : es = [old EXCEPT ![i] = one]
    BY <1>2, <2>1
  <2>2. CASE es = Tail(old)
    BY <1>1, <1>2, <2>2
  <2>3. CASE es = Append(old, one)
    BY <1>2, <2>3
  <2>. QED
    BY <2>1, <2>2, <2>3 DEF old
<1>. QED
  BY <1>3

\* Whatever is cut in its fixed part is refused.
LEMMA CutRefused ==
    ASSUME NEW m, m.short, m.short \in BOOLEAN
    PROVE  FrameError(m) # "Ok" /\ SessionError(m) # "Ok" /\ ResumeHeaderError(m) # "Ok"
<1>1. FrameError(m) = "Ok" => ~m.short
  BY ONLY m.short \in BOOLEAN, FrameExact
<1>2. SessionError(m) = "Ok" => ~m.short
  BY ONLY m.short \in BOOLEAN, SessionExact
<1>3. ResumeHeaderError(m) = "Ok" => ~m.short
  BY ONLY m.short \in BOOLEAN, ResumeHeaderExact
<1>. QED
  BY <1>1, <1>2, <1>3

\* The first change is noticed or makes no difference.
LEMMA FirstNoticed ==
    ASSUME WireIInv, WireNext, faults = 0, Taken(now', was)
    PROVE  Says(now') = Says(was)
<1>. DEFINE w == was
            m == now'
<1>0. now = w /\ IsWritten(w)
  BY AllWritten DEF WireIInv
<1>1. CASE ChangeNumber
  <2>1. PICK x \in Numbers(w), v \in {0, 1, 2, Junk} : v # w[x] /\ m = [w EXCEPT ![x] = v]
    BY <1>0, <1>1 DEF ChangeNumber
  <2>2. ~Accepted(m)
    BY <1>0, <2>1, NumberRefused
  <2>. QED
    BY <2>2 DEF Taken
<1>2. CASE ChangeSum
  <2>1. PICK x \in SumFields(w) : m = [w EXCEPT ![x] = <<Junk>>]
    BY <1>0, <1>2 DEF ChangeSum
  <2>. QED
    BY <1>0, <2>1, SumSaysSame
<1>3. CASE ChangePayload
  <2>1. PICK p : m = [w EXCEPT !.payload = p]
    BY <1>0, <1>3 DEF ChangePayload
  <2>2. IsFrame(w)
    BY <1>0, <1>3 DEF ChangePayload, IsWritten, IsSession, IsResume
  <2>3. Accepted(m)
    BY DEF Taken
  <2>. QED
    BY ONLY <2>1, <2>2, <2>3, PayloadNoticed
<1>4. CASE ChangeEntry
  <2>1. IsResume(w)
    BY <1>0, <1>4 DEF ChangeEntry, IsWritten, IsSession, IsFrame
  <2>2. \E es, one :
            /\ m = [w EXCEPT !.entries = es]
            /\ \/ \E i \in DOMAIN w.entries : es = [w.entries EXCEPT ![i] = one]
               \/ es = Tail(w.entries)
               \/ es = Append(w.entries, one)
    <3>1. CASE \E i \in DOMAIN w.entries, x \in {"block_index", "symbol_count", "symbols_held"},
                  v \in 0 .. 4 : m = [w EXCEPT !.entries[i][x] = v]
      <4>1. PICK i \in DOMAIN w.entries, x \in {"block_index", "symbol_count", "symbols_held"},
                  v \in 0 .. 4 : m = [w EXCEPT !.entries[i][x] = v]
        BY <3>1
      <4>. DEFINE one == [w.entries[i] EXCEPT ![x] = v]
                  es == [w.entries EXCEPT ![i] = one]
      <4>2. m = [w EXCEPT !.entries = es]
        BY <4>1
      <4>. QED
        BY <4>2
    <3>2. CASE \E i \in DOMAIN w.entries : \E bits : m = [w EXCEPT !.entries[i].bitmap = bits]
      <4>0. PICK i \in DOMAIN w.entries : \E bits : m = [w EXCEPT !.entries[i].bitmap = bits]
        BY <3>2
      <4>1. PICK bits : m = [w EXCEPT !.entries[i].bitmap = bits]
        BY <4>0
      <4>. DEFINE one == [w.entries[i] EXCEPT !.bitmap = bits]
                  es == [w.entries EXCEPT ![i] = one]
      <4>2. m = [w EXCEPT !.entries = es]
        BY <4>1
      <4>. QED
        BY <4>2
    <3>5. \/ \E i \in DOMAIN w.entries, x \in {"block_index", "symbol_count", "symbols_held"},
                v \in 0 .. 4 : m = [w EXCEPT !.entries[i][x] = v]
          \/ \E i \in DOMAIN w.entries : \E bits : m = [w EXCEPT !.entries[i].bitmap = bits]
          \/ m = [w EXCEPT !.entries = Tail(w.entries)]
          \/ \E one : m = [w EXCEPT !.entries = Append(w.entries, one)]
      <4>1. CASE \E i \in DOMAIN now.entries :
                   \E x \in {"block_index", "symbol_count", "symbols_held"}, v \in 0 .. 4 :
                       v # now.entries[i][x] /\ now' = [now EXCEPT !.entries[i][x] = v]
        <5>1. PICK i \in DOMAIN now.entries, x \in {"block_index", "symbol_count", "symbols_held"},
                   v \in 0 .. 4 : now' = [now EXCEPT !.entries[i][x] = v]
          BY <4>1
        <5>. QED
          BY <1>0, <5>1
      <4>2. CASE \E i \in DOMAIN now.entries : \E bit \in 0 .. (BITS * now.entries[i].bytes) - 1 :
                       now' = [now EXCEPT !.entries[i].bitmap = (@ \ {bit}) \cup ({bit} \ @)]
        <5>0. PICK i \in DOMAIN now.entries :
                   \E bit \in 0 .. (BITS * now.entries[i].bytes) - 1 :
                       now' = [now EXCEPT !.entries[i].bitmap = (@ \ {bit}) \cup ({bit} \ @)]
          BY <4>2
        <5>1. PICK bit \in 0 .. (BITS * now.entries[i].bytes) - 1 :
                       now' = [now EXCEPT !.entries[i].bitmap = (@ \ {bit}) \cup ({bit} \ @)]
          BY <5>0
        <5>. DEFINE old == now.entries[i].bitmap
                    bits == (old \ {bit}) \cup ({bit} \ old)
        <5>2. now' = [now EXCEPT !.entries[i].bitmap = bits]
          BY <5>1
        <5>. HIDE DEF bits
        <5>. QED
          BY <1>0, <5>2
      <4>3. CASE now' = [now EXCEPT !.entries = Tail(@)]
        BY <1>0, <4>3
      <4>4. CASE now' = [now EXCEPT !.entries = Append(@, BlockEntry(Len(@), 0, {}))]
        BY <1>0, <4>4
      <4>. QED
        BY <1>4, <4>1, <4>2, <4>3, <4>4 DEF ChangeEntry
    <3>3. CASE m = [w EXCEPT !.entries = Tail(w.entries)]
      BY <3>3
    <3>4. CASE \E one : m = [w EXCEPT !.entries = Append(w.entries, one)]
      BY <3>4
    <3>. QED
      BY <3>1, <3>2, <3>3, <3>4, <3>5
  <2>3. PICK es, one :
            /\ m = [w EXCEPT !.entries = es]
            /\ \/ \E i \in DOMAIN w.entries : es = [w.entries EXCEPT ![i] = one]
               \/ es = Tail(w.entries)
               \/ es = Append(w.entries, one)
    BY <2>2
  <2>4. Len(es) \in Nat /\ DOMAIN es = 1 .. Len(es)
    BY <2>1, <2>3, EntriesListed
  <2>. QED
    BY ONLY <2>1, <2>3, <2>4, Taken(now', was), EntriesNoticed
<1>5. CASE Cut
  <2>1. m = [w EXCEPT !.short = TRUE]
    BY <1>0, <1>5 DEF Cut
  <2>2. m.short /\ m.short \in BOOLEAN /\ m.kind = w.kind
    BY <1>0, <2>1 DEF IsWritten, IsFrame, IsSession, IsResume
  <2>3. FrameError(m) # "Ok" /\ SessionError(m) # "Ok" /\ ResumeHeaderError(m) # "Ok"
    BY ONLY <2>2, CutRefused
  <2>. QED
    BY <2>3 DEF Taken, Accepted, ResumeError
<1>6. CASE Recompute
  BY <1>6 DEF Recompute, WireIInv
<1>. QED
  BY <1>1, <1>2, <1>3, <1>4, <1>5, <1>6 DEF WireNext

LEMMA WireNextIInv == WireIInv /\ [WireNext]_wireVars => WireIInv'
<1>. SUFFICES ASSUME WireIInv, [WireNext]_wireVars PROVE WireIInv'
  OBVIOUS
<1>1. CASE UNCHANGED wireVars
  <2>1. was' = was /\ now' = now /\ faults' = faults
    BY <1>1 DEF wireVars
  <2>2. OneFaultNoticed'
    BY <2>1, NoticedIs DEF WireIInv, OneFaultNoticed
  <2>. QED
    BY <2>1, <2>2 DEF WireIInv
<1>2. CASE WireNext
  <2>1. faults' = faults + 1 /\ was' = was /\ faults \in Nat
    BY <1>2 DEF WireNext, WireIInv
  <2>2. Shaped(now', was')
    BY <1>2, <2>1, WireShapeKept
  <2>3. faults' = 1 /\ Taken(now', was) => Says(now') = Says(was)
    BY <1>2, <2>1, FirstNoticed
  <2>4. OneFaultNoticed'
    BY <2>1, <2>3 DEF OneFaultNoticed, Taken
  <2>. QED
    BY <2>1, <2>2, <2>4 DEF WireIInv
<1>. QED
  BY <1>1, <1>2

\* However a message is changed, a frame has the sender's MAC or none (set_mac).
THEOREM WireInvariant == WireSpec => []WireIInv
  BY WireInitIInv, WireNextIInv, PTL DEF WireSpec

\* However often frames are changed by whoever does not have the session key, those
\* that are taken go where one was sent, whatever their payloads (compute_mac).
THEOREM FrameKept == WireSpec => []FrameGoesWhereSent
<1>1. WireIInv => FrameGoesWhereSent
  <2>. SUFFICES ASSUME WireIInv, now.kind = "frame", Accepted(now)
                PROVE  \E f \in WrittenFrames :
                          FrameTo(f) = FrameTo(now) /\ f.payload_length = now.payload_length
    BY DEF FrameGoesWhereSent
  <2>1. was \in WrittenFrames /\ IsFrame(was) /\ now.short \in BOOLEAN
    BY AllWritten, FramesWritten DEF WireIInv, Shaped
  <2>2. FrameError(now) = "Ok"
    BY DEF Accepted
  <2>3. now.mac = compute_mac(now, SessionKey)
    BY ONLY <2>1, <2>2, FrameExact
  <2>4. now.mac # <<Junk>>
    <3>1. DOMAIN compute_mac(now, SessionKey) = 1 .. 8 /\ DOMAIN <<Junk>> = 1 .. 1
      BY DEF compute_mac
    <3>. QED
      BY <2>3, <3>1
  <2>5. compute_mac(now, SessionKey) = compute_mac(was, SessionKey)
    BY <2>1, <2>3, <2>4 DEF WireIInv, Shaped, IsFrame
  <2>6. /\ now.frame_type = was.frame_type /\ now.session_id = was.session_id
        /\ now.block_index = was.block_index /\ now.symbol_index = was.symbol_index
        /\ now.payload_length = was.payload_length
    BY ONLY <2>5 DEF compute_mac
  <2>. QED
    BY ONLY <2>1, <2>6 DEF FrameTo
<1>. QED
  BY <1>1, WireInvariant, PTL

\* What is written is taken, and one change of a frame, a session header or a
\* resume file is noticed or makes no difference, for every width of a byte, every
\* number of symbols and all payloads (from_bytes of all three, verify_resume_file).
THEOREM FaultNoticed == WireSpec => []OneFaultNoticed
<1>1. WireIInv => OneFaultNoticed
  BY DEF WireIInv
<1>. QED
  BY <1>1, WireInvariant, PTL
=============================================================================
