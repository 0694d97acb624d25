--------------------------------- MODULE Keys ---------------------------------
(***************************************************************************)
(* Key files: dhow keygen (cli/internal/cli/cli.go) writing them, and       *)
(* core/dhow-crypt/src/key.rs writing, checking and reading them, system    *)
(* call by system call, with runs that overlap, fail and are killed.        *)
(*                                                                         *)
(* A secret key file is two chunks: the header with the key material, and   *)
(* the checksum of the first chunk (as the chunk itself, so that checksums  *)
(* do not collide).  write_all may need more than one write, and a file may *)
(* be truncated by another run in between.                                  *)
(***************************************************************************)
EXTENDS Checks, FiniteSets

CONSTANTS
    Procs,         \* runs of dhow keygen that may overlap
    Outs,          \* what -out may name: <<stem, extension>>
    Materials,     \* what the system's randomness may give
    None,          \* no file, no key
    Forced         \* the values -force may have

ASSUME KeysAssumption == Forced \subseteq BOOLEAN

VARIABLES
    file,       \* the file system: per path, None or [open, data]
    proc,       \* per run: pc, kind, force, out, paths still to look for, key
    drawn,      \* what random_bytes has given
    load,       \* the path of a load between its check and its read, or None
    loaded      \* the secret load_secret returned last, and the kind asked for

keyVars == <<file, proc, drawn, load, loaded>>

-----------------------------------------------------------------------------
(***************************************************************************)
(* The format                                                              *)
(***************************************************************************)

\* publicPathFor: a trailing .key is replaced, anything else kept.
publicPathFor(path) ==
    IF path[2] = "key" THEN <<path[1], "pub">> ELSE <<path[1], path[2] \o ".pub">>

KeyPaths == Outs \cup {publicPathFor(p) : p \in Outs}

Header(kind, material) ==
    [magic |-> "DHKY", version |-> 1, kind |-> kind, reserved |-> 0, material |-> material]

\* The zeros a write past the end of a file leaves.
Hole == [magic |-> "zero", version |-> 0, kind |-> "zero", reserved |-> 0, material |-> None]

encode_key_file(kind, material) == <<Header(kind, material), Header(kind, material)>>

\* Fault: the checksum is not compared.
decode_key_file_unsummed(data) ==
    IF Len(data) # 2 THEN "Truncated" ELSE "Ok"

\* decode_key_file, with KeyKind::from_u8.
decode_key_file(data) ==
    IF Len(data) # 2 THEN "Truncated"
    ELSE FirstError(<<When(data[1].magic # "DHKY", "InvalidMagic"),
                      When(data[1].version # 1, "UnsupportedVersion"),
                      When(data[1].kind \notin {"identity", "operator"}, "InvalidKey"),
                      When(data[1].reserved # 0, "InvalidKey"),
                      When(data[2] # data[1], "InvalidKey")>>, "Ok")

\* The public half, as save_public writes it: no header and no checksum.
public(material) == [magic |-> "public", material |-> material]

\* The secret a file holds whole.
Intact(path) == file[path] # None /\ decode_key_file(file[path].data) = "Ok"
SecretIn(path) == [kind |-> file[path].data[1].kind, material |-> file[path].data[1].material]

-----------------------------------------------------------------------------
(***************************************************************************)
(* dhow keygen                                                             *)
(***************************************************************************)

Resting == [pc |-> "idle", kind |-> "operator", force |-> FALSE, out |-> None,
            paths |-> <<>>, key |-> None]

\* The files an operator may have: none, or an earlier key with either mode.
KeysInit ==
    /\ file \in [KeyPaths -> {None} \cup
                    {[open |-> o, data |-> encode_key_file("operator", "old")] : o \in BOOLEAN}]
    /\ \A p \in KeyPaths \ Outs : file[p] = None
    /\ proc = [p \in Procs |-> Resting]
    /\ drawn = {"old"}
    /\ load = None
    /\ loaded = {}

SetProc(p, q) == proc' = [proc EXCEPT ![p] = q]

\* runKeygen: an operator key, or an identity, which looks for two files.
Start(p, kind, out, force) ==
    /\ proc[p].pc = "idle"
    /\ SetProc(p, [pc |-> "clobber", kind |-> kind, force |-> force, out |-> out, key |-> None,
                   paths |-> IF kind = "operator" THEN <<out>>
                             ELSE <<out, publicPathFor(out)>>])
    /\ UNCHANGED <<file, drawn, load, loaded>>

\* refuseToClobber, for one path after the other.
refuseToClobber(p) ==
    /\ proc[p].pc = "clobber"
    /\ SetProc(p, IF ~proc[p].force /\ file[Head(proc[p].paths)] # None THEN Resting
                  ELSE IF Len(proc[p].paths) = 1
                       THEN [proc[p] EXCEPT !.pc = "generate", !.paths = <<>>]
                  ELSE [proc[p] EXCEPT !.paths = Tail(@)])
    /\ UNCHANGED <<file, drawn, load, loaded>>

\* OperatorKey::generate and IdentityKey::generate; random_bytes does not repeat.
generate(p) ==
    /\ proc[p].pc = "generate"
    /\ \/ \E m \in Materials \ drawn :
            /\ drawn' = drawn \cup {m}
            /\ SetProc(p, [proc[p] EXCEPT !.pc = "open", !.key = m])
       \/ drawn' = drawn /\ SetProc(p, Resting)
    /\ UNCHANGED <<file, load, loaded>>

\* A step that makes the file at path into f.
Write(path, f) ==
    /\ file' = [file EXCEPT ![path] = f]
    /\ UNCHANGED <<drawn, load, loaded>>

\* fs::OpenOptions create, truncate, mode 0600: the mode of a new file.
OpenSecret(p) ==
    LET out == proc[p].out
    IN  /\ proc[p].pc = "open"
        /\ Write(out, [open |-> IF file[out] = None THEN FALSE ELSE file[out].open,
                          data |-> <<>>])
        /\ SetProc(p, [proc[p] EXCEPT !.pc = "write"])

\* data with chunk i written to it.
Put(data, i, chunk) ==
    [j \in 1 .. (IF Len(data) > i THEN Len(data) ELSE i) |->
        IF j = i THEN chunk ELSE IF j <= Len(data) THEN data[j] ELSE Hole]

\* write_all: both chunks at once, or one after the other.
write_all(p) ==
    LET out == proc[p].out
        chunks == encode_key_file(proc[p].kind, proc[p].key)
        both == Put(Put(file[out].data, 1, chunks[1]), 2, chunks[2])
    IN  \/ /\ proc[p].pc = "write"
           /\ \/ Write(out, [file[out] EXCEPT !.data = both])
                 /\ SetProc(p, [proc[p] EXCEPT !.pc = "chmod"])
              \/ Write(out, [file[out] EXCEPT !.data = Put(@, 1, chunks[1])])
                 /\ SetProc(p, [proc[p] EXCEPT !.pc = "rest"])
        \/ /\ proc[p].pc = "rest"
           /\ Write(out, [file[out] EXCEPT !.data = Put(@, 2, chunks[2])])
           /\ SetProc(p, [proc[p] EXCEPT !.pc = "chmod"])

\* fs::set_permissions; an operator key is done then.
set_permissions(p) ==
    /\ proc[p].pc = "chmod"
    /\ Write(proc[p].out, [file[proc[p].out] EXCEPT !.open = FALSE])
    /\ SetProc(p, [proc[p] EXCEPT !.pc = IF proc[p].kind = "operator" THEN "done" ELSE "openpub"])

\* save_public: fs::write truncates and writes, with the default mode.
save_public(p) ==
    LET pub == publicPathFor(proc[p].out)
    IN  \/ /\ proc[p].pc = "openpub"
           /\ Write(pub, [open |-> IF file[pub] = None THEN TRUE ELSE file[pub].open,
                             data |-> <<>>])
           /\ SetProc(p, [proc[p] EXCEPT !.pc = "writepub"])
        \/ /\ proc[p].pc = "writepub"
           /\ Write(pub, [file[pub] EXCEPT !.data = Put(@, 1, public(proc[p].key))])
           /\ SetProc(p, [proc[p] EXCEPT !.pc = "done"])

\* The run exits 0 and may be started again.
Exit(p) ==
    /\ proc[p].pc = "done"
    /\ SetProc(p, Resting)
    /\ UNCHANGED <<file, drawn, load, loaded>>

\* The run is killed, or one of its calls fails and it gives up: it undoes
\* nothing either way.
Stop(p) ==
    /\ proc[p].pc \notin {"idle", "done"}
    /\ SetProc(p, Resting)
    /\ UNCHANGED <<file, drawn, load, loaded>>

-----------------------------------------------------------------------------
(***************************************************************************)
(* Loading                                                                 *)
(***************************************************************************)

\* check_permissions, by path, before the file is opened.
check_permissions(path) ==
    /\ load = None
    /\ file[path] # None /\ ~file[path].open
    /\ load' = path
    /\ UNCHANGED <<file, proc, drawn, loaded>>

\* The rest of load_secret, and load_identity or load_operator, which want kind.
load_secret(kind) ==
    /\ load # None
    /\ loaded' = IF Intact(load) /\ SecretIn(load).kind = kind
                 THEN {[secret |-> SecretIn(load), wanted |-> kind]} ELSE {}
    /\ load' = None
    /\ UNCHANGED <<file, proc, drawn>>

\* A field of a key file goes bad on the disk, one of a file.
Rot(path) ==
    /\ file[path] # None /\ file[path].data # <<>>
    /\ \E kind \in {"operator", "identity"}, m \in drawn : file[path].data[1] = Header(kind, m)
    /\ \E chunk \in {[file[path].data[1] EXCEPT !.magic = "rot"],
                     [file[path].data[1] EXCEPT !.version = 2],
                     [file[path].data[1] EXCEPT !.kind = "identity"],
                     [file[path].data[1] EXCEPT !.kind = "rot"],
                     [file[path].data[1] EXCEPT !.reserved = 1],
                     [file[path].data[1] EXCEPT !.material = "rot"]} :
            file' = [file EXCEPT ![path].data[1] = chunk]
    /\ UNCHANGED <<proc, drawn, load, loaded>>

KeysNext ==
    \/ \E p \in Procs :
        \/ \E kind \in {"operator", "identity"}, out \in Outs, force \in Forced :
            Start(p, kind, out, force)
        \/ refuseToClobber(p) \/ generate(p) \/ OpenSecret(p) \/ write_all(p)
        \/ set_permissions(p) \/ save_public(p) \/ Exit(p) \/ Stop(p)
    \/ \E path \in KeyPaths : check_permissions(path) \/ Rot(path)
    \/ \E kind \in {"operator", "identity"} : load_secret(kind)

KeysSpec == KeysInit /\ [][KeysNext]_keyVars

-----------------------------------------------------------------------------
(***************************************************************************)
(* Properties                                                              *)
(***************************************************************************)

\* A secret that load_identity or load_operator returns was drawn by some run
\* of keygen and is of the kind asked for, however runs overlapped, were cut
\* short or the disk went bad (decode_key_file: "a truncated or corrupted file
\* cannot yield a usable key").
LoadedWasDrawn ==
    \A l \in loaded : l.secret.material \in drawn /\ l.secret.kind = l.wanted
=============================================================================
