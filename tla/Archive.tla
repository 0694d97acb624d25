------------------------------- MODULE Archive -------------------------------
(***************************************************************************)
(* A dataset from one machine to the other: pack.Create and pack.Extract    *)
(* (cli/internal/pack/pack.go), and of cli/internal/cli/cli.go              *)
(* extractAtomically, reconcile and verify's inspectDataset.                *)
(*                                                                         *)
(* The sender's files may change while they are walked and read, the        *)
(* received ones before and while they are verified.  In between is the     *)
(* transfer, which hands over the archive as it was made (Decoder) or       *)
(* nothing, and the inventory, which is signed (Manifest).                  *)
(*                                                                         *)
(* A file's contents are a sequence of bytes; an archive is a sequence of   *)
(* entry heads and bytes; a digest is the contents it was taken of.  Files  *)
(* are numbered in the order of their names and lie in one directory, which *)
(* is read before the first change.  The contents of a link are those it    *)
(* leads to.  A read that overlaps a change reads what a file holding that  *)
(* mixture would give.                                                      *)
(***************************************************************************)
EXTENDS ManifestFormat

CONSTANTS
    NameOf,      \* the names of the files, in order: what ValidateName looks at,
                 \* and whether the bytes of a name are UTF-8
    Contents,    \* what a file can hold
    MaxEdits,    \* bound: changes on the sender's side
    MaxDamages   \* bound: changes on the receiver's side

Files == DOMAIN NameOf

NoFile == [kind |-> "none", body |-> <<>>, executable |-> FALSE]
FileState == [kind: {"regular", "link"}, body: Contents, executable: BOOLEAN]

ASSUME ArchiveAssumption ==
    /\ MaxEdits \in Nat /\ MaxDamages \in Nat
    /\ <<>> \in Contents /\ \A body \in Contents : body \in Seq(Range(body))
    /\ \A f \in Files : NameOf[f].wide \in BOOLEAN /\ NameOf[f].utf8 \in BOOLEAN

VARIABLES
    tree,      \* the sender's files
    edits,     \* how often they changed
    pack,      \* pack.Create: where it is, the regular files the directory listed,
               \* the entries it collected, what it wrote
    dataset,   \* the receiver's files; a file is absent until it is published
    recv,      \* extractAtomically: where it is, the offset, the staged files
    damages,   \* how often the received files changed
    verify     \* verify: where it is, what the walk found, what it reports

archiveVars == <<tree, edits, pack, dataset, recv, damages, verify>>

NoFiles == [f \in Files |-> NoFile]
Regular(files, f) == files[f].kind = "regular"

ArchiveInit ==
    /\ tree \in [Files -> {NoFile} \cup [kind: {"regular"}, body: Contents, executable: {FALSE}]]
    /\ edits = 0
    /\ pack = [pc |-> "walk", listed |-> {f \in Files : Regular(tree, f)}, at |-> 1,
               entries |-> <<>>, out |-> <<>>]
    /\ dataset = NoFiles
    /\ recv = [pc |-> "idle", offset |-> 0, staged |-> NoFiles, entries |-> <<>>]
    /\ damages = 0
    /\ verify = [pc |-> "idle", at |-> 1, found |-> NoFiles, problems |-> {}, quiet |-> TRUE]

-----------------------------------------------------------------------------
(***************************************************************************)
(* The sender: pack.Create                                                 *)
(***************************************************************************)

\* Somebody changes, adds or removes a file while it is packed.
Edit(f, new) ==
    /\ edits < MaxEdits /\ pack.pc \in {"walk", "write"} /\ tree[f] # new
    /\ tree' = [tree EXCEPT ![f] = new] /\ edits' = edits + 1
    /\ UNCHANGED <<pack, dataset, recv, damages, verify>>

\* ValidateName: the colon of a drive is looked for at the second byte, where a
\* name whose first character is wide has none.
ValidateName(name) ==
    FirstError(<<When(name.len = 0 \/ name.len > MAX_NAME_LEN, "PathTraversal"),
                 When(name.refused \ (IF name.wide THEN {"drive"} ELSE {}) # {}, "PathTraversal"),
                 When(\E i \in DOMAIN name.path : name.path[i] = "..", "PathTraversal")>>, "Ok")

TotalSize(entries) == FoldFunction(LAMBDA e, total : e.size + total, 0, entries)
PackTo(pc) == [pack EXCEPT !.pc = pc]

\* sort.Slice, an entry at a time: the walk meets the files in order here.
sorted(entries, e) == Append(entries, e)

\* What Info says of a file: nothing if it is gone, and of a link that has taken
\* its place the link's own size and mode.
Info(file) ==
    IF file = NoFile THEN {}
    ELSE IF file.kind = "regular"
         THEN {[size |-> Len(file.body), executable |-> file.executable]}
         ELSE [size: {Len(body) : body \in Contents}, executable: {TRUE}]

\* collect: the next entry of the directory.  Its type is what the directory said,
\* its size and mode are looked up now.
Walk ==
    /\ pack.pc = "walk" /\ pack.at \in Files
    /\ \/ pack.at \notin pack.listed /\ pack' = [pack EXCEPT !.at = @ + 1]
       \/ /\ pack.at \in pack.listed
          /\ ValidateName(NameOf[pack.at]) # "Ok" \/ Info(tree[pack.at]) = {}
          /\ pack' = PackTo("failed")
       \/ /\ pack.at \in pack.listed /\ ValidateName(NameOf[pack.at]) = "Ok"
          /\ \E info \in Info(tree[pack.at]) :
                pack' = IF info.size > MaxFileSize THEN PackTo("failed")
                        ELSE [pack EXCEPT !.at = @ + 1,
                                  !.entries = sorted(@, [name |-> pack.at, digest |-> <<>>,
                                                         size |-> info.size,
                                                         executable |-> info.executable])]
    /\ UNCHANGED <<tree, edits, dataset, recv, damages, verify>>

\* collect, after the walk.
Collected ==
    /\ pack.pc = "walk" /\ pack.at \notin Files
    /\ pack' = IF Len(pack.entries) > MAX_FILE_COUNT \/ TotalSize(pack.entries) > MaxTotalSize
               THEN PackTo("failed") ELSE [PackTo("write") EXCEPT !.at = 1]
    /\ UNCHANGED <<tree, edits, dataset, recv, damages, verify>>

\* The entry as the archive carries it, without a digest.
EntryHead(e) == [name |-> e.name, size |-> e.size, executable |-> e.executable]

\* Fault: a file that changed size is packed all the same.
writeEntry_any(e, body) == [ok |-> TRUE, bytes |-> <<EntryHead(e)>> \o body, digest |-> body]

\* writeEntry: the digest is of the bytes that were packed.
writeEntry(e, body) ==
    [ok |-> Len(body) = e.size, bytes |-> <<EntryHead(e)>> \o body, digest |-> body]

\* Create: the next entry is written.  os.Open fails on a file that is gone.
WriteEntry ==
    /\ pack.pc = "write" /\ pack.at \in DOMAIN pack.entries
    /\ LET e == pack.entries[pack.at]
           w == writeEntry(e, tree[e.name].body)
       IN  pack' = IF tree[e.name] = NoFile \/ ~w.ok THEN PackTo("failed")
                   ELSE [pack EXCEPT !.at = @ + 1, !.out = @ \o w.bytes,
                             !.entries[pack.at].digest = w.digest]
    /\ UNCHANGED <<tree, edits, dataset, recv, damages, verify>>

\* entries_from: a name is UTF-8 and valid.
Describable(name) == name.utf8 /\ validate_name(name) = "Ok"

\* runSend: the encoder took the archive, the manifest takes the inventory or
\* turns a name down.
Packed ==
    /\ pack.pc = "write" /\ pack.at \notin DOMAIN pack.entries
    /\ pack' = PackTo(IF \A i \in DOMAIN pack.entries : Describable(NameOf[pack.entries[i].name])
                      THEN "sent" ELSE "undescribed")
    /\ UNCHANGED <<tree, edits, dataset, recv, damages, verify>>

-----------------------------------------------------------------------------
(***************************************************************************)
(* The receiver: extractAtomically and reconcile                           *)
(***************************************************************************)

\* Extract, before its loop.
StartExtract ==
    /\ pack.pc = "sent" /\ recv.pc = "idle"
    /\ recv' = [recv EXCEPT !.pc = "extract"]
    /\ UNCHANGED <<tree, edits, pack, dataset, damages, verify>>

\* readEntry: "Truncated" when there is no head, or fewer bytes than it says.
IsHead(offset) ==
    offset < Len(pack.out) /\ DOMAIN pack.out[offset + 1] = {"name", "size", "executable"}
readEntry(offset) ==
    FirstError(<<When(~IsHead(offset), "Truncated"),
                 When(IsHead(offset) /\ offset + 1 + pack.out[offset + 1].size > Len(pack.out),
                      "Truncated")>>, "Ok")

\* writeFile: a regular file with the entry's mode.
writeFile(e, body) == [kind |-> "regular", body |-> body, executable |-> e.executable]

\* Extract, the next entry.  A file that is there already is not overwritten.
\* After an error nothing staged is published (whether it is removed: Receiver).
ExtractEntry ==
    /\ recv.pc = "extract" /\ Len(recv.entries) < Len(pack.entries)
    /\ LET e == pack.out[recv.offset + 1]
           body == SubSeq(pack.out, recv.offset + 2, recv.offset + 1 + e.size)
       IN  recv' =
              IF readEntry(recv.offset) # "Ok" \/ recv.staged[e.name] # NoFile
              THEN [recv EXCEPT !.pc = "failed", !.staged = NoFiles]
              ELSE [recv EXCEPT !.offset = @ + 1 + e.size,
                        !.staged[e.name] = writeFile(e, body), !.entries = Append(@, e)]
    /\ UNCHANGED <<tree, edits, pack, dataset, damages, verify>>

\* os.Rename: the dataset appears at once.
Publish ==
    /\ recv.pc = "extract" /\ Len(recv.entries) = Len(pack.entries)
    /\ dataset' = recv.staged
    /\ recv' = [recv EXCEPT !.pc = "published"]
    /\ UNCHANGED <<tree, edits, pack, damages, verify>>

\* reconcile: entry by entry, without the digests, which an archive does not have.
reconcile(extracted, inventory) ==
    /\ Len(extracted) = Len(inventory)
    /\ \A i \in DOMAIN inventory : extracted[i] = EntryHead(inventory[i])

Reconcile ==
    /\ recv.pc = "published"
    /\ recv' = [recv EXCEPT !.pc = IF reconcile(recv.entries, pack.entries)
                                   THEN "received" ELSE "mismatch"]
    /\ UNCHANGED <<tree, edits, pack, dataset, damages, verify>>

-----------------------------------------------------------------------------
(***************************************************************************)
(* dhow verify                                                             *)
(***************************************************************************)

\* The dataset changes where it lies, perhaps while it is verified.
Damage(f, new) ==
    /\ damages < MaxDamages /\ recv.pc \in {"received", "mismatch"}
    /\ verify.pc # "done" /\ dataset[f] # new
    /\ dataset' = [dataset EXCEPT ![f] = new] /\ damages' = damages + 1
    /\ verify' = [verify EXCEPT !.quiet = verify.pc = "idle"]
    /\ UNCHANGED <<tree, edits, pack, recv>>

\* walkDataset.
WalkDataset ==
    /\ recv.pc = "received" /\ verify.pc = "idle"
    /\ verify' = [verify EXCEPT !.pc = "check", !.found =
                      [f \in Files |-> IF Regular(dataset, f) THEN dataset[f] ELSE NoFile]]
    /\ UNCHANGED <<tree, edits, pack, dataset, recv, damages>>

\* Fault: the contents are not looked at when the mode is wrong.
Problems_mode(e, fi, now) ==
    IF fi = NoFile THEN {"missing"}
    ELSE IF Len(fi.body) # e.size THEN {"size"}
    ELSE IF fi.executable # e.executable THEN {"mode"}
    ELSE IF now = NoFile THEN {"unreadable"}
    ELSE IF now.body # e.digest THEN {"content"} ELSE {}

\* inspectDataset, one entry: size and mode are what the walk found, the
\* contents are read now.
Problems(e, fi, now) ==
    IF fi = NoFile THEN {"missing"}
    ELSE IF Len(fi.body) # e.size THEN {"size"}
    ELSE (IF fi.executable # e.executable THEN {"mode"} ELSE {})
         \cup (IF now = NoFile THEN {"unreadable"}
               ELSE IF now.body # e.digest THEN {"content"} ELSE {})

CheckEntry ==
    /\ verify.pc = "check" /\ verify.at \in DOMAIN pack.entries
    /\ LET e == pack.entries[verify.at]
       IN  verify' = [verify EXCEPT !.at = @ + 1, !.problems = @ \cup
                          {<<e.name, p>> : p \in Problems(e, verify.found[e.name], dataset[e.name])}]
    /\ UNCHANGED <<tree, edits, pack, dataset, recv, damages>>

Expected == {pack.entries[i].name : i \in DOMAIN pack.entries}

\* inspectDataset, its end: the files nobody sent.
CheckExtra ==
    /\ verify.pc = "check" /\ verify.at \notin DOMAIN pack.entries
    /\ verify' = [verify EXCEPT !.pc = "done", !.problems = @ \cup
                      {<<f, "unexpected">> : f \in {g \in Files \ Expected : verify.found[g] # NoFile}}]
    /\ UNCHANGED <<tree, edits, pack, dataset, recv, damages>>

ArchiveNext ==
    \/ \E f \in Files, new \in FileState \cup {NoFile} : Edit(f, new) \/ Damage(f, new)
    \/ Walk \/ Collected \/ WriteEntry \/ Packed
    \/ StartExtract \/ ExtractEntry \/ Publish \/ Reconcile
    \/ WalkDataset \/ CheckEntry \/ CheckExtra

ArchiveSpec == ArchiveInit /\ [][ArchiveNext]_archiveVars

-----------------------------------------------------------------------------
(***************************************************************************)
(* Properties                                                              *)
(***************************************************************************)

\* An archive that was sent is extracted, and agrees with the signed inventory,
\* however the files changed while they were packed (writeEntry, Extract,
\* reconcile: "a defect in dhow, not a damaged transfer").
SentIsReceived == recv.pc \notin {"failed", "mismatch"}

\* What the dataset and the inventory differ in, of the regular files.
SameAsSent(f) ==
    IF f \in Expected
    THEN Regular(dataset, f) /\ \E i \in DOMAIN pack.entries :
             /\ pack.entries[i].name = f
             /\ dataset[f].body = pack.entries[i].digest
             /\ dataset[f].executable = pack.entries[i].executable
    ELSE ~Regular(dataset, f)

\* A received dataset that nobody touched verifies: the inventory's sizes, modes
\* and digests are those of the bytes that were packed.  One that was changed, and
\* then held still, is reported: verify names exactly the files that differ, and
\* names a wrong mode and wrong contents of one file both (writeEntry, writeFile,
\* inspectDataset: "reporting one problem per file would hide the more serious of
\* the two").
VerifyNamesAll ==
    verify.pc = "done" /\ verify.quiet =>
        /\ damages = 0 => verify.problems = {}
        /\ {p[1] : p \in verify.problems} = {f \in Files : ~SameAsSent(f)}
        /\ \A i \in DOMAIN pack.entries :
               LET e == pack.entries[i]
                   now == dataset[e.name]
               IN  Regular(dataset, e.name) /\ Len(now.body) = e.size /\ now.body # e.digest
                       => <<e.name, "content">> \in verify.problems

\* pack.ValidateName: "a name that one accepts and the other rejects would be a
\* gap between them".
NamesAgree == pack.pc # "undescribed"
=============================================================================
