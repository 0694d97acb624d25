---------------------------- MODULE ManifestFormat ----------------------------
(***************************************************************************)
(* The manifest: core/dhow-codec/src/manifest.rs (names, entries, header,   *)
(* parser) and core/dhow-crypt/src/manifest.rs (signature and policy).      *)
(*                                                                         *)
(* The bytes of a manifest are a record with one field per field of the     *)
(* layout.  The CRC is the bytes it was computed over and a signature is    *)
(* its key and the bytes it was made over: a CRC can be computed for any    *)
(* bytes, a signature only by who has the key.  A name is what              *)
(* validate_name looks at: its length, the characters and prefixes that     *)
(* are refused, and its components.                                         *)
(***************************************************************************)
EXTENDS Integers, Sequences, Functions, Checks

CONSTANTS
    MAX_NAME_LEN,    \* 4096
    MAX_FILE_COUNT,  \* 1000000
    U64,             \* 2^64
    MaxTotalSize,    \* Policy::max_total_size, 64 GiB
    MaxFileSize      \* Policy::max_file_size, 16 GiB

ASSUME FormatAssumption ==
    /\ {MAX_NAME_LEN, MAX_FILE_COUNT, MaxTotalSize, MaxFileSize} \subseteq Nat
    /\ U64 \in Nat \ {0} /\ MaxTotalSize < U64 /\ MaxFileSize < U64

MANIFEST_VERSION == 2

\* Policy::default.
Policy == [max_total_size |-> MaxTotalSize, max_file_size |-> MaxFileSize,
           max_file_count |-> MAX_FILE_COUNT]

-----------------------------------------------------------------------------
(***************************************************************************)
(* Names and entries                                                       *)
(***************************************************************************)

\* FileEntry, its name as validate_name sees it.
FileEntry ==
    [name: [len: Nat, refused: SUBSET STRING, path: Seq(STRING)],
     size: Nat, digest: STRING, executable: BOOLEAN]

\* refused: a NUL, a backslash, a leading slash, a drive prefix.
validate_name(name) ==
    FirstError(<<When(name.len = 0, "PathTraversal"),
                 When(name.len > MAX_NAME_LEN, "FileNameTooLong"),
                 When(name.refused # {}, "PathTraversal"),
                 When(\E i \in DOMAIN name.path : name.path[i] = "..", "PathTraversal")>>, "Ok")

\* FileEntry::flags: bit 0 is the owner execute bit.
flags(entry) == IF entry.executable THEN {0} ELSE {}

\* FileEntry::to_vec.  cut is what of an entry is missing.
EntryBytes(entry) ==
    [name |-> entry.name, utf8 |-> TRUE, size |-> entry.size, digest |-> entry.digest,
     flags |-> flags(entry), cut |-> "nothing"]

\* FileEntry::from_bytes, its checks.
EntryError(e) ==
    FirstError(<<When(e.cut = "length", "Truncated"),
                 When(e.name.len > MAX_NAME_LEN, "FileNameTooLong"),
                 When(e.cut = "rest", "Truncated"),
                 When(~e.utf8, "Malformed"),
                 Pass(validate_name(e.name)),
                 When(e.flags \ {0} # {}, "Malformed")>>, "Ok")

\* FileEntry::from_bytes, the entry it returns.
EntryFrom(e) ==
    [name |-> e.name, size |-> e.size, digest |-> e.digest, executable |-> 0 \in e.flags]

-----------------------------------------------------------------------------
(***************************************************************************)
(* The manifest and its bytes                                              *)
(***************************************************************************)

\* crc_covered_bytes: the header up to the CRC.
crc_covered_bytes(m) == <<m.magic, m.version, m.reserved, m.header, m.reserved2>>

\* ManifestHeader::new, Manifest::build with no signature, and to_vec.
ManifestBytes(header, entries) ==
    [have |-> "all", magic |-> TRUE, version |-> MANIFEST_VERSION,
     reserved |-> 0, header |-> header, reserved2 |-> 0,
     crc |-> <<TRUE, MANIFEST_VERSION, 0, header, 0>>,
     signature |-> <<>>, entries |-> [i \in DOMAIN entries |-> EntryBytes(entries[i])],
     tail |-> FALSE]

\* ManifestHeader::new: the count is that of the entries.
ManifestHeader(session_id, entries, total_size, salt, nonce, params) ==
    [session_id |-> session_id, file_count |-> Len(entries), total_size |-> total_size,
     salt |-> salt, nonce |-> nonce, params |-> params]

\* ManifestHeader::from_bytes.  Magic and version come before the length.
HeaderError(m) ==
    FirstError(<<When(m.have = "stub", "Truncated"),
                 When(~m.magic, "InvalidMagic"),
                 When(m.version # MANIFEST_VERSION, "UnsupportedVersion"),
                 When(m.have = "part", "Truncated"),
                 When(m.reserved # 0, "Malformed"),
                 When(m.reserved2 # 0, "Malformed"),
                 When(m.crc # crc_covered_bytes(m), "CrcMismatch")>>, "Ok")

\* Manifest::from_bytes, the loop over the declared number of entries.
EntriesError(m) ==
    FirstError([i \in 1 .. m.header.file_count |->
                   IF i > Len(m.entries) THEN Pass("Truncated")
                   ELSE Pass(EntryError(m.entries[i]))], "Ok")

\* Manifest::from_bytes, its checks.
ManifestError(m) ==
    FirstError(<<Pass(HeaderError(m)),
                 When(m.header.file_count > MAX_FILE_COUNT, "InvalidFileCount"),
                 Pass(EntriesError(m)),
                 When(Len(m.entries) > m.header.file_count \/ m.tail, "Malformed")>>, "Ok")

\* Manifest::from_bytes, the manifest it returns.
ManifestFrom(m) ==
    [header |-> m.header, entries |-> [i \in DOMAIN m.entries |-> EntryFrom(m.entries[i])]]

-----------------------------------------------------------------------------
(***************************************************************************)
(* Signature and policy                                                    *)
(***************************************************************************)

\* Fault: the flags of the entries are not covered.
signing_bytes_flags(m) ==
    [m EXCEPT !.signature = <<>>,
              !.entries = [i \in DOMAIN @ |-> [@[i] EXCEPT !.flags = {}]]]

\* signing_bytes and signing_bytes_of: everything, with the signature zeroed.
signing_bytes(m) == [m EXCEPT !.signature = <<>>]

\* sign_manifest.
sign_manifest(identity, m) == [m EXCEPT !.signature = <<identity, signing_bytes(m)>>]

\* The sum of the sizes of some entries.
SizeOf(entries) == FoldFunction(LAMBDA e, sum : e.size + sum, 0, entries)

\* entries_from: what dhow_manifest_build turns away.
EntriesRefused(entries) == \E i \in DOMAIN entries : validate_name(entries[i].name) # "Ok"

\* The bytes dhow_manifest_build signs.  The total is a sum of 64 bits.
BuiltBytes(identity, session_id, salt, nonce, params, entries) ==
    sign_manifest(identity,
        ManifestBytes(ManifestHeader(session_id, entries, SizeOf(entries) % U64, salt, nonce,
                                     params), entries))

\* convert_codec_error.
convert_codec_error(error) == IF error = "InvalidFileCount" THEN "InvalidBlockCount" ELSE error

\* verify_signature: parse, then the signature of the expected signer.
SignatureError(signer, m) ==
    FirstError(<<Pass(convert_codec_error(ManifestError(m))),
                 When(m.signature # <<signer, signing_bytes(m)>>,
                      "SignatureVerificationFailed")>>, "Ok")

\* SessionParams::validate.
ValidParams(params) ==
    /\ params.block_count # 0
    /\ params.symbol_size # 0
    /\ params.total_symbols_per_block >= params.source_symbols_per_block

\* check_policy, one turn of its loop: the sum is checked for overflow.
EntryPolicyError(entries, i, policy) ==
    FirstError(<<Pass(validate_name(entries[i].name)),
                 When(entries[i].size > policy.max_file_size, "FileSizeTooLarge"),
                 When(SizeOf(SubSeq(entries, 1, i)) >= U64, "FileSizeTooLarge")>>, "Ok")

\* Fault: the entries are not added up.
check_policy_unsummed(manifest, policy) ==
    FirstError(<<When(~ValidParams(manifest.header.params), "Malformed"),
                 When(manifest.header.file_count > policy.max_file_count, "InvalidBlockCount"),
                 When(Len(manifest.entries) # manifest.header.file_count, "InvalidBlockCount"),
                 When(manifest.header.total_size > policy.max_total_size, "FileSizeTooLarge")>>,
               "Ok")

\* Fault: a dataset of exactly the largest size is refused.
check_policy_strict(manifest, policy) ==
    FirstError(<<When(~ValidParams(manifest.header.params), "Malformed"),
                 When(manifest.header.total_size >= policy.max_total_size, "FileSizeTooLarge"),
                 When(SizeOf(manifest.entries) # manifest.header.total_size, "FileSizeTooLarge")>>,
               "Ok")

\* check_policy.
check_policy(manifest, policy) ==
    LET header == manifest.header
        entries == manifest.entries
    IN  FirstError(<<When(~ValidParams(header.params), "Malformed"),
                     When(header.file_count > policy.max_file_count, "InvalidBlockCount"),
                     When(Len(entries) # header.file_count, "InvalidBlockCount"),
                     When(header.total_size > policy.max_total_size, "FileSizeTooLarge")>>
                   \o [i \in DOMAIN entries |-> Pass(EntryPolicyError(entries, i, policy))]
                   \o <<When(SizeOf(entries) # header.total_size, "FileSizeTooLarge")>>, "Ok")

\* The verdict of a stage of the checks.
Stage(stage, error) == When(error # "Ok", [stage |-> stage, error |-> error])

\* Fault: policy is applied to bytes whose signature nobody checked yet.
verify_manifest_with_policy(signer, m, session, policy) ==
    LET parsed == convert_codec_error(ManifestError(m))
        judged == IF parsed = "Ok" THEN check_policy(ManifestFrom(m), policy) ELSE "Ok"
    IN  FirstError(<<Stage("parse", parsed),
                     Stage("policy", judged),
                     Stage("signature", SignatureError(signer, m))>>,
                   [stage |-> "verified", error |-> "Ok"])

\* verify_manifest_with.  session is the set of the session expected, or empty.
\* stage says how far the checks went.
verify_manifest_with(signer, m, session, policy) ==
    LET parsed == convert_codec_error(ManifestError(m))
        judged == IF parsed = "Ok" THEN check_policy(ManifestFrom(m), policy) ELSE "Ok"
        bound == session = {} \/ m.header.session_id \in session
    IN  FirstError(<<Stage("parse", parsed),
                     Stage("signature", SignatureError(signer, m)),
                     Stage("session", IF bound THEN "Ok" ELSE "SessionMismatch"),
                     Stage("policy", judged)>>,
                   [stage |-> "verified", error |-> "Ok"])
=============================================================================
