------------------------------- MODULE Manifest -------------------------------
(***************************************************************************)
(* A manifest from the sender that signs it to the receiver that verifies   *)
(* it: dhow_manifest_build and dhow_manifest_verify of                      *)
(* core/dhow-ffi/src/handle.rs over the formats of ManifestFormat.          *)
(*                                                                         *)
(* The channel is a file somebody carries.  Between the two it may be       *)
(* damaged or rewritten in any field, its CRC recomputed or not, and the    *)
(* signature of any manifest that was ever signed put on it.                *)
(***************************************************************************)
EXTENDS ManifestFormat, FiniteSets

CONSTANTS
    Identities, Sessions, Salts, Nonces, ParamSets, \* what send is run with
    Inventories,     \* the sequences of entries a sender may have
    OtherEntries,    \* entries the channel may put in, as bytes
    OtherSizes,      \* totals and counts the channel may declare
    MaxChanges       \* manifests signed and changes by the channel, together

ASSUME ManifestAssumption == MaxChanges \in Nat /\ Inventories \subseteq Seq(FileEntry)

VARIABLES
    signed,   \* the manifests signed so far, as bytes
    wire,     \* the bytes in the file, once there is one
    rewrites, \* how often the channel touched them
    verdict   \* what the last verification of these bytes returned

manifestVars == <<signed, wire, rewrites, verdict>>

NoVerdict == [stage |-> "none", error |-> "Ok", signer |-> {}, session |-> {}]

ManifestInit ==
    /\ signed = {} /\ wire = {} /\ rewrites = 0 /\ verdict = NoVerdict

-----------------------------------------------------------------------------

\* dhow_manifest_build.  The signed bytes are parsed back before they are
\* handed out.  A total that overflows wraps in a release build; a debug build
\* panics, and the guard makes that a refusal.
Build ==
    \E identity \in Identities, session_id \in Sessions, salt \in Salts, nonce \in Nonces,
       params \in ParamSets, entries \in Inventories :
        LET bytes == BuiltBytes(identity, session_id, salt, nonce, params, entries)
        IN  /\ ~EntriesRefused(entries)
            /\ ManifestError(bytes) = "Ok"
            /\ Cardinality(signed) + rewrites < MaxChanges
            /\ signed' = signed \cup {bytes}
            /\ wire' = {bytes}
            /\ verdict' = NoVerdict
            /\ UNCHANGED rewrites

\* The channel changes one field, with or without a new CRC.
Altered(m) ==
    {[m EXCEPT !.magic = FALSE], [m EXCEPT !.version = 1], [m EXCEPT !.reserved = 1],
     [m EXCEPT !.reserved2 = 1], [m EXCEPT !.tail = TRUE]}
    \cup {[m EXCEPT !.header.session_id = s] : s \in Sessions}
    \cup {[m EXCEPT !.header.salt = s] : s \in Salts}
    \cup {[m EXCEPT !.header.nonce = n] : n \in Nonces}
    \cup {[m EXCEPT !.header.params = p] : p \in ParamSets}
    \cup {[m EXCEPT !.header.total_size = n] : n \in OtherSizes}
    \cup {[m EXCEPT !.header.file_count = n] : n \in OtherSizes}
    \cup {[m EXCEPT !.entries[i] = e] : i \in DOMAIN m.entries, e \in OtherEntries}
    \cup {[m EXCEPT !.entries = Append(@, m.entries[i])] : i \in DOMAIN m.entries}
    \cup {[m EXCEPT !.entries = SubSeq(@, 2, Len(@))]}
    \cup {[m EXCEPT !.signature = s.signature] : s \in signed}
    \cup {[m EXCEPT !.have = h, !.entries = <<>>] : h \in {"stub", "part"}}

Rewrite ==
    /\ Cardinality(signed) + rewrites < MaxChanges
    /\ \E m \in wire : \E a \in Altered(m) :
        \/ wire' = {a}
        \/ wire' = {[a EXCEPT !.crc = crc_covered_bytes(a)]}
    /\ rewrites' = rewrites + 1
    /\ verdict' = NoVerdict
    /\ UNCHANGED signed

\* dhow_manifest_verify, against the public identity and, for a receiver that
\* has one, the session it expects.  It depends on nothing but the bytes, so
\* it is done once for each pair.
Verify ==
    /\ verdict = NoVerdict
    /\ \E m \in wire, signer \in Identities, session \in {{}} \cup {{s} : s \in Sessions} :
        LET v == verify_manifest_with(signer, m, session, Policy)
        IN  verdict' = [stage |-> v.stage, error |-> v.error,
                        signer |-> {signer}, session |-> session]
    /\ UNCHANGED <<signed, wire, rewrites>>

ManifestNext == Build \/ Rewrite \/ Verify

ManifestSpec == ManifestInit /\ [][ManifestNext]_manifestVars

-----------------------------------------------------------------------------
(***************************************************************************)
(* Properties                                                              *)
(***************************************************************************)

Verified == verdict.stage = "verified"

\* What the receiver accepts is, in every field and every entry, what the
\* owner of the identity signed, and for the session the receiver expected if
\* it expected one, whatever the file went through (verify_manifest_with).
AcceptedWasSigned ==
    Verified =>
        \A m \in wire :
            /\ \E s \in signed :
                /\ m = s
                /\ verdict.signer = {s.signature[1]}
            /\ verdict.session \subseteq {m.header.session_id}

\* A component sequence that, followed from a directory, leaves it.
Leaves(path) ==
    \E n \in DOMAIN path :
        LET up == {i \in 1 .. n : path[i] = ".."}
            down == {i \in 1 .. n : path[i] \notin {"..", "."}}
        IN  Cardinality(up) > Cardinality(down)

\* An accepted inventory is what it says: as many entries as declared, sizes
\* that add up to the declared total with no wrap-around, the total within the
\* policy, and no name that leads out of the output directory (check_policy).
InventoryAddsUp ==
    Verified =>
        \A m \in wire :
            /\ Len(m.entries) = m.header.file_count
            /\ SizeOf(m.entries) = m.header.total_size
            /\ SizeOf(m.entries) <= MaxTotalSize
            /\ \A i \in DOMAIN m.entries :
                ~Leaves(m.entries[i].name.path) /\ m.entries[i].name.refused = {}

\* Limits are judged only on what the signer really said: a verdict about the
\* session or the policy is about bytes its signature covers ("policy only to a
\* manifest whose signature already verified").
PolicyOnlyOnSigned ==
    verdict.stage \in {"session", "policy"} =>
        \A m \in wire : \E s \in signed :
            /\ verdict.signer = {s.signature[1]}
            /\ signing_bytes(m) = signing_bytes(s)

\* A sender whose dataset is within the limits is understood: bytes that reach
\* the receiver as they were signed are accepted by who holds the identity and
\* expects this session, or none (build and verify agree on every check).
HonestAccepted ==
    \A m \in wire \cap signed :
        /\ verdict.signer = {m.signature[1]}
        /\ verdict.session \subseteq {m.header.session_id}
        /\ ValidParams(m.header.params)
        /\ SizeOf(m.entries) <= MaxTotalSize
        /\ \A i \in DOMAIN m.entries : m.entries[i].size <= MaxFileSize
        => Verified
=============================================================================
