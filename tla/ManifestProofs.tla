---------------------------- MODULE ManifestProofs ----------------------------
(***************************************************************************)
(* What a receiver accepts was signed, for every manifest, any number of    *)
(* signers and any number of changes on the way.                            *)
(***************************************************************************)
EXTENDS Manifest, ManifestFormatProofs

\* Everything signed is signed over its own bytes.
SignedOwn ==
    \A s \in signed :
        /\ IsBytes(s)
        /\ s.signature = <<s.signature[1], signing_bytes(s)>>

\* There is one file, and the signature on it is one that was once made.
WireBorrows ==
    /\ \A m, n \in wire : m = n
    /\ \A m \in wire : IsBytes(m) /\ \E s \in signed : m.signature = s.signature

\* Everything signed could be read back and is what dhow_manifest_build makes of
\* an inventory: valid names, their number, and their total as 64 bits hold it.
Inventoried(s) ==
    /\ ManifestError(s) = "Ok"
    /\ \E n \in Nat : s.entries = [i \in 1 .. n |-> s.entries[i]] /\ s.header.file_count = n
    /\ s.header.total_size = SizeOf(s.entries) % U64
    /\ \A i \in DOMAIN s.entries :
        /\ s.entries[i].size \in Nat /\ s.entries[i].name.path \in Seq(STRING)
        /\ validate_name(s.entries[i].name) = "Ok"

SignedInventoried == \A s \in signed : Inventoried(s)

\* A verdict is what verify_manifest_with says of the bytes that are there.
VerdictOfWire ==
    \/ verdict = NoVerdict
    \/ \E signer : /\ verdict.signer = {signer}
                   /\ \A m \in wire :
                        verdict.stage =
                            verify_manifest_with(signer, m, verdict.session, Policy).stage

\* The inductive invariant.
ManifestIInv ==
    /\ SignedOwn /\ WireBorrows /\ SignedInventoried /\ VerdictOfWire
    /\ AcceptedWasSigned /\ PolicyOnlyOnSigned

\* The channel keeps the layout and makes no signature of its own.
LEMMA AlteredBorrows ==
    ASSUME NEW m, IsBytes(m), NEW a \in Altered(m)
    PROVE  /\ IsBytes(a)
           /\ a.signature = m.signature \/ \E s \in signed : a.signature = s.signature
<1>1. CASE a \in {[m EXCEPT !.magic = FALSE], [m EXCEPT !.version = 1], [m EXCEPT !.reserved = 1],
                  [m EXCEPT !.reserved2 = 1], [m EXCEPT !.tail = TRUE]}
  BY <1>1 DEF IsBytes
<1>2. ASSUME NEW h, a = [m EXCEPT !.header = h]
      PROVE  IsBytes(a) /\ a.signature = m.signature
  BY <1>2 DEF IsBytes
<1>3. ASSUME NEW e, a = [m EXCEPT !.entries = e]
      PROVE  IsBytes(a) /\ a.signature = m.signature
  BY <1>3 DEF IsBytes
<1>4. CASE a \in {[m EXCEPT !.signature = s.signature] : s \in signed}
  BY <1>4 DEF IsBytes
<1>5. CASE a \in {[m EXCEPT !.have = h, !.entries = <<>>] : h \in {"stub", "part"}}
  BY <1>5 DEF IsBytes
<1>6. CASE \/ a \in {[m EXCEPT !.header.session_id = s] : s \in Sessions}
           \/ a \in {[m EXCEPT !.header.salt = s] : s \in Salts}
           \/ a \in {[m EXCEPT !.header.nonce = n] : n \in Nonces}
           \/ a \in {[m EXCEPT !.header.params = p] : p \in ParamSets}
           \/ a \in {[m EXCEPT !.header.total_size = n] : n \in OtherSizes}
           \/ a \in {[m EXCEPT !.header.file_count = n] : n \in OtherSizes}
  BY <1>2, <1>6
<1>7. CASE \/ a \in {[m EXCEPT !.entries[i] = e] : i \in DOMAIN m.entries, e \in OtherEntries}
           \/ a \in {[m EXCEPT !.entries = Append(@, m.entries[i])] : i \in DOMAIN m.entries}
           \/ a \in {[m EXCEPT !.entries = SubSeq(@, 2, Len(@))]}
  BY <1>3, <1>7
<1>. QED
  BY <1>1, <1>4, <1>5, <1>6, <1>7 DEF Altered

\* What dhow_manifest_build signs after its checks.
LEMMA BuiltInventoried ==
    ASSUME NEW identity, NEW session_id, NEW salt, NEW nonce, NEW params,
           NEW entries \in Inventories, NEW s,
           s = BuiltBytes(identity, session_id, salt, nonce, params, entries),
           ~EntriesRefused(entries), ManifestError(s) = "Ok"
    PROVE  Inventoried(s)
<1>1. entries \in Seq(FileEntry)
  BY ManifestAssumption
<1>. DEFINE n == Len(entries)
<1>2. n \in Nat /\ DOMAIN entries = 1 .. n /\ \A i \in 1 .. n : entries[i] \in FileEntry
  BY <1>1
<1>3. /\ s.header.file_count = n /\ s.header.total_size = SizeOf(entries) % U64
      /\ s.entries = [i \in DOMAIN entries |-> EntryBytes(entries[i])]
  BY BuiltFields
<1>. HIDE DEF n
<1>4. DOMAIN s.entries = DOMAIN entries /\ s.entries = [i \in 1 .. n |-> s.entries[i]]
  BY <1>2, <1>3
<1>5. \A i \in 1 .. n : s.entries[i].size = entries[i].size /\ s.entries[i].name = entries[i].name
  BY <1>2, <1>3 DEF EntryBytes
<1>6. \A i \in 1 .. n : entries[i].size \in Nat /\ entries[i].name.path \in Seq(STRING)
  BY <1>2 DEF FileEntry
<1>7. \A i \in 1 .. n : validate_name(entries[i].name) = "Ok"
  BY <1>2 DEF EntriesRefused
<1>8. SizeOf(s.entries) = SizeOf(entries)
  <2>1. IsFiniteSet(1 .. n)
    BY <1>2, FS_Interval
  <2>. QED
    BY <1>2, <1>4, <1>5, <2>1, SizeOfSame
<1>. QED
  BY <1>2, <1>3, <1>4, <1>5, <1>6, <1>7, <1>8 DEF Inventoried

\* A new manifest is signed by its sender, and nobody has judged it.
LEMMA BuildKeeps ==
    ASSUME ManifestIInv, Build
    PROVE  ManifestIInv'
<1>1. PICK identity \in Identities, session_id \in Sessions, salt \in Salts, nonce \in Nonces,
           params \in ParamSets, entries \in Inventories :
        /\ signed' = signed \cup {BuiltBytes(identity, session_id, salt, nonce, params, entries)}
        /\ wire' = {BuiltBytes(identity, session_id, salt, nonce, params, entries)}
        /\ verdict' = NoVerdict
        /\ ~EntriesRefused(entries)
        /\ ManifestError(BuiltBytes(identity, session_id, salt, nonce, params, entries)) = "Ok"
  BY DEF Build
<1>. DEFINE b == BuiltBytes(identity, session_id, salt, nonce, params, entries)
<1>2. IsBytes(b) /\ b.signature = <<identity, signing_bytes(b)>>
  BY BuiltIsSigned
<1>3. signed' = signed \cup {b} /\ wire' = {b} /\ verdict' = NoVerdict
  BY <1>1
<1>7. Inventoried(b)
  BY <1>1, BuiltInventoried
<1>. HIDE DEF b
<1>4. SignedOwn'
  BY <1>2, <1>3 DEF ManifestIInv, SignedOwn
<1>5. WireBorrows'
  BY <1>2, <1>3 DEF WireBorrows
<1>6. AcceptedWasSigned' /\ PolicyOnlyOnSigned'
  BY <1>3 DEF AcceptedWasSigned, PolicyOnlyOnSigned, Verified, NoVerdict
<1>8. SignedInventoried' /\ VerdictOfWire'
  BY <1>3, <1>7 DEF ManifestIInv, SignedInventoried, VerdictOfWire
<1>. QED
  BY <1>4, <1>5, <1>6, <1>8 DEF ManifestIInv

\* The channel rewrites the file, and nobody has judged it yet.
LEMMA RewriteKeeps ==
    ASSUME ManifestIInv, Rewrite
    PROVE  ManifestIInv'
<1>1. signed' = signed /\ verdict' = NoVerdict
  BY DEF Rewrite
<1>2. PICK m \in wire : \E a \in Altered(m) :
        wire' = {a} \/ wire' = {[a EXCEPT !.crc = crc_covered_bytes(a)]}
  BY DEF Rewrite
<1>3. PICK a \in Altered(m) : wire' = {a} \/ wire' = {[a EXCEPT !.crc = crc_covered_bytes(a)]}
  BY <1>2
<1>4. IsBytes(m) /\ \E s \in signed : m.signature = s.signature
  BY DEF ManifestIInv, WireBorrows
<1>5. IsBytes(a) /\ \E s \in signed : a.signature = s.signature
  BY <1>4, AlteredBorrows
<1>6. \A x \in wire' : IsBytes(x) /\ x.signature = a.signature
  <2>. DEFINE x == [a EXCEPT !.crc = crc_covered_bytes(a)]
  <2>1. IsBytes(x) /\ x.signature = a.signature
    BY <1>5 DEF IsBytes
  <2>. HIDE DEF x
  <2>2. wire' = {a} \/ wire' = {x}
    BY <1>3 DEF x
  <2>. QED
    BY <1>5, <2>1, <2>2
<1>7. SignedOwn'
  BY <1>1 DEF ManifestIInv, SignedOwn
<1>8. WireBorrows'
  BY <1>1, <1>3, <1>5, <1>6 DEF WireBorrows
<1>9. AcceptedWasSigned' /\ PolicyOnlyOnSigned'
  BY <1>1 DEF AcceptedWasSigned, PolicyOnlyOnSigned, Verified, NoVerdict
<1>10. SignedInventoried' /\ VerdictOfWire'
  BY <1>1 DEF ManifestIInv, SignedInventoried, VerdictOfWire
<1>. QED
  BY <1>7, <1>8, <1>9, <1>10 DEF ManifestIInv

\* Bytes whose signature is found right are bytes somebody signed.
LEMMA RightSignatureIsOld ==
    ASSUME ManifestIInv, NEW m \in wire, NEW signer, SignatureError(signer, m) = "Ok"
    PROVE  \E s \in signed : m = s /\ s.signature[1] = signer
<1>1. m.signature = <<signer, signing_bytes(m)>>
  BY SignatureSound
<1>2. PICK s \in signed : m.signature = s.signature
  BY DEF ManifestIInv, WireBorrows
<1>3. IsBytes(m) /\ IsBytes(s) /\ s.signature = <<s.signature[1], signing_bytes(s)>>
  BY DEF ManifestIInv, WireBorrows, SignedOwn
<1>4. s.signature[1] = signer /\ signing_bytes(m) = signing_bytes(s)
  BY <1>1, <1>2, <1>3
<1>5. m = s
  BY <1>2, <1>3, <1>4, SigningBytesDetermine
<1>. QED
  BY <1>4, <1>5

LEMMA VerifyKeeps ==
    ASSUME ManifestIInv, Verify
    PROVE  ManifestIInv'
<1>1. UNCHANGED <<signed, wire>>
  BY DEF Verify
<1>2. PICK m \in wire, signer \in Identities, session \in {{}} \cup {{s} : s \in Sessions} :
        verdict' = [stage |-> verify_manifest_with(signer, m, session, Policy).stage,
                    error |-> verify_manifest_with(signer, m, session, Policy).error,
                    signer |-> {signer}, session |-> session]
  BY DEF Verify
<1>. DEFINE v == verify_manifest_with(signer, m, session, Policy)
<1>3. /\ v.stage \in {"session", "policy", "verified"} => SignatureError(signer, m) = "Ok"
      /\ v.stage = "verified" => session = {} \/ m.header.session_id \in session
  BY VerifyStages
<1>4. verdict'.stage = v.stage /\ verdict'.signer = {signer} /\ verdict'.session = session
  BY <1>2
<1>. HIDE DEF v
<1>5. \A x \in wire : x = m
  BY DEF ManifestIInv, WireBorrows
<1>6. v.stage \in {"session", "policy", "verified"} =>
        \E s \in signed : m = s /\ s.signature[1] = signer
  BY <1>3, RightSignatureIsOld
<1>7. AcceptedWasSigned'
  BY <1>1, <1>2, <1>3, <1>4, <1>5, <1>6 DEF AcceptedWasSigned, Verified
<1>8. PolicyOnlyOnSigned'
  BY <1>1, <1>4, <1>5, <1>6 DEF PolicyOnlyOnSigned
<1>9. SignedOwn' /\ WireBorrows' /\ SignedInventoried'
  BY <1>1 DEF ManifestIInv, SignedOwn, WireBorrows, SignedInventoried
<1>10. VerdictOfWire'
  <2>1. \A x \in wire' : verdict'.stage =
            verify_manifest_with(signer, x, verdict'.session, Policy).stage
    BY <1>1, <1>4, <1>5 DEF v
  <2>. QED
    BY <1>4, <2>1 DEF VerdictOfWire
<1>. QED
  BY <1>7, <1>8, <1>9, <1>10 DEF ManifestIInv

\* The invariant holds whatever is signed, carried and verified.
THEOREM ManifestInvariant == ManifestSpec => []ManifestIInv
<1>1. ManifestInit => ManifestIInv
  BY DEF ManifestInit, ManifestIInv, SignedOwn, WireBorrows, SignedInventoried, VerdictOfWire,
         AcceptedWasSigned, PolicyOnlyOnSigned, Verified, NoVerdict
<1>2. ManifestIInv /\ [ManifestNext]_manifestVars => ManifestIInv'
  <2>. SUFFICES ASSUME ManifestIInv, [ManifestNext]_manifestVars PROVE ManifestIInv'
    OBVIOUS
  <2>1. CASE UNCHANGED manifestVars
    BY <2>1 DEF manifestVars, ManifestIInv, SignedOwn, WireBorrows, SignedInventoried,
                VerdictOfWire, AcceptedWasSigned, PolicyOnlyOnSigned, Verified
  <2>. QED
    BY <2>1, BuildKeeps, RewriteKeeps, VerifyKeeps DEF ManifestNext
<1>. QED
  BY <1>1, <1>2, PTL DEF ManifestSpec

\* What the receiver accepts is what the owner of the identity signed, in every
\* field and entry, for the session expected (verify_manifest_with).
THEOREM AcceptedSigned == ManifestSpec => []AcceptedWasSigned
<1>1. ManifestIInv => AcceptedWasSigned
  BY DEF ManifestIInv
<1>. QED
  BY <1>1, ManifestInvariant, PTL

\* Session and policy are judged only on what a signature covers
\* (verify_manifest_with checks the signature first).
THEOREM SignedBeforePolicy == ManifestSpec => []PolicyOnlyOnSigned
<1>1. ManifestIInv => PolicyOnlyOnSigned
  BY DEF ManifestIInv
<1>. QED
  BY <1>1, ManifestInvariant, PTL

\* Of what was signed, check_policy lets through exactly what has valid parameters
\* and is within the limits: its own sum never overflows then, and agrees.
LEMMA PolicyOfInventory ==
    ASSUME NEW m, Inventoried(m)
    PROVE  /\ SizeOf(m.entries) \in Nat
           /\ check_policy(ManifestFrom(m), Policy) = "Ok" <=>
                /\ ValidParams(m.header.params)
                /\ SizeOf(m.entries) <= MaxTotalSize
                /\ \A i \in DOMAIN m.entries : m.entries[i].size <= MaxFileSize
<1>. DEFINE p == ManifestFrom(m)
            e == p.entries
            total == SizeOf(m.entries)
<1>1. PICK n \in Nat : m.entries = [i \in 1 .. n |-> m.entries[i]] /\ m.header.file_count = n
  BY DEF Inventoried
<1>2. DOMAIN m.entries = 1 .. n /\ IsFiniteSet(1 .. n)
  BY <1>1, FS_Interval
<1>3. p.header = m.header /\ e = [i \in DOMAIN m.entries |-> EntryFrom(m.entries[i])]
  BY DEF ManifestFrom
<1>4. /\ DOMAIN e = 1 .. n /\ e = [i \in 1 .. n |-> e[i]]
      /\ \A i \in 1 .. n : e[i].size = m.entries[i].size /\ e[i].name = m.entries[i].name
  BY <1>2, <1>3 DEF EntryFrom
<1>. HIDE DEF p, e
<1>5. \A i \in 1 .. n : /\ m.entries[i].size \in Nat /\ e[i].size \in Nat
                        /\ validate_name(e[i].name) = "Ok"
  BY <1>2, <1>4 DEF Inventoried
<1>6. Len(e) = n /\ e \in Seq(Range(e))
  BY <1>4, SequenceOfRange
<1>7. SizeOf(e) = total
  BY <1>2, <1>4, SizeOfSame
<1>8. total \in Nat
  BY <1>2, <1>4, <1>5, <1>7, SizeOfPart
<1>. HIDE DEF total
<1>9. \A i \in 1 .. n : SizeOf(SubSeq(e, 1, i)) \in Nat /\ SizeOf(SubSeq(e, 1, i)) <= total
  <2>. SUFFICES ASSUME NEW i \in 1 .. n
                PROVE  SizeOf(SubSeq(e, 1, i)) \in Nat /\ SizeOf(SubSeq(e, 1, i)) <= total
    OBVIOUS
  <2>. DEFINE f == SubSeq(e, 1, i)
  <2>1. DOMAIN f = 1 .. i /\ \A j \in 1 .. i : f[j] = e[j]
    BY <1>6
  <2>. HIDE DEF f
  <2>2. DOMAIN f \subseteq DOMAIN e /\ \A j \in DOMAIN f : f[j].size = e[j].size
    <3>1. 1 .. i \subseteq 1 .. n
      OBVIOUS
    <3>. QED
      BY <1>4, <2>1, <3>1
  <2>3. SizeOf(f) \in Nat /\ SizeOf(f) <= SizeOf(e)
    BY <1>2, <1>4, <1>5, <2>2, SizeOfPart
  <2>. QED
    BY <1>7, <2>3 DEF f
<1>10. /\ U64 \in Nat \ {0} /\ MaxTotalSize \in Nat /\ MaxTotalSize < U64
       /\ MaxFileSize \in Nat /\ MAX_FILE_COUNT \in Nat
  BY FormatAssumption
<1>11. /\ Policy.max_total_size = MaxTotalSize /\ Policy.max_file_size = MaxFileSize
       /\ Policy.max_file_count = MAX_FILE_COUNT
  BY DEF Policy
<1>12. m.header.total_size = total % U64 /\ ~(n > MAX_FILE_COUNT)
  BY <1>1, ParsedCount DEF Inventoried, total
<1>13. total % U64 \in Nat /\ (total < U64 => total % U64 = total)
  BY <1>8, <1>10
<1>. DEFINE fit == \A i \in 1 .. n : EntryPolicyError(e, i, Policy) = "Ok"
            small == \A i \in 1 .. n : e[i].size <= MaxFileSize
<1>14. check_policy(p, Policy) = "Ok" <=>
          /\ ValidParams(m.header.params) /\ ~(total % U64 > MaxTotalSize)
          /\ fit /\ total = total % U64
  <2>1. DOMAIN p.entries = 1 .. n
    BY <1>4 DEF e
  <2>2. check_policy(p, Policy) = "Ok" <=>
              /\ ValidParams(p.header.params)
              /\ ~(p.header.file_count > Policy.max_file_count)
              /\ Len(p.entries) = p.header.file_count
              /\ ~(p.header.total_size > Policy.max_total_size)
              /\ \A i \in DOMAIN p.entries : EntryPolicyError(p.entries, i, Policy) = "Ok"
              /\ SizeOf(p.entries) = p.header.total_size
    BY <2>1, PolicyExact
  <2>. QED
    BY <1>1, <1>3, <1>4, <1>6, <1>7, <1>11, <1>12, <2>2 DEF e
<1>15. fit => small
  BY <1>5, <1>10, <1>11, EntryPolicyExact
<1>16. small /\ total < U64 => fit
  <2>. SUFFICES ASSUME small, total < U64, NEW i \in 1 .. n
                PROVE  EntryPolicyError(e, i, Policy) = "Ok"
    OBVIOUS
  <2>1. ~(e[i].size > Policy.max_file_size)
    BY <1>5, <1>10, <1>11
  <2>2. ~(SizeOf(SubSeq(e, 1, i)) >= U64)
    BY <1>8, <1>9, <1>10
  <2>. QED
    BY <1>5, <2>1, <2>2, EntryPolicyExact
<1>17. small <=> \A i \in DOMAIN m.entries : m.entries[i].size <= MaxFileSize
  BY <1>2, <1>4
<1>. HIDE DEF fit, small
<1>18. check_policy(p, Policy) = "Ok" <=>
          ValidParams(m.header.params) /\ total <= MaxTotalSize /\ small
  BY <1>8, <1>10, <1>13, <1>14, <1>15, <1>16
<1>. QED
  BY <1>8, <1>17, <1>18 DEF p, total

\* A path without ".." goes nowhere but down.
LEMMA StaysInside ==
    ASSUME NEW path \in Seq(STRING), \A i \in DOMAIN path : path[i] # ".."
    PROVE  ~Leaves(path)
<1>. SUFFICES ASSUME NEW n \in DOMAIN path
              PROVE  ~(Cardinality({i \in 1 .. n : path[i] = ".."})
                        > Cardinality({i \in 1 .. n : path[i] \notin {"..", "."}}))
  BY DEF Leaves
<1>. DEFINE up == {i \in 1 .. n : path[i] = ".."}
            down == {i \in 1 .. n : path[i] \notin {"..", "."}}
<1>1. n \in Nat /\ 1 .. n \subseteq DOMAIN path
  OBVIOUS
<1>2. up = {}
  BY <1>1
<1>3. IsFiniteSet(down)
  BY <1>1, FS_Interval, FS_Subset
<1>. HIDE DEF up, down
<1>4. Cardinality(up) = 0 /\ Cardinality(down) \in Nat
  BY <1>2, <1>3, FS_EmptySet, FS_CardinalityType
<1>. QED
  BY <1>4 DEF up, down

\* An accepted inventory has the entries it declares, of valid names and with sizes that
\* add up to the declared total without wrapping around, within the policy
\* (check_policy's checked sum, over the total dhow_manifest_build wrote unchecked).
THEOREM InventorySound == ManifestSpec => []InventoryAddsUp
<1>1. ManifestIInv => InventoryAddsUp
  <2>. SUFFICES ASSUME ManifestIInv, Verified, NEW m \in wire
                PROVE  /\ Len(m.entries) = m.header.file_count
                       /\ SizeOf(m.entries) = m.header.total_size
                       /\ SizeOf(m.entries) <= MaxTotalSize
                       /\ \A i \in DOMAIN m.entries :
                            ~Leaves(m.entries[i].name.path) /\ m.entries[i].name.refused = {}
    BY DEF InventoryAddsUp
  <2>1. m \in signed
    BY DEF ManifestIInv, AcceptedWasSigned
  <2>2. Inventoried(m)
    BY <2>1 DEF ManifestIInv, SignedInventoried
  <2>3. PICK signer : verdict.stage =
                        verify_manifest_with(signer, m, verdict.session, Policy).stage
    BY DEF ManifestIInv, VerdictOfWire, Verified, NoVerdict
  <2>4. check_policy(ManifestFrom(m), Policy) = "Ok"
    BY <2>3, VerifyStages DEF Verified
  <2>5. SizeOf(m.entries) \in Nat /\ SizeOf(m.entries) <= MaxTotalSize
    BY <2>2, <2>4, PolicyOfInventory
  <2>6. SizeOf(m.entries) = m.header.total_size
    <3>. DEFINE total == SizeOf(m.entries)
    <3>1. m.header.total_size = total % U64
      BY <2>2 DEF Inventoried
    <3>2. total \in Nat /\ U64 \in Nat \ {0} /\ total < U64
      BY <2>5, FormatAssumption
    <3>. HIDE DEF total
    <3>3. total % U64 = total
      BY <3>2
    <3>. QED
      BY <3>1, <3>3 DEF total
  <2>7. Len(m.entries) = m.header.file_count
    BY <2>2, SequenceOfRange DEF Inventoried
  <2>8. \A i \in DOMAIN m.entries :
            ~Leaves(m.entries[i].name.path) /\ m.entries[i].name.refused = {}
    BY <2>2, NameSound, StaysInside DEF Inventoried
  <2>. QED
    BY <2>5, <2>6, <2>7, <2>8
<1>. QED
  BY <1>1, ManifestInvariant, PTL

\* Bytes that arrive as they were signed, within the limits, are accepted by who
\* holds the identity and expects this session or none: dhow_manifest_build never
\* signs what verify_manifest_with would then refuse.
THEOREM HonestUnderstood == ManifestSpec => []HonestAccepted
<1>1. ManifestIInv => HonestAccepted
  <2>. SUFFICES ASSUME ManifestIInv, NEW m \in wire \cap signed,
                       verdict.signer = {m.signature[1]},
                       verdict.session \subseteq {m.header.session_id},
                       ValidParams(m.header.params), SizeOf(m.entries) <= MaxTotalSize,
                       \A i \in DOMAIN m.entries : m.entries[i].size <= MaxFileSize
                PROVE  Verified
    BY DEF HonestAccepted
  <2>. DEFINE signer == m.signature[1]
  <2>1. Inventoried(m) /\ ManifestError(m) = "Ok"
    BY DEF ManifestIInv, SignedInventoried, Inventoried
  <2>2. m.signature = <<signer, signing_bytes(m)>>
    BY DEF ManifestIInv, SignedOwn
  <2>3. verdict.stage = verify_manifest_with(signer, m, verdict.session, Policy).stage
    <3>1. verdict # NoVerdict
      BY DEF NoVerdict
    <3>. QED
      BY <3>1 DEF ManifestIInv, VerdictOfWire
  <2>. HIDE DEF signer
  <2>4. SignatureError(signer, m) = "Ok"
    BY <2>1, <2>2, SignatureComplete
  <2>5. check_policy(ManifestFrom(m), Policy) = "Ok"
    BY <2>1, PolicyOfInventory
  <2>6. verdict.session = {} \/ m.header.session_id \in verdict.session
    OBVIOUS
  <2>7. verify_manifest_with(signer, m, verdict.session, Policy)
            = [stage |-> "verified", error |-> "Ok"]
    BY <2>1, <2>4, <2>5, <2>6, VerifyComplete
  <2>. QED
    BY <2>3, <2>7 DEF Verified
<1>. QED
  BY <1>1, ManifestInvariant, PTL
=============================================================================
