---------------------------------- MODULE Qr ----------------------------------
(***************************************************************************)
(* core/dhow-codec/src/qr.rs: how many bytes a QR code holds, found by      *)
(* searching for the longest input the encoder takes, and what is built on  *)
(* it: the largest symbol, the smallest version, a code of a fixed version. *)
(*                                                                         *)
(* The encoder (qrcodegen, external) takes up to Cap[v] bytes at version v  *)
(* and one error-correction level.                                          *)
(***************************************************************************)
EXTENDS Naturals

CONSTANTS
    MAX_VERSION,     \* 40
    HIGH,            \* 4096, where the search starts
    FRAME_OVERHEAD,  \* the frame header and the RaptorQ payload identifier
    Cap              \* what qrcodegen takes

ASSUME QrAssumption ==
    /\ MAX_VERSION \in Nat \ {0}
    /\ HIGH \in Nat /\ FRAME_OVERHEAD \in Nat
    /\ Cap \in [1 .. MAX_VERSION -> 0 .. HIGH]

VARIABLES
    asked,     \* what the caller wants: a number, or a version for a length
    version,   \* the version being measured
    low, high, \* the search's bounds
    ended,     \* whether the caller has its answer
    answer     \* the answer: {n}, or {} for none

qrVars == <<asked, version, low, high, ended, answer>>

Versions == 1 .. MAX_VERSION

\* fits: qrcodegen accepts len bytes at this version.
fits(len, v) == len <= Cap[v]

\* Fault: the midpoint is rounded down.
mid_down(l, h) == l + (h - l) \div 2

\* The midpoint is rounded up, or a search over two values would not end.
mid(l, h) == l + ((h - l) + 1) \div 2

-----------------------------------------------------------------------------
(***************************************************************************)
(* The search                                                              *)
(***************************************************************************)

Asked ==
    [op: {"capacity", "max_symbol_size", "smallest_version_for", "encode_at"},
     version: 0 .. MAX_VERSION + 1, len: 0 .. HIGH]

\* smallest_version_for tries the versions in order.
FirstVersion(a) == IF a.op = "smallest_version_for" THEN 1 ELSE a.version

QrInit ==
    /\ asked \in Asked
    /\ version = FirstVersion(asked)
    /\ low = 0 /\ high = HIGH
    /\ ended = FALSE /\ answer = {}

\* capacity and encode_at turn away a version that is none.
Invalid ==
    /\ ~ended /\ version \notin Versions
    /\ ended' = TRUE
    /\ UNCHANGED <<asked, version, low, high, answer>>

\* The loop of capacity.
Narrow ==
    /\ ~ended /\ version \in Versions /\ low < high
    /\ IF fits(mid(low, high), version)
       THEN low' = mid(low, high) /\ high' = high
       ELSE low' = low /\ high' = mid(low, high) - 1
    /\ UNCHANGED <<asked, version, ended, answer>>

\* Fault: a version that holds exactly the frame's overhead is good for 0 bytes.
max_symbol_size_zero(cap) == IF cap < FRAME_OVERHEAD THEN {} ELSE {cap - FRAME_OVERHEAD}

\* max_symbol_size: a symbol has at least one byte.
max_symbol_size(cap) == IF cap <= FRAME_OVERHEAD THEN {} ELSE {cap - FRAME_OVERHEAD}

\* What the caller gets once the capacity of the version is known.
Answer(a, v, cap) ==
    IF a.op = "capacity" THEN {cap}
    ELSE IF a.op = "max_symbol_size" THEN max_symbol_size(cap)
    ELSE IF cap < a.len THEN {}
    ELSE IF a.op = "encode_at" THEN {a.len} ELSE {v}

\* The next version of smallest_version_for.
TryNext ==
    /\ version' = version + 1
    /\ low' = 0 /\ high' = HIGH
    /\ UNCHANGED <<asked, ended, answer>>

Finish ==
    /\ ended' = TRUE
    /\ answer' = Answer(asked, version, low)
    /\ UNCHANGED <<asked, version, low, high>>

\* The loop has ended: low is the capacity of this version.
Measured ==
    /\ ~ended /\ version \in Versions /\ low >= high
    /\ IF asked.op = "smallest_version_for" /\ low < asked.len /\ version < MAX_VERSION
       THEN TryNext ELSE Finish

QrNext == Invalid \/ Narrow \/ Measured
QrSpec == QrInit /\ [][QrNext]_qrVars /\ WF_qrVars(QrNext)

-----------------------------------------------------------------------------
(***************************************************************************)
(* Properties                                                              *)
(***************************************************************************)

\* The search stays between the bounds it started with.
QrTypeOK ==
    /\ asked \in Asked
    /\ version \in 0 .. MAX_VERSION + 1
    /\ asked.op = "smallest_version_for" => version \in Versions
    /\ low \in 0 .. HIGH /\ high \in 0 .. HIGH
    /\ ended \in BOOLEAN

\* The capacity is never outside the bounds, so that when they meet it is the
\* answer, to the byte ("binary searching the real encoder cannot disagree with
\* it").
SearchBrackets == version \in Versions => low <= Cap[version] /\ Cap[version] <= high

\* The capacity is the encoder's, a frame with the largest symbol size fits its
\* version and one byte more does not, encode_at refuses exactly what the
\* encoder would, and no version below the smallest one will do (capacity,
\* max_symbol_size, encode_at, smallest_version_for).
AnswerFits ==
    ended =>
        /\ version \notin Versions => answer = {}
        /\ version \in Versions =>
            /\ asked.op = "capacity" => answer = {Cap[asked.version]}
            /\ asked.op = "max_symbol_size" =>
                answer = {n \in 1 .. HIGH : /\ fits(FRAME_OVERHEAD + n, asked.version)
                                            /\ ~fits(FRAME_OVERHEAD + n + 1, asked.version)}
            /\ asked.op = "encode_at" => (answer # {}) = fits(asked.len, asked.version)
            /\ asked.op = "smallest_version_for" =>
                answer = {v \in Versions : /\ fits(asked.len, v)
                                           /\ \A w \in 1 .. v - 1 : ~fits(asked.len, w)}

\* Every search ends (the midpoint rounds up).
SearchEnds == <>ended
=============================================================================
