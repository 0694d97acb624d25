------------------------------- MODULE FrameDir -------------------------------
(***************************************************************************)
(* The frame directory, which "dhow send" fills and "dhow display" shows:   *)
(* runSend and renderFrame, readManifest, runDisplay (cli/internal/cli/     *)
(* cli.go) and Run (cli/internal/display/display.go).                       *)
(*                                                                         *)
(* A send may be killed or fail between any two steps, may be into a        *)
(* directory that holds an earlier send, and may run while the directory is *)
(* being displayed.  os.WriteFile truncates a file before it fills it.  A   *)
(* file is what it is part of: a session's frame or manifest, torn when it  *)
(* is not all there.  A torn manifest does not verify (Manifest).           *)
(***************************************************************************)
EXTENDS Naturals, Sequences, FiniteSets

CONSTANTS
    Radix,      \* the base of the numbers in file names, 10
    PadTo,      \* frame-%06d.bin: numbers from here on are longer, 10^6
    Sessions,   \* the sends; each draws a session of its own
    FrameCount, \* how many frames each has
    LoopCounts, \* display's -loops; 0 goes on until it is stopped
    Rendered,   \* send's -qr
    MaxDamage   \* bound: how many frame files are damaged afterwards

ASSUME FrameDirAssumption ==
    /\ FrameCount \in [Sessions -> Nat \ {0}]
    /\ Radix \in Nat \ {0, 1} /\ PadTo \in Nat \ {0}
    /\ \E width \in 1 .. PadTo : PadTo = Radix ^ width
    /\ LoopCounts \subseteq Nat /\ Rendered \in BOOLEAN /\ MaxDamage \in Nat

VARIABLES
    frames,    \* the frame files: frame-<i>.bin at i + 1, with no gaps
    manifest,  \* manifest.bin
    send,      \* the send that runs, or the last one
    begun,     \* the sends that have begun
    damaged,   \* how many frame files were damaged
    display    \* the display

dirVars == <<frames, manifest, send, begun, damaged, display>>

Nobody == "nobody"
File(s, whole) == [of |-> s, whole |-> whole]
Absent == File(Nobody, FALSE)

\* Writing file i of the frames; the first missing one is created.
Put(i, file) == IF i <= Len(frames) THEN [frames EXCEPT ![i] = file] ELSE Append(frames, file)

DirInit ==
    /\ frames = <<>> /\ manifest = Absent
    /\ send = [of |-> Nobody, pc |-> "idle", next |-> 1]
    /\ begun = {} /\ damaged = 0
    /\ display = [pc |-> "idle", of |-> Nobody, files |-> <<>>, got |-> <<>>,
                  next |-> 1, loops |-> 0, loop |-> 0]

-----------------------------------------------------------------------------
(***************************************************************************)
(* dhow send                                                               *)
(***************************************************************************)

Sending == send.pc \notin {"idle", "done", "failed", "unrendered"}
SendTo(pc) == send' = [send EXCEPT !.pc = pc]

\* Fault: the manifest is written before the frames it describes.
StartSend_manifest(s) ==
    /\ ~Sending /\ s \notin begun
    /\ begun' = begun \cup {s}
    /\ send' = [of |-> s, pc |-> "open", next |-> 1]
    /\ manifest' = File(s, TRUE)
    /\ UNCHANGED <<frames, damaged, display>>

\* runSend up to the loop over the frames: nothing is removed from outDir.
StartSend(s) ==
    /\ ~Sending /\ s \notin begun
    /\ begun' = begun \cup {s}
    /\ send' = [of |-> s, pc |-> "open", next |-> 1]
    /\ UNCHANGED <<frames, manifest, damaged, display>>

\* os.WriteFile, until the file is truncated.
OpenFrame ==
    /\ send.pc = "open"
    /\ frames' = Put(send.next, File(send.of, FALSE))
    /\ SendTo("fill")
    /\ UNCHANGED <<manifest, begun, damaged, display>>

\* The loop's next frame, and the manifest after the last.
Advance ==
    send' = IF send.next < FrameCount[send.of]
            THEN [send EXCEPT !.next = @ + 1, !.pc = "open"]
            ELSE [send EXCEPT !.pc = "sign"]

\* os.WriteFile is done.
FillFrame ==
    /\ send.pc = "fill"
    /\ frames' = Put(send.next, File(send.of, TRUE))
    /\ IF Rendered THEN SendTo("render") ELSE Advance
    /\ UNCHANGED <<manifest, begun, damaged, display>>

\* renderFrame, inside the same loop.
Render ==
    /\ send.pc = "render" /\ Advance
    /\ UNCHANGED <<frames, manifest, begun, damaged, display>>

\* renderFrame fails: the version is too small, or the PNG cannot be written.
RenderFails ==
    /\ send.pc = "render" /\ SendTo("unrendered")
    /\ UNCHANGED <<frames, manifest, begun, damaged, display>>

\* BuildManifest succeeded; os.WriteFile, until the file is truncated.
OpenManifest ==
    /\ send.pc = "sign"
    /\ manifest' = File(send.of, FALSE)
    /\ SendTo("signed")
    /\ UNCHANGED <<frames, begun, damaged, display>>

FillManifest ==
    /\ send.pc = "signed"
    /\ manifest' = File(send.of, TRUE)
    /\ SendTo("done")
    /\ UNCHANGED <<frames, begun, damaged, display>>

\* A write or BuildManifest fails, or the process is killed.
Cut ==
    /\ Sending /\ SendTo("failed")
    /\ UNCHANGED <<frames, manifest, begun, damaged, display>>

-----------------------------------------------------------------------------
(***************************************************************************)
(* dhow display                                                            *)
(***************************************************************************)

\* sort.Strings on file names.  Digits are compared from the left, so a number is
\* ordered as the fraction its digits are; of equal fractions the shorter name is
\* first, since a dot comes before a digit.
Scale(n) ==
    IF n < PadTo THEN 1
    ELSE Radix ^ (1 + Cardinality({k \in 1 .. n : PadTo * Radix ^ k <= n}))
NameBefore(m, n) ==
    LET a == m * Scale(n)
        b == n * Scale(m)
    IN  a < b \/ (a = b /\ m < n)

\* A list of all the files, by name.
InNameOrder(list) ==
    /\ {list[p] : p \in DOMAIN list} = DOMAIN list
    /\ \A p, q \in DOMAIN list : p < q => NameBefore(list[p] - 1, list[q] - 1)

\* readManifest verifies what is there.
OpenDisplay(loops) ==
    /\ display.pc = "idle" /\ manifest.whole
    /\ display' = [display EXCEPT !.pc = "listing", !.of = manifest.of, !.loops = loops]
    /\ UNCHANGED <<frames, manifest, send, begun, damaged>>

\* The frame files are listed and sorted.
ListFrames ==
    /\ display.pc = "listing" /\ frames # <<>>
    /\ \E list \in [DOMAIN frames -> DOMAIN frames] :
          /\ InNameOrder(list)
          /\ display' = [display EXCEPT !.pc = "reading", !.files = list]
    /\ UNCHANGED <<frames, manifest, send, begun, damaged>>

\* Fault: the last file of the list is left out.
ReadFrame_short ==
    /\ display.pc = "reading"
    /\ LET got == Append(display.got, frames[display.files[Len(display.got) + 1]])
       IN  display' = [display EXCEPT !.got = got,
                           !.pc = IF Len(got) + 1 >= Len(display.files) THEN "showing" ELSE "reading"]
    /\ UNCHANGED <<frames, manifest, send, begun, damaged>>

\* The files are read one by one before the first is shown.
ReadFrame ==
    /\ display.pc = "reading"
    /\ LET got == Append(display.got, frames[display.files[Len(display.got) + 1]])
       IN  display' = [display EXCEPT !.got = got,
                           !.pc = IF Len(got) = Len(display.files) THEN "showing" ELSE "reading"]
    /\ UNCHANGED <<frames, manifest, send, begun, damaged>>

\* Fault: the loop goes on before the last frame.
Tick_short ==
    /\ display.pc = "showing"
    /\ display' =
          IF display.next < Len(display.got) - 1 THEN [display EXCEPT !.next = @ + 1]
          ELSE IF display.loops = 0 THEN [display EXCEPT !.next = 1]
          ELSE [display EXCEPT !.next = 1, !.loop = @ + 1,
                    !.pc = IF display.loop + 1 < display.loops THEN "showing" ELSE "ended"]
    /\ UNCHANGED <<frames, manifest, send, begun, damaged>>

\* Run: the ticker fires and got[next] is drawn.  The passes of an endless
\* display are not told apart.
Tick ==
    /\ display.pc = "showing"
    /\ display' =
          IF display.next < Len(display.got) THEN [display EXCEPT !.next = @ + 1]
          ELSE IF display.loops = 0 THEN [display EXCEPT !.next = 1]
          ELSE [display EXCEPT !.next = 1, !.loop = @ + 1,
                    !.pc = IF display.loop + 1 < display.loops THEN "showing" ELSE "ended"]
    /\ UNCHANGED <<frames, manifest, send, begun, damaged>>

\* The operator stops it, a file cannot be read, or drawFrame fails.
StopDisplay ==
    /\ display.pc \in {"listing", "reading", "showing"}
    /\ display' = [display EXCEPT !.pc = "ended"]
    /\ UNCHANGED <<frames, manifest, send, begun, damaged>>

\* A frame file is damaged where it lies.
DamageFrame(i) ==
    /\ damaged < MaxDamage /\ damaged' = damaged + 1
    /\ frames' = [frames EXCEPT ![i].whole = FALSE]
    /\ UNCHANGED <<manifest, send, begun, display>>

DirNext ==
    \/ \E s \in Sessions : StartSend(s)
    \/ OpenFrame \/ FillFrame \/ Render \/ RenderFails
    \/ OpenManifest \/ FillManifest \/ Cut
    \/ \E loops \in LoopCounts : OpenDisplay(loops)
    \/ ListFrames \/ ReadFrame \/ Tick \/ StopDisplay
    \/ \E i \in DOMAIN frames : DamageFrame(i)

\* The display goes on by itself; nobody has to stop it, and no send has to be
\* made.
DirSpec == DirInit /\ [][DirNext]_dirVars /\ WF_dirVars(ReadFrame \/ Tick)

-----------------------------------------------------------------------------
(***************************************************************************)
(* Properties                                                              *)
(***************************************************************************)

\* What the directory holds of a session.
FramesOf(s) == {i \in DOMAIN frames : frames[i] = File(s, TRUE)}

\* A manifest that verifies comes with every frame it describes, at the front,
\* whatever was killed or failed in the same directory before and whatever is
\* left behind them of an earlier and longer send: only a later send or damage
\* takes them away.  A send that ended well has such a manifest (runSend).
ManifestMeansFrames ==
    damaged = 0 /\ (send.pc = "done" \/ manifest = File(send.of, TRUE)) =>
        manifest = File(send.of, TRUE) /\ FramesOf(send.of) = 1 .. FrameCount[send.of]

\* A display shows every frame it read, over and over, until it is stopped or has
\* made its passes ("it loops the whole stream until the operator stops it").
EveryFrameShown ==
    \A i \in UNION {1 .. FrameCount[s] : s \in Sessions} :
        (display.pc = "showing" /\ i <= Len(display.got)) ~> (display.next = i \/ display.pc = "ended")

\* A display shows every frame of the send whose manifest it verified, whole unless
\* somebody damaged the files, whatever an earlier send left in the directory, cuts
\* short or is shown with it.  While the names are of one length it shows them in the
\* order of the send, and before anything an earlier and longer send left behind;
\* from a million frames on the order is that of the names (runSend, runDisplay).
DisplayShowsSend ==
    damaged = 0 /\ display.pc = "showing" /\ display.of = send.of =>
        /\ \A i \in 1 .. FrameCount[send.of] : \E p \in DOMAIN display.got :
               display.files[p] = i /\ display.got[p] = File(send.of, TRUE)
        /\ Len(display.got) <= PadTo =>
               \A p, q \in DOMAIN display.got : p < q => display.files[p] < display.files[q]
=============================================================================
