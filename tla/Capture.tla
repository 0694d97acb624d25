------------------------------- MODULE Capture -------------------------------
(***************************************************************************)
(* capture.Reader of cli/internal/capture/reader.go: images from a source,  *)
(* through detection and the pre-filter, to the decoder's handler, with one *)
(* bucket for everything that becomes of an image.                          *)
(*                                                                         *)
(* With Buffer the source is read by a goroutine that keeps only the newest *)
(* image in a channel of one; without it one loop does both.  Detection     *)
(* (optical.Read) and the pre-filter are a property of the image: its kind  *)
(* says what they make of it.  A "forged" image passes the pre-filter and   *)
(* the decoder refuses it.  The handler is frameSink.apply (external to     *)
(* this package), which may also end the run with an error.                 *)
(***************************************************************************)
EXTENDS Naturals, Sequences, FiniteSets

CONSTANTS
    Positions,  \* <block, symbol> pairs of the session
    Images,     \* what the source may yield
    Buffered,   \* the values Reader.Buffer may have
    MaxImages   \* bound: images the source yields

Kinds == {"unreadable", "damaged", "foreign", "forged", "frame"}

ASSUME ImagesAssumption == Images \subseteq [kind: Kinds, pos: Positions]
ASSUME BufferedAssumption == Buffered \subseteq BOOLEAN
ASSUME CaptureBoundAssumption == MaxImages \in Nat

VARIABLES
    buffer,     \* Reader.Buffer
    ppc,        \* the producer goroutine
    cpc,        \* the loop that consumes
    next,       \* <<>> or <<img>>: the image the producer holds
    chan,       \* the channel "images", of capacity one
    closed,     \* close(images)
    done,       \* the channel "done": whether the production was sent
    produced, dropped, failed, \* production.images, .dropped and .err
    cur,        \* <<>> or <<img>>: the image being consumed
    held,       \* the positions whose frames were accepted
    stats,      \* the buckets consume fills
    handleErr,  \* the handler returned an error
    cancelled,  \* the context is done
    taken       \* history: the positions the decoder accepted

prodVars == <<ppc, next, closed, done, produced, dropped, failed>>
consVars == <<cpc, cur, held, stats, handleErr, taken>>
capVars  == <<buffer, prodVars, consVars, chan, cancelled>>

Buckets == {"Unreadable", "Foreign", "Damaged", "Repeats", "Frames", "Skipped"}

CapInit ==
    /\ buffer \in Buffered
    /\ ppc = (IF buffer THEN "read" ELSE "none")
    /\ cpc = (IF buffer THEN "range" ELSE "read")
    /\ next = <<>> /\ chan = <<>> /\ cur = <<>>
    /\ closed = FALSE /\ done = FALSE
    /\ produced = 0 /\ dropped = 0 /\ failed = FALSE
    /\ held = {} /\ taken = {}
    /\ stats = [k \in Buckets |-> 0]
    /\ handleErr = FALSE /\ cancelled = FALSE

-----------------------------------------------------------------------------
(***************************************************************************)
(* The producer: src.Next, then up to three non-blocking selects            *)
(***************************************************************************)

\* Next yields an image.  It looks at the context before it blocks, so an
\* image may still come after a cancel.
SourceYields(img) ==
    /\ ppc = "read"
    /\ produced < MaxImages
    /\ produced' = produced + 1
    /\ next' = <<img>>
    /\ ppc' = "offer"
    /\ UNCHANGED <<buffer, closed, done, dropped, failed, consVars, chan, cancelled>>

\* Next reports the end, or an error that counts only if nobody cancelled.
SourceEnds ==
    /\ ppc = "read"
    /\ ppc' = "close"
    /\ \/ UNCHANGED failed
       \/ failed' = ~cancelled
    /\ UNCHANGED <<buffer, next, closed, done, produced, dropped, consVars, chan, cancelled>>

Send == chan' = next /\ next' = <<>>

\* The first select: send if there is room.
Offer ==
    /\ ppc = "offer"
    /\ \/ /\ chan = <<>>
          /\ Send
          /\ ppc' = "read"
       \/ /\ chan # <<>>
          /\ ppc' = "evict"
          /\ UNCHANGED <<chan, next>>
    /\ UNCHANGED <<buffer, closed, done, produced, dropped, failed, consVars, cancelled>>

\* Fault: the second select is missing.
Evict_skipped ==
    /\ ppc = "evict"
    /\ ppc' = "replace"
    /\ UNCHANGED <<buffer, next, chan, closed, done, produced, dropped, failed, consVars, cancelled>>

\* The second select: take the stale image back, if it is still there.
Evict ==
    /\ ppc = "evict"
    /\ ppc' = "replace"
    /\ chan' = <<>>
    /\ dropped' = IF chan = <<>> THEN dropped ELSE dropped + 1
    /\ UNCHANGED <<buffer, next, closed, done, produced, failed, consVars, cancelled>>

\* The third select: send, or count the newest image as the one dropped.
Replace ==
    /\ ppc = "replace"
    /\ ppc' = "read"
    /\ IF chan = <<>>
       THEN Send /\ UNCHANGED dropped
       ELSE next' = <<>> /\ dropped' = dropped + 1 /\ UNCHANGED chan
    /\ UNCHANGED <<buffer, closed, done, produced, failed, consVars, cancelled>>

\* Fault: the channel is never closed.
CloseImages_missing ==
    /\ ppc = "close"
    /\ ppc' = "report"
    /\ UNCHANGED <<buffer, next, closed, done, produced, dropped, failed, consVars, chan, cancelled>>

\* The deferred close, and then the production.
CloseImages ==
    /\ ppc = "close"
    /\ ppc' = "report"
    /\ closed' = TRUE
    /\ UNCHANGED <<buffer, next, done, produced, dropped, failed, consVars, chan, cancelled>>

SendProduction ==
    /\ ppc = "report"
    /\ ppc' = "none"
    /\ done' = TRUE
    /\ UNCHANGED <<buffer, next, closed, produced, dropped, failed, consVars, chan, cancelled>>

-----------------------------------------------------------------------------
(***************************************************************************)
(* consume                                                                 *)
(***************************************************************************)

Count(bucket) == stats' = [stats EXCEPT ![bucket] = @ + 1]

\* Detection and the pre-filter turn the image away.
Discarded(img) ==
    /\ \/ img.kind = "unreadable" /\ Count("Unreadable")
       \/ img.kind = "damaged" /\ Count("Damaged")
       \/ img.kind = "foreign" /\ Count("Foreign")
    /\ UNCHANGED <<held, taken, handleErr, cancelled>>

Repeated(img) ==
    /\ img.kind \in {"frame", "forged"}
    /\ img.pos \in held
    /\ Count("Repeats")
    /\ UNCHANGED <<held, taken, handleErr, cancelled>>

\* Fault: the position is remembered before the decoder has accepted it.
Refused_remembered(img) ==
    /\ img.kind = "forged" /\ img.pos \notin held
    /\ Count("Foreign")
    /\ held' = held \cup {img.pos}
    /\ UNCHANGED <<taken, handleErr, cancelled>>

\* The handler reports that the decoder refused the frame.
Refused(img) ==
    /\ img.kind = "forged" /\ img.pos \notin held
    /\ Count("Foreign")
    /\ UNCHANGED <<held, taken, handleErr, cancelled>>

\* The decoder accepts the frame and the handler returns.
Handed(img) ==
    /\ img.kind = "frame" /\ img.pos \notin held
    /\ Count("Frames")
    /\ held' = held \cup {img.pos}
    /\ taken' = taken \cup {img.pos}
    /\ UNCHANGED <<handleErr, cancelled>>

\* The decoder accepts the frame and the handler returns an error: the frame
\* limit was reached or progress could not be recorded.  runBuffered cancels.
HandlerFails(img) ==
    /\ img.kind = "frame" /\ img.pos \notin held
    /\ handleErr' = TRUE
    /\ cancelled' = (cancelled \/ buffer)
    /\ taken' = taken \cup {img.pos}
    /\ UNCHANGED <<held, stats>>

consume(img) ==
    Discarded(img) \/ Repeated(img) \/ Refused(img) \/ Handed(img) \/ HandlerFails(img)

-----------------------------------------------------------------------------
(***************************************************************************)
(* runBuffered's loop and runDirect                                        *)
(***************************************************************************)

\* Fault: after an error the rest of the channel is drained uncounted.
Take_uncounted ==
    /\ cpc = "range" /\ chan # <<>>
    /\ chan' = <<>>
    /\ IF handleErr
       THEN UNCHANGED <<cpc, cur, stats>>
       ELSE cpc' = "consume" /\ cur' = chan /\ UNCHANGED stats
    /\ UNCHANGED <<buffer, prodVars, held, handleErr, taken, cancelled>>

\* The loop receives an image.  After an error it only drains.
Take ==
    /\ cpc = "range" /\ chan # <<>>
    /\ chan' = <<>>
    /\ IF handleErr
       THEN Count("Skipped") /\ UNCHANGED <<cpc, cur>>
       ELSE cpc' = "consume" /\ cur' = chan /\ UNCHANGED stats
    /\ UNCHANGED <<buffer, prodVars, held, handleErr, taken, cancelled>>

\* consume has returned: back to the loop, or out of runDirect on an error.
Consume ==
    /\ cpc = "consume"
    /\ consume(cur[1])
    /\ cur' = <<>>
    /\ cpc' = CASE buffer                 -> "range"
                [] ~buffer /\ ~handleErr' -> "read"
                [] OTHER                  -> "returned"
    /\ UNCHANGED <<buffer, prodVars, chan>>

\* The range ends when the channel is closed and empty.
RangeEnds ==
    /\ cpc = "range" /\ chan = <<>> /\ closed
    /\ cpc' = "await"
    /\ UNCHANGED <<buffer, prodVars, cur, held, stats, handleErr, taken, chan, cancelled>>

\* The production is received and its counts become the run's.
Await ==
    /\ cpc = "await" /\ done
    /\ cpc' = "returned"
    /\ UNCHANGED <<buffer, prodVars, cur, held, stats, handleErr, taken, chan, cancelled>>

\* runDirect reads an image itself.
DirectRead(img) ==
    /\ cpc = "read"
    /\ produced < MaxImages
    /\ produced' = produced + 1
    /\ cpc' = "consume" /\ cur' = <<img>>
    /\ UNCHANGED <<buffer, ppc, next, closed, done, dropped, failed, held, stats,
                   handleErr, taken, chan, cancelled>>

\* runDirect reaches the end of the source, or an error of it.
DirectEnds ==
    /\ cpc = "read"
    /\ cpc' = "returned"
    /\ \/ UNCHANGED failed
       \/ failed' = ~cancelled
    /\ UNCHANGED <<buffer, ppc, next, closed, done, produced, dropped, cur, held,
                   stats, handleErr, taken, chan, cancelled>>

\* SIGINT or SIGTERM.
Cancel ==
    /\ ~cancelled /\ cpc # "returned"
    /\ cancelled' = TRUE
    /\ UNCHANGED <<buffer, prodVars, consVars, chan>>

-----------------------------------------------------------------------------
Produce ==
    \/ \E img \in Images : SourceYields(img)
    \/ SourceEnds \/ Offer \/ Evict \/ Replace \/ CloseImages \/ SendProduction

ConsumeStep ==
    \/ Take \/ Consume \/ RangeEnds \/ Await
    \/ \E img \in Images : DirectRead(img)
    \/ DirectEnds

CapNext == Produce \/ ConsumeStep \/ Cancel

CapSpec ==
    /\ CapInit /\ [][CapNext]_capVars
    /\ WF_capVars(Produce) /\ WF_capVars(ConsumeStep)

-----------------------------------------------------------------------------
(***************************************************************************)
(* Properties                                                              *)
(***************************************************************************)

Image == [kind: Kinds, pos: Positions]

\* Every variable holds a value of its type; the channel holds at most one.
CapTypeOK ==
    /\ buffer \in BOOLEAN
    /\ ppc \in {"read", "offer", "evict", "replace", "close", "report", "none"}
    /\ cpc \in {"range", "consume", "await", "read", "returned"}
    /\ \A q \in {next, chan, cur} : q = <<>> \/ (Len(q) = 1 /\ q[1] \in Image)
    /\ {closed, done, failed, handleErr, cancelled} \subseteq BOOLEAN
    /\ produced \in 0 .. MaxImages /\ dropped \in 0 .. MaxImages
    /\ held \subseteq Positions /\ taken \subseteq Positions
    /\ stats \in [Buckets -> 0 .. MaxImages]

Counted == stats["Unreadable"] + stats["Foreign"] + stats["Damaged"]
           + stats["Repeats"] + stats["Frames"] + stats["Skipped"]

\* Stats.Accounted on what Run returns.
Accounted == produced = dropped + Counted

\* At every moment each image is in a bucket, dropped, or in one of the three
\* places an image can be: with the producer, in the channel, with the
\* consumer.  Only the image whose handler failed is in none of them
\* (runBuffered, runDirect, consume).
ImagesConserved ==
    produced = dropped + Counted + Len(next) + Len(chan) + Len(cur)
               + (IF handleErr THEN 1 ELSE 0)

\* The image the third select sends always finds room: only the producer
\* sends, so the newest image is never the one that is dropped.
NewestKept == ppc = "replace" => chan = <<>>

\* A position is skipped as a repeat only once the decoder has its frame, so
\* a forged frame never hides the genuine one (Position, consume).
OnlyTakenSkipped == held \subseteq taken

\* The run returns once the source ends, however the producer, the consumer
\* and a cancel interleave: neither waits for the other for ever.
RunReturns == <>(cpc = "returned")

\* Said of Stats.Accounted: every image is in exactly one bucket.
AccountedOnReturn == cpc = "returned" => Accounted
=============================================================================
