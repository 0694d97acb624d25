------------------------------ MODULE LoopProofs ------------------------------
(***************************************************************************)
(* The capture reader, the frame directory with its display and the capacity*)
(* search, which are the parts of MCLoops, for every value of their        *)
(* constants.                                                              *)
(***************************************************************************)
EXTENDS Capture, FrameDir, Qr, TLAPS

-----------------------------------------------------------------------------
(***************************************************************************)
(* What becomes of an image in capture.Reader, for every source, every     *)
(* number of images and every interleaving of the two goroutines.          *)
(***************************************************************************)

\* What a place that holds at most one image can hold.
Slots == {<<>>} \cup {<<img>> : img \in Image}

\* Shapes, without the bounds on the counters, which rest on conservation.
Shapes ==
    /\ buffer \in BOOLEAN
    /\ ppc \in {"read", "offer", "evict", "replace", "close", "report", "none"}
    /\ cpc \in {"range", "consume", "await", "read", "returned"}
    /\ next \in Slots /\ chan \in Slots /\ cur \in Slots
    /\ closed \in BOOLEAN /\ done \in BOOLEAN /\ failed \in BOOLEAN
    /\ handleErr \in BOOLEAN /\ cancelled \in BOOLEAN
    /\ produced \in 0 .. MaxImages /\ dropped \in Nat
    /\ held \subseteq Positions /\ taken \subseteq Positions
    /\ stats \in [Buckets -> Nat]

\* Where an image can be, from the two program counters.  The loop that
\* consumes only drains after an error, so it never holds an image then.
Places ==
    /\ (next # <<>>) <=> (ppc \in {"offer", "evict", "replace"})
    /\ (cur # <<>>) <=> (cpc = "consume")
    /\ cpc \in {"consume", "read"} => ~handleErr

CapIInv == Shapes /\ Places /\ ImagesConserved /\ NewestKept /\ OnlyTakenSkipped

\* One more in a bucket is one more counted.
LEMMA CountAddsOne ==
    ASSUME stats \in [Buckets -> Nat], NEW k \in Buckets, Count(k)
    PROVE  stats' \in [Buckets -> Nat] /\ Counted' = Counted + 1
<1>1. stats' = [stats EXCEPT ![k] = @ + 1]
  BY DEF Count
<1>2. stats' \in [Buckets -> Nat]
  BY <1>1
<1>3. \A j \in Buckets : stats[j] \in Nat
        /\ stats'[j] = IF j = k THEN stats[j] + 1 ELSE stats[j]
  BY <1>1
<1>4. Buckets = {"Unreadable", "Foreign", "Damaged", "Repeats", "Frames", "Skipped"}
  BY DEF Buckets
<1>5. QED
  BY <1>2, <1>3, <1>4 DEF Counted

\* The sum of the buckets is a number.
LEMMA CountedNat ==
    ASSUME stats \in [Buckets -> Nat] PROVE Counted \in Nat
BY DEF Counted, Buckets

\* The length of a place that holds at most one image.
LEMMA SlotLen ==
    ASSUME NEW q \in Slots
    PROVE  Len(q) = IF q = <<>> THEN 0 ELSE 1
BY DEF Slots

\* A place that is empty or holds one image is well formed.
LEMMA SlotOf ==
    <<>> \in Slots /\ \A img \in Image : <<img>> \in Slots /\ <<img>> # <<>>
BY DEF Slots

\* A run starts with no image anywhere and nothing counted.
LEMMA InitInvariant == CapInit => CapIInv
<1> SUFFICES ASSUME CapInit PROVE CapIInv
  OBVIOUS
<1>1. Counted = 0
  BY DEF CapInit, Counted, Buckets
<1>2. ImagesConserved
  BY <1>1 DEF CapInit, ImagesConserved
<1>3. buffer \in BOOLEAN /\ stats \in [Buckets -> Nat]
  BY BufferedAssumption DEF CapInit
<1>4. Shapes
  <2>1. next \in Slots /\ chan \in Slots /\ cur \in Slots
    BY SlotOf DEF CapInit
  <2>2. closed \in BOOLEAN /\ done \in BOOLEAN /\ failed \in BOOLEAN
        /\ handleErr \in BOOLEAN /\ cancelled \in BOOLEAN
    BY DEF CapInit
  <2>3. produced \in 0 .. MaxImages /\ dropped \in Nat
    BY CaptureBoundAssumption DEF CapInit
  <2>4. QED
    BY <1>3, <2>1, <2>2, <2>3 DEF CapInit, Shapes
<1>5. Places /\ NewestKept /\ OnlyTakenSkipped
  BY <1>3 DEF CapInit, Places, NewestKept, OnlyTakenSkipped
<1>6. QED
  BY <1>2, <1>4, <1>5 DEF CapIInv

\* The producer moves its image to the channel, or drops one it counts.
LEMMA ProduceInvariant ==
    ASSUME CapIInv, Produce PROVE CapIInv'
<1>0. Shapes /\ Places /\ ImagesConserved /\ NewestKept /\ OnlyTakenSkipped
  BY DEF CapIInv
<1>a. Counted \in Nat
  BY <1>0, CountedNat DEF Shapes
<1>b. /\ Len(next) = IF next = <<>> THEN 0 ELSE 1
      /\ Len(chan) = IF chan = <<>> THEN 0 ELSE 1
      /\ Len(cur) = IF cur = <<>> THEN 0 ELSE 1
  BY <1>0, SlotLen DEF Shapes
<1>c. Len(<<>>) = 0
  OBVIOUS
<1>d. produced \in Nat /\ dropped \in Nat /\ MaxImages \in Nat
  BY <1>0, CaptureBoundAssumption DEF Shapes
<1>1. ASSUME NEW img \in Images, SourceYields(img) PROVE CapIInv'
  <2>1. img \in Image /\ Len(<<img>>) = 1 /\ <<img>> # <<>>
    BY ImagesAssumption DEF Image
  <2>2. Counted' = Counted
    BY <1>1 DEF SourceYields, consVars, Counted
  <2>3. ImagesConserved'
    <3>1. Len(next) = 0 /\ Len(next') = 1
      BY <1>1, <1>0, <1>c, <2>1 DEF SourceYields, Places
    <3>2. QED
      BY <1>1, <1>0, <1>a, <1>b, <1>d, <2>2, <3>1
         DEF SourceYields, consVars, ImagesConserved
  <2>4. Shapes'
    BY <1>1, <1>0, <1>d, <2>1, SlotOf DEF SourceYields, consVars, Shapes
  <2>5. (Places /\ NewestKept /\ OnlyTakenSkipped)'
    BY <1>1, <1>0, <2>1 DEF SourceYields, consVars, Places, NewestKept, OnlyTakenSkipped
  <2>6. QED
    BY <2>3, <2>4, <2>5 DEF CapIInv
<1>2. CASE SourceEnds
  BY <1>2, <1>0 DEF SourceEnds, consVars, CapIInv, Shapes, Places, ImagesConserved,
     Counted, NewestKept, OnlyTakenSkipped
<1>3. CASE Offer
  <2>1. Counted' = Counted
    BY <1>3 DEF Offer, consVars, Counted
  <2>2. ImagesConserved'
    <3>1. Len(next') + Len(chan') = Len(next) + Len(chan)
          /\ Len(next') \in Nat /\ Len(chan') \in Nat
      <4>1. CASE chan = <<>>
        BY <4>1, <1>3, <1>b, <1>c DEF Offer, Send
      <4>2. CASE chan # <<>>
        <5>1. chan' = chan /\ next' = next
          BY <4>2, <1>3 DEF Offer
        <5>2. QED
          BY <5>1, <1>b
      <4>3. QED
        BY <4>1, <4>2
    <3>2. dropped' = dropped
      BY <1>3, <1>0 DEF Offer
    <3>3. QED
      BY <1>3, <1>0, <1>a, <1>b, <1>d, <2>1, <3>1, <3>2 DEF Offer, consVars, ImagesConserved
  <2>3. Shapes'
    BY <1>3, <1>0, SlotOf DEF Offer, Send, consVars, Shapes
  <2>4. (Places /\ NewestKept /\ OnlyTakenSkipped)'
    BY <1>3, <1>0 DEF Offer, Send, consVars, Places, NewestKept, OnlyTakenSkipped
  <2>5. QED
    BY <2>2, <2>3, <2>4 DEF CapIInv
<1>4. CASE Evict
  <2>1. Counted' = Counted
    BY <1>4 DEF Evict, consVars, Counted
  <2>2. ImagesConserved'
    BY <1>4, <1>0, <1>a, <1>b, <1>c, <1>d, <2>1 DEF Evict, consVars, ImagesConserved, Shapes
  <2>3. Shapes'
    BY <1>4, <1>0, SlotOf DEF Evict, consVars, Shapes
  <2>4. (Places /\ NewestKept /\ OnlyTakenSkipped)'
    BY <1>4, <1>0 DEF Evict, consVars, Places, NewestKept, OnlyTakenSkipped
  <2>5. QED
    BY <2>2, <2>3, <2>4 DEF CapIInv
<1>5. CASE Replace
  <2>1. Counted' = Counted
    BY <1>5 DEF Replace, consVars, Counted
  <2>2. ImagesConserved'
    <3>1. Len(next') + Len(chan') = Len(next) + Len(chan)
          /\ Len(next') \in Nat /\ Len(chan') \in Nat
      BY <1>5, <1>0, <1>b, <1>c DEF Replace, Send, NewestKept
    <3>2. dropped' = dropped
      BY <1>5, <1>0 DEF Replace, NewestKept
    <3>3. QED
      BY <1>5, <1>0, <1>a, <1>b, <1>d, <2>1, <3>1, <3>2 DEF Replace, consVars, ImagesConserved
  <2>3. Shapes'
    BY <1>5, <1>0, SlotOf DEF Replace, Send, consVars, Shapes
  <2>4. (Places /\ NewestKept /\ OnlyTakenSkipped)'
    BY <1>5, <1>0 DEF Replace, Send, consVars, Places, NewestKept, OnlyTakenSkipped
  <2>5. QED
    BY <2>2, <2>3, <2>4 DEF CapIInv
<1>6. CASE CloseImages
  BY <1>6, <1>0 DEF CloseImages, consVars, CapIInv, Shapes, Places, ImagesConserved,
     Counted, NewestKept, OnlyTakenSkipped
<1>7. CASE SendProduction
  BY <1>7, <1>0 DEF SendProduction, consVars, CapIInv, Shapes, Places, ImagesConserved,
     Counted, NewestKept, OnlyTakenSkipped
<1>8. QED
  BY <1>1, <1>2, <1>3, <1>4, <1>5, <1>6, <1>7 DEF Produce

\* What consume does with one image: exactly one bucket grows, or the handler
\* fails; only an accepted frame is remembered.
LEMMA ConsumeAccounts ==
    ASSUME Shapes, ~handleErr, OnlyTakenSkipped, NEW img \in Image, consume(img)
    PROVE  /\ stats' \in [Buckets -> Nat]
           /\ handleErr' \in BOOLEAN /\ cancelled' \in BOOLEAN
           /\ held' \subseteq Positions /\ taken' \subseteq Positions
           /\ OnlyTakenSkipped'
           /\ IF handleErr' THEN Counted' = Counted ELSE Counted' = Counted + 1
<1>0. stats \in [Buckets -> Nat] /\ img.pos \in Positions
  BY DEF Shapes, Image
<1>1. CASE Discarded(img)
  <2>1. \E k \in Buckets : Count(k)
    BY <1>1 DEF Discarded, Buckets
  <2>2. stats' \in [Buckets -> Nat] /\ Counted' = Counted + 1
    BY <2>1, <1>0, CountAddsOne
  <2>3. QED
    BY <1>1, <2>2 DEF Discarded, Shapes, OnlyTakenSkipped
<1>2. CASE Repeated(img)
  <2>1. "Repeats" \in Buckets /\ Count("Repeats")
    BY <1>2 DEF Repeated, Buckets
  <2>2. stats' \in [Buckets -> Nat] /\ Counted' = Counted + 1
    BY <2>1, <1>0, CountAddsOne
  <2>3. QED
    BY <1>2, <2>2 DEF Repeated, Shapes, OnlyTakenSkipped
<1>3. CASE Refused(img)
  <2>1. "Foreign" \in Buckets /\ Count("Foreign")
    BY <1>3 DEF Refused, Buckets
  <2>2. stats' \in [Buckets -> Nat] /\ Counted' = Counted + 1
    BY <2>1, <1>0, CountAddsOne
  <2>3. QED
    BY <1>3, <2>2 DEF Refused, Shapes, OnlyTakenSkipped
<1>4. CASE Handed(img)
  <2>1. "Frames" \in Buckets /\ Count("Frames")
    BY <1>4 DEF Handed, Buckets
  <2>2. stats' \in [Buckets -> Nat] /\ Counted' = Counted + 1
    BY <2>1, <1>0, CountAddsOne
  <2>3. QED
    BY <1>4, <1>0, <2>2 DEF Handed, Shapes, OnlyTakenSkipped
<1>5. CASE HandlerFails(img)
  <2>1. Counted' = Counted
    BY <1>5 DEF HandlerFails, Counted
  <2>2. QED
    BY <1>5, <1>0, <2>1 DEF HandlerFails, Shapes, OnlyTakenSkipped
<1>6. QED
  BY <1>1, <1>2, <1>3, <1>4, <1>5 DEF consume

\* The consumer takes an image out of the channel, or off the source, and
\* consume settles it.
LEMMA ConsumerInvariant ==
    ASSUME CapIInv, ConsumeStep PROVE CapIInv'
<1>0. Shapes /\ Places /\ ImagesConserved /\ NewestKept /\ OnlyTakenSkipped
  BY DEF CapIInv
<1>a. Counted \in Nat /\ produced \in Nat /\ dropped \in Nat /\ MaxImages \in Nat
  BY <1>0, CountedNat, CaptureBoundAssumption DEF Shapes
<1>b. /\ Len(next) = IF next = <<>> THEN 0 ELSE 1
      /\ Len(chan) = IF chan = <<>> THEN 0 ELSE 1
      /\ Len(cur) = IF cur = <<>> THEN 0 ELSE 1
  BY <1>0, SlotLen DEF Shapes
<1>c. Len(<<>>) = 0
  OBVIOUS
<1>1. CASE Take
  <2>1. CASE handleErr
    <3>1. Count("Skipped") /\ "Skipped" \in Buckets
      BY <1>1, <2>1 DEF Take, Buckets
    <3>2. stats' \in [Buckets -> Nat] /\ Counted' = Counted + 1
      BY <3>1, <1>0, CountAddsOne DEF Shapes
    <3>3. ImagesConserved'
      <4>1. Len(chan) = 1 /\ Len(chan') = 0
        BY <1>1, <2>1, <1>b, <1>c DEF Take
      <4>2. /\ produced' = produced /\ dropped' = dropped /\ handleErr'
            /\ Len(next') = Len(next) /\ Len(cur') = Len(cur)
        BY <1>1, <2>1 DEF Take, prodVars
      <4>3. produced = dropped + Counted + Len(next) + Len(chan) + Len(cur) + 1
        BY <1>0, <2>1 DEF ImagesConserved
      <4>4. produced' = dropped' + Counted' + Len(next') + Len(chan') + Len(cur') + 1
        BY <1>a, <1>b, <3>2, <4>1, <4>2, <4>3
      <4>5. QED
        BY <4>2, <4>4 DEF ImagesConserved
    <3>4. Shapes'
      BY <1>1, <2>1, <1>0, <3>2, SlotOf DEF Take, prodVars, Shapes
    <3>5. (Places /\ NewestKept /\ OnlyTakenSkipped)'
      BY <1>1, <2>1, <1>0 DEF Take, prodVars, Places, NewestKept, OnlyTakenSkipped
    <3>6. QED
      BY <3>3, <3>4, <3>5 DEF CapIInv
  <2>2. CASE ~handleErr
    <3>1. Counted' = Counted
      BY <1>1, <2>2 DEF Take, Counted
    <3>2. cur = <<>>
      BY <1>1, <1>0 DEF Take, Places
    <3>3. ImagesConserved'
      <4>1. Len(chan') = 0 /\ Len(cur') = Len(chan) /\ Len(cur) = 0
        BY <1>1, <2>2, <1>b, <1>c, <3>2 DEF Take
      <4>2. QED
        BY <1>1, <2>2, <1>0, <1>a, <1>b, <3>1, <3>2, <4>1 DEF Take, prodVars, ImagesConserved
    <3>4. Shapes'
      BY <1>1, <2>2, <1>0, SlotOf DEF Take, prodVars, Shapes
    <3>5. (Places /\ NewestKept /\ OnlyTakenSkipped)'
      BY <1>1, <2>2, <1>0 DEF Take, prodVars, Places, NewestKept, OnlyTakenSkipped
    <3>6. QED
      BY <3>3, <3>4, <3>5 DEF CapIInv
  <2>3. QED
    BY <2>1, <2>2
<1>2. CASE Consume
  <2>1. cur # <<>> /\ ~handleErr
    BY <1>2, <1>0 DEF Consume, Places
  <2>2. cur[1] \in Image
    BY <2>1, <1>0 DEF Shapes, Slots
  <2>3. /\ stats' \in [Buckets -> Nat]
        /\ handleErr' \in BOOLEAN /\ cancelled' \in BOOLEAN
        /\ held' \subseteq Positions /\ taken' \subseteq Positions
        /\ OnlyTakenSkipped'
        /\ IF handleErr' THEN Counted' = Counted ELSE Counted' = Counted + 1
    BY <1>2, <1>0, <2>1, <2>2, ConsumeAccounts DEF Consume
  <2>4. ImagesConserved'
    BY <1>2, <1>0, <1>a, <1>b, <1>c, <2>1, <2>3 DEF Consume, prodVars, ImagesConserved
  <2>5. cpc' = IF buffer THEN "range" ELSE IF handleErr' THEN "returned" ELSE "read"
    BY <1>2, <1>0 DEF Consume, Shapes
  <2>6. Shapes'
    BY <1>2, <1>0, <2>3, <2>5, SlotOf DEF Consume, prodVars, Shapes
  <2>7. (Places /\ NewestKept)'
    BY <1>2, <1>0, <2>5 DEF Consume, prodVars, Places, NewestKept
  <2>8. QED
    BY <2>3, <2>4, <2>6, <2>7 DEF CapIInv
<1>3. CASE RangeEnds
  BY <1>3, <1>0 DEF RangeEnds, prodVars, CapIInv, Shapes, Places, ImagesConserved,
     Counted, NewestKept, OnlyTakenSkipped
<1>4. CASE Await
  BY <1>4, <1>0 DEF Await, prodVars, CapIInv, Shapes, Places, ImagesConserved,
     Counted, NewestKept, OnlyTakenSkipped
<1>5. ASSUME NEW img \in Images, DirectRead(img) PROVE CapIInv'
  <2>1. img \in Image /\ Len(<<img>>) = 1 /\ <<img>> # <<>>
    BY ImagesAssumption DEF Image
  <2>2. Counted' = Counted /\ cur = <<>>
    BY <1>5, <1>0 DEF DirectRead, Counted, Places
  <2>3. ImagesConserved'
    BY <1>5, <1>0, <1>a, <1>b, <1>c, <2>1, <2>2 DEF DirectRead, ImagesConserved
  <2>4. Shapes'
    BY <1>5, <1>0, <1>a, <2>1, SlotOf DEF DirectRead, Shapes
  <2>5. (Places /\ NewestKept /\ OnlyTakenSkipped)'
    BY <1>5, <1>0, <2>1 DEF DirectRead, Places, NewestKept, OnlyTakenSkipped
  <2>6. QED
    BY <2>3, <2>4, <2>5 DEF CapIInv
<1>6. CASE DirectEnds
  BY <1>6, <1>0 DEF DirectEnds, CapIInv, Shapes, Places, ImagesConserved,
     Counted, NewestKept, OnlyTakenSkipped
<1>7. QED
  BY <1>1, <1>2, <1>3, <1>4, <1>5, <1>6 DEF ConsumeStep

-----------------------------------------------------------------------------
\* The invariant of a capture run, for every interleaving.
THEOREM CaptureInvariant == CapSpec => []CapIInv
<1>1. CapInit => CapIInv
  BY InitInvariant
<1>2. CapIInv /\ [CapNext]_capVars => CapIInv'
  <2> SUFFICES ASSUME CapIInv, [CapNext]_capVars PROVE CapIInv'
    OBVIOUS
  <2>1. CASE Produce
    BY <2>1, ProduceInvariant
  <2>2. CASE ConsumeStep
    BY <2>2, ConsumerInvariant
  <2>3. CASE Cancel
    BY <2>3 DEF Cancel, prodVars, consVars, CapIInv, Shapes, Places,
       ImagesConserved, Counted, NewestKept, OnlyTakenSkipped
  <2>4. CASE UNCHANGED capVars
    BY <2>4 DEF capVars, prodVars, consVars, CapIInv, Shapes, Places,
       ImagesConserved, Counted, NewestKept, OnlyTakenSkipped
  <2>5. QED
    BY <2>1, <2>2, <2>3, <2>4 DEF CapNext
<1>3. QED
  BY <1>1, <1>2, PTL DEF CapSpec

\* No image is lost or counted twice in either mode of Run, however the
\* producer and the consumer interleave (runBuffered, runDirect, consume).
THEOREM ConservesImages == CapSpec => []ImagesConserved
<1>1. CapIInv => ImagesConserved
  BY DEF CapIInv
<1>2. QED
  BY <1>1, CaptureInvariant, PTL

\* The third select always finds room: the newest image is kept (runBuffered).
THEOREM KeepsNewest == CapSpec => []NewestKept
<1>1. CapIInv => NewestKept
  BY DEF CapIInv
<1>2. QED
  BY <1>1, CaptureInvariant, PTL

\* A forged frame never hides the genuine one at its position (consume).
THEOREM SkipsOnlyTaken == CapSpec => []OnlyTakenSkipped
<1>1. CapIInv => OnlyTakenSkipped
  BY DEF CapIInv
<1>2. QED
  BY <1>1, CaptureInvariant, PTL

\* Type correctness; that a counter never passes the number of images read is
\* a consequence of conservation (Stats, production).
THEOREM CaptureTypes == CapSpec => []CapTypeOK
<1>1. CapIInv => CapTypeOK
  <2> SUFFICES ASSUME CapIInv PROVE CapTypeOK
    OBVIOUS
  <2>0. Shapes /\ ImagesConserved
    BY DEF CapIInv
  <2>1. \A q \in {next, chan, cur} : q = <<>> \/ (Len(q) = 1 /\ q[1] \in Image)
    BY <2>0 DEF Shapes, Slots
  <2>2. /\ Len(next) \in Nat /\ Len(chan) \in Nat /\ Len(cur) \in Nat
        /\ Counted \in Nat /\ dropped \in Nat /\ produced \in Nat
        /\ produced <= MaxImages /\ MaxImages \in Nat
    BY <2>0, SlotLen, CountedNat, CaptureBoundAssumption DEF Shapes
  <2>3. dropped + Counted <= MaxImages
    BY <2>0, <2>2 DEF ImagesConserved
  <2>4. dropped \in 0 .. MaxImages
    BY <2>2, <2>3
  <2>5. \A k \in Buckets : stats[k] \in Nat /\ stats[k] <= Counted
    BY <2>0 DEF Shapes, Buckets, Counted
  <2>6. \A k \in Buckets : stats[k] \in 0 .. MaxImages
    BY <2>2, <2>3, <2>5
  <2>7. stats \in [Buckets -> 0 .. MaxImages]
    BY <2>0, <2>6 DEF Shapes
  <2>8. {closed, done, failed, handleErr, cancelled} \subseteq BOOLEAN
    BY <2>0 DEF Shapes
  <2>9. QED
    BY <2>0, <2>1, <2>4, <2>7, <2>8 DEF CapTypeOK, Shapes
<1>2. QED
  BY <1>1, CaptureInvariant, PTL

\* The order of the end: the producer closes the channel and then reports, the
\* consumer leaves its loop when the channel is closed and empty and returns
\* when it has the report.  Without a buffer there is neither.
EndOrder ==
    /\ closed => ppc \in {"report", "none"}
    /\ done => ppc = "none"
    /\ buffer /\ cpc \in {"await", "returned"} => closed /\ chan = <<>>
    /\ buffer /\ cpc = "returned" => done
    /\ buffer => cpc # "read"
    /\ ~buffer => ppc = "none" /\ chan = <<>> /\ cpc \notin {"range", "await"}

LEMMA EndOrderKept ==
    ASSUME CapIInv, EndOrder, [CapNext]_capVars
    PROVE  EndOrder'
<1>0. buffer \in BOOLEAN
  BY DEF CapIInv, Shapes
<1>1. CASE Produce
  BY <1>1 DEF Produce, SourceYields, SourceEnds, Offer, Evict, Replace, CloseImages,
              SendProduction, Send, consVars, EndOrder
<1>2. CASE Take \/ RangeEnds \/ Await \/ DirectEnds \/ \E img \in Images : DirectRead(img)
  BY <1>2 DEF Take, RangeEnds, Await, DirectRead, DirectEnds, prodVars, EndOrder
<1>3. CASE Consume
  <2>1. /\ buffer => cpc' = "range"
        /\ ~buffer => cpc' \in {"read", "returned"}
        /\ UNCHANGED <<buffer, prodVars, chan>>
    BY <1>0, <1>3 DEF Consume
  <2>2. QED
    BY <2>1 DEF prodVars, EndOrder
<1>4. CASE Cancel \/ UNCHANGED capVars
  BY <1>4 DEF Cancel, capVars, prodVars, consVars, EndOrder
<1>5. QED
  BY <1>1, <1>2, <1>3, <1>4 DEF CapNext, ConsumeStep

\* What Run returns leaves out one image at most, and only when the handler
\* failed: that image itself.
AllButTheFailed ==
    cpc = "returned" => produced = dropped + Counted + (IF handleErr THEN 1 ELSE 0)

\* The claim of Stats.Accounted, that every image is in exactly one bucket, holds
\* of every run whose handler returned no error, and is wrong by exactly the one
\* image of the others: whatever was with the producer or in the channel when the
\* run was cancelled is counted (runBuffered, runDirect, consume).
THEOREM AccountedWithoutError ==
    CapSpec => [](AllButTheFailed /\ (~handleErr => AccountedOnReturn))
<1>1. CapInit => EndOrder
  BY DEF CapInit, EndOrder
<1>2. CapIInv /\ EndOrder /\ [CapNext]_capVars => EndOrder'
  BY EndOrderKept
<1>3. CapIInv /\ EndOrder => AllButTheFailed /\ (~handleErr => AccountedOnReturn)
  <2> SUFFICES ASSUME CapIInv, EndOrder, cpc = "returned"
               PROVE  /\ produced = dropped + Counted + (IF handleErr THEN 1 ELSE 0)
                      /\ ~handleErr => Accounted
    BY DEF AllButTheFailed, AccountedOnReturn
  <2>1. ppc = "none" /\ chan = <<>>
    BY DEF EndOrder
  <2>2. next = <<>> /\ cur = <<>>
    BY <2>1 DEF CapIInv, Places
  <2>3. Counted \in Nat /\ dropped \in Nat /\ produced \in Nat /\ handleErr \in BOOLEAN
    BY CountedNat DEF CapIInv, Shapes
  <2>4. produced = dropped + Counted + 0 + 0 + 0 + (IF handleErr THEN 1 ELSE 0)
    BY <2>1, <2>2 DEF CapIInv, ImagesConserved
  <2>5. CASE handleErr
    BY <2>3, <2>4, <2>5
  <2>6. CASE ~handleErr
    BY <2>3, <2>4, <2>6 DEF Accounted
  <2>7. QED
    BY <2>5, <2>6
<1>4. QED
  BY <1>1, <1>2, <1>3, CaptureInvariant, PTL DEF CapSpec

-----------------------------------------------------------------------------
(***************************************************************************)
(* The frame directory holds what its manifest says, and a display shows   *)
(* it, for any number of sends of any length, cut and shown at any moment. *)
(***************************************************************************)

SendPcs == {"idle", "open", "fill", "render", "sign", "signed", "done", "failed", "unrendered"}
FrameFile == [of: Sessions, whole: BOOLEAN]
SendState == [of: Sessions \cup {Nobody}, pc: SendPcs, next: Nat \ {0}]
DisplayState == [pc: {"idle", "listing", "reading", "showing", "ended"},
                 of: Sessions \cup {Nobody}, files: Seq(Nat), got: Seq(FrameFile),
                 next: Nat \ {0}, loops: Nat, loop: Nat]

\* Every variable holds a value of its kind.
DirTypes ==
    /\ frames \in Seq(FrameFile)
    /\ manifest \in [of: Sessions \cup {Nobody}, whole: BOOLEAN]
    /\ send \in SendState
    /\ begun \subseteq Sessions /\ damaged \in Nat
    /\ display \in DisplayState

\* Whatever lies in the directory or is on display is of a send that has begun.
\* The next send draws a session nobody has, so nothing there is taken for its.
OfBegun ==
    /\ send.pc = "idle" => begun = {}
    /\ send.pc # "idle" => send.of \in begun
    /\ \A i \in DOMAIN frames : frames[i].of \in begun
    /\ manifest.whole => manifest.of \in begun
    /\ display.pc \in {"listing", "reading", "showing"} => display.of \in begun

\* A file is a whole one, or a torn one, of session s.
Whole(file, s) == file = File(s, TRUE)
Torn(file, s) == file = File(s, FALSE)

\* The first n files are frames of the send that runs, and whole unless damaged.
Ready(n) ==
    /\ n <= Len(frames)
    /\ damaged = 0 => \A i \in 1 .. n : Whole(frames[i], send.of)

\* How far the send that runs has come.
SendProgress ==
    /\ send.pc # "idle" => send.next <= FrameCount[send.of]
    /\ send.pc # "idle" => \A i \in DOMAIN frames : frames[i].of = send.of => i <= send.next
    /\ send.pc = "open" => Ready(send.next - 1)
    /\ send.pc = "fill" => Ready(send.next - 1) /\ send.next <= Len(frames)
    /\ send.pc \in {"render", "sign", "signed", "done"} => Ready(send.next)
    /\ send.pc \in {"sign", "signed", "done"} => send.next = FrameCount[send.of]
    /\ send.pc = "done" <=> Whole(manifest, send.of)

\* Names of one length are listed by number.
ByNumber(list) ==
    Len(list) <= PadTo => \A i, j \in 1 .. Len(list) : i < j => list[i] < list[j]

\* What a display has listed, and read so far, of the send whose manifest it
\* verified: that send is done, so nothing is written under it.
DisplayProgress ==
    /\ display.pc \in {"idle", "listing"} => display.got = <<>>
    /\ display.pc = "reading" =>
        /\ Len(display.got) < Len(display.files)
        /\ \A p \in 1 .. Len(display.files) : display.files[p] \in 1 .. Len(frames)
    /\ display.pc \in {"reading", "showing"} => ByNumber(display.files)
    /\ display.pc = "listing" /\ display.of = send.of => send.pc = "done"
    /\ display.pc \in {"reading", "showing"} /\ display.of = send.of =>
        /\ send.pc = "done"
        /\ \A i \in 1 .. FrameCount[send.of] :
              \E p \in 1 .. Len(display.files) : display.files[p] = i
        /\ display.pc = "showing" => Len(display.got) = Len(display.files)
        /\ damaged = 0 => \A p \in 1 .. Len(display.got) :
              display.files[p] <= FrameCount[send.of] => Whole(display.got[p], send.of)

\* The inductive invariant.
DirIInv == DirTypes /\ OfBegun /\ SendProgress /\ DisplayProgress

\* Writing a frame file puts it in its place and leaves the others alone.
LEMMA PutFrame ==
    ASSUME frames \in Seq(FrameFile), NEW i \in 1 .. Len(frames) + 1, NEW f \in FrameFile
    PROVE  /\ Put(i, f) \in Seq(FrameFile)
           /\ Len(frames) <= Len(Put(i, f)) /\ i <= Len(Put(i, f))
           /\ DOMAIN Put(i, f) = 1 .. Len(Put(i, f))
           /\ Put(i, f)[i] = f
           /\ \A j \in 1 .. Len(Put(i, f)) : j # i => j \in 1 .. Len(frames) /\ Put(i, f)[j] = frames[j]
<1>. HIDE DEF FrameFile
<1>1. CASE i <= Len(frames)
  BY <1>1 DEF Put
<1>2. CASE i = Len(frames) + 1
  BY <1>2 DEF Put
<1>. QED
  BY <1>1, <1>2

LEMMA FileType ==
    ASSUME NEW s \in Sessions, NEW w \in BOOLEAN
    PROVE  File(s, w) \in FrameFile /\ File(s, w).of = s /\ File(s, w).whole = w
  BY DEF File, FrameFile

\* Two files are the same when they are of the same session and as whole.
LEMMA FileEqual ==
    ASSUME NEW S, NEW f \in [of: S, whole: BOOLEAN], NEW s
    PROVE  Whole(f, s) <=> f.of = s /\ f.whole
  BY DEF File, Whole

\* The send goes from one place to another.
LEMMA SendMoves ==
    ASSUME send \in SendState, NEW pc \in SendPcs, SendTo(pc)
    PROVE  send' \in SendState /\ send'.of = send.of /\ send'.pc = pc /\ send'.next = send.next
  BY DEF SendState, SendTo

\* The send goes to its next frame, or to the manifest after the last.
LEMMA SendAdvances ==
    ASSUME send \in SendState, send.of \in Sessions, send.next <= FrameCount[send.of], Advance
    PROVE  /\ send' \in SendState /\ send'.of = send.of /\ send'.next <= FrameCount[send.of]
           /\ \/ send'.pc = "open" /\ send'.next = send.next + 1
              \/ send'.pc = "sign" /\ send'.next = send.next /\ send.next = FrameCount[send.of]
<1>1. FrameCount[send.of] \in Nat /\ send.next \in Nat \ {0}
  BY FrameDirAssumption DEF SendState
<1>2. CASE send.next < FrameCount[send.of]
  <2>1. send' = [send EXCEPT !.next = send.next + 1, !.pc = "open"]
    BY <1>2 DEF Advance
  <2>2. send' \in SendState /\ send'.of = send.of /\ send'.pc = "open" /\ send'.next = send.next + 1
    <3>. DEFINE m == send.next + 1
    <3>1. m \in Nat \ {0} /\ send' = [send EXCEPT !.next = m, !.pc = "open"]
      BY <1>1, <2>1
    <3>. HIDE DEF m
    <3>2. send' \in SendState /\ send'.of = send.of /\ send'.pc = "open" /\ send'.next = m
      BY <3>1 DEF SendState, SendPcs
    <3>. QED
      BY <3>2 DEF m
  <2>. QED
    BY <1>1, <1>2, <2>2
<1>3. CASE ~(send.next < FrameCount[send.of])
  <2>1. send' = [send EXCEPT !.pc = "sign"]
    BY <1>3 DEF Advance
  <2>2. send' \in SendState /\ send'.of = send.of /\ send'.pc = "sign" /\ send'.next = send.next
    BY <2>1 DEF SendState, SendPcs
  <2>. QED
    BY <1>1, <1>3, <2>2
<1>. QED
  BY <1>2, <1>3

\* The fields of the typed variables.
LEMMA DirFields ==
    ASSUME DirTypes
    PROVE  /\ frames \in Seq(FrameFile) /\ Len(frames) \in Nat /\ DOMAIN frames = 1 .. Len(frames)
           /\ send \in SendState /\ send.next \in Nat \ {0} /\ send.pc \in SendPcs
           /\ damaged \in Nat /\ begun \subseteq Sessions
           /\ display.got \in Seq(FrameFile) /\ Len(display.got) \in Nat
           /\ display.files \in Seq(Nat) /\ Len(display.files) \in Nat
<1>1. frames \in Seq(FrameFile) /\ send \in SendState /\ damaged \in Nat /\ begun \subseteq Sessions
      /\ display \in DisplayState
  BY DEF DirTypes
<1>2. display.got \in Seq(FrameFile) /\ display.files \in Seq(Nat)
  BY <1>1 DEF DisplayState
<1>. QED
  BY <1>1, <1>2 DEF SendState

LEMMA DirInitIInv == DirInit => DirIInv
<1>. SUFFICES ASSUME DirInit PROVE DirIInv
  OBVIOUS
<1>1. DirTypes
  BY DEF DirInit, DirTypes, SendState, DisplayState, SendPcs, Absent, File
<1>2. OfBegun
  BY DEF DirInit, OfBegun, Absent, File
<1>3. SendProgress
  BY DEF DirInit, SendProgress, Ready, Absent, File, Whole
<1>4. DisplayProgress
  BY DEF DirInit, DisplayProgress
<1>. QED
  BY <1>1, <1>2, <1>3, <1>4 DEF DirIInv

\* A send begins: nothing in the directory is its, and nothing on display.
LEMMA StartKeeps ==
    ASSUME DirIInv, NEW s \in Sessions, StartSend(s)
    PROVE  DirIInv'
<1>. USE DEF DirIInv
<1>1. /\ send'.of = s /\ send'.pc = "open" /\ send'.next = 1 /\ begun' = begun \cup {s}
      /\ s \notin begun /\ UNCHANGED <<frames, manifest, damaged, display>>
  BY DEF StartSend
<1>2. DirTypes'
  BY <1>1 DEF DirTypes, StartSend, SendState, SendPcs
<1>3. OfBegun'
  BY <1>1 DEF OfBegun
<1>4. SendProgress'
  <2>1. FrameCount[s] \in Nat \ {0}
    BY FrameDirAssumption
  <2>2. \A i \in DOMAIN frames : frames[i].of # s
    BY <1>1 DEF OfBegun
  <2>3. ~Whole(manifest, s)
    BY <1>1 DEF OfBegun, File, Whole
  <2>4. Ready(0)'
    BY <1>1 DEF Ready, DirTypes
  <2>. QED
    BY <1>1, <2>1, <2>2, <2>3, <2>4 DEF SendProgress
<1>5. DisplayProgress'
  BY <1>1 DEF DisplayProgress, OfBegun
<1>. QED
  BY <1>2, <1>3, <1>4, <1>5

\* A step of the send writes one frame file, at the next place.
LEMMA FrameKeeps ==
    ASSUME DirIInv, OpenFrame \/ FillFrame
    PROVE  DirIInv'
<1>. USE DEF DirIInv
<1>. DEFINE s == send.of
            n == send.next
<1>1. send.pc \in {"open", "fill"} /\ UNCHANGED <<manifest, begun, damaged, display>>
  BY DEF OpenFrame, FillFrame
<1>2. /\ s \in begun /\ s \in Sessions /\ n \in Nat \ {0} /\ n <= FrameCount[s]
      /\ FrameCount[s] \in Nat \ {0} /\ Len(frames) \in Nat
  BY <1>1, DirFields, FrameDirAssumption DEF OfBegun, SendProgress
<1>3. n \in 1 .. Len(frames) + 1
  BY <1>1, <1>2 DEF SendProgress, Ready
<1>4. PICK f \in FrameFile :
        frames' = Put(n, f) /\ f.of = s /\ (send.pc = "fill" => Whole(f, s))
  <2>1. CASE OpenFrame
    BY <1>2, <2>1, FileType DEF OpenFrame
  <2>2. CASE FillFrame
    BY <1>2, <2>2, FileType DEF FillFrame, Whole
  <2>. QED
    BY <2>1, <2>2
<1>5. /\ frames' \in Seq(FrameFile)
      /\ Len(frames) <= Len(frames') /\ n <= Len(frames') /\ Len(frames') \in Nat
      /\ DOMAIN frames' = 1 .. Len(frames')
      /\ frames'[n] = f
      /\ \A j \in 1 .. Len(frames') : j # n => j \in 1 .. Len(frames) /\ frames'[j] = frames[j]
  <2>1. frames \in Seq(FrameFile)
    BY DEF DirTypes
  <2>2. /\ Put(n, f) \in Seq(FrameFile)
        /\ Len(frames) <= Len(Put(n, f)) /\ n <= Len(Put(n, f))
        /\ DOMAIN Put(n, f) = 1 .. Len(Put(n, f))
        /\ Put(n, f)[n] = f
        /\ \A j \in 1 .. Len(Put(n, f)) :
              j # n => j \in 1 .. Len(frames) /\ Put(n, f)[j] = frames[j]
    BY <1>3, <1>4, <2>1, PutFrame
  <2>3. Len(Put(n, f)) \in Nat
    BY <2>2
  <2>4. frames' = Put(n, f)
    BY <1>4
  <2>. QED
    BY <2>2, <2>3, <2>4
<1>6. /\ send' \in SendState /\ send'.of = s /\ send'.next <= FrameCount[s]
      /\ \/ send.pc = "open" /\ send'.pc = "fill" /\ send'.next = n
         \/ send.pc = "fill" /\ send'.pc = "render" /\ send'.next = n
         \/ send.pc = "fill" /\ send'.pc = "open" /\ send'.next = n + 1
         \/ send.pc = "fill" /\ send'.pc = "sign" /\ send'.next = n /\ n = FrameCount[s]
  <2>1. send \in SendState
    BY DEF DirTypes
  <2>2. CASE send.pc = "open" /\ SendTo("fill")
    BY <1>2, <2>1, <2>2, SendMoves DEF SendPcs
  <2>3. CASE send.pc = "fill" /\ SendTo("render")
    BY <1>2, <2>1, <2>3, SendMoves DEF SendPcs
  <2>4. CASE send.pc = "fill" /\ Advance
    BY <1>2, <2>1, <2>4, SendAdvances
  <2>. QED
    BY <2>2, <2>3, <2>4 DEF OpenFrame, FillFrame
<1>7. send'.pc \notin {"idle", "done"} /\ send'.next \in Nat \ {0} /\ n <= send'.next
  BY <1>2, <1>6
<1>8. DirTypes'
  BY <1>1, <1>5, <1>6 DEF DirTypes
<1>9. OfBegun'
  <2>1. \A i \in DOMAIN frames' : frames'[i].of \in begun
    BY <1>2, <1>4, <1>5, DirFields DEF OfBegun
  <2>. QED
    BY <1>1, <1>2, <1>6, <1>7, <2>1 DEF OfBegun
<1>10. \A i \in DOMAIN frames' : frames'[i].of = s => i <= n
  <2>1. \A i \in 1 .. Len(frames) : frames[i].of = s => i <= n
    BY <1>1, DirFields DEF SendProgress
  <2>. QED
    BY <1>2, <1>5, <2>1
<1>11. damaged = 0 => \A i \in 1 .. n - 1 : Whole(frames'[i], s)
  BY <1>1, <1>2, <1>5 DEF SendProgress, Ready
<1>12. send.pc = "fill" /\ damaged = 0 => \A i \in 1 .. n : Whole(frames'[i], s)
  <2>. SUFFICES ASSUME send.pc = "fill", damaged = 0, NEW i \in 1 .. n
                PROVE  Whole(frames'[i], s)
    OBVIOUS
  <2>1. CASE i = n
    BY <1>4, <1>5, <2>1
  <2>2. CASE i \in 1 .. n - 1
    BY <1>11, <2>2
  <2>. QED
    BY <1>2, <2>1, <2>2
<1>13. ~Whole(manifest, s)
  BY <1>1 DEF SendProgress
<1>14. SendProgress'
  BY <1>1, <1>2, <1>5, <1>6, <1>7, <1>10, <1>11, <1>12, <1>13 DEF SendProgress, Ready
<1>15. DisplayProgress'
  BY <1>1, <1>2, <1>5, <1>6, DirFields DEF DisplayProgress
<1>. QED
  BY <1>8, <1>9, <1>14, <1>15

\* A step of the send that writes no frame file.
LEMMA SendKeeps ==
    ASSUME DirIInv, Render \/ RenderFails \/ OpenManifest \/ FillManifest \/ Cut
    PROVE  DirIInv'
<1>. USE DEF DirIInv
<1>. DEFINE s == send.of
            n == send.next
<1>1. /\ send.pc \notin {"idle", "done"}
      /\ UNCHANGED <<frames, begun, damaged, display>>
  BY DEF Render, RenderFails, OpenManifest, FillManifest, Cut, Sending
<1>2. /\ s \in begun /\ s \in Sessions /\ n \in Nat \ {0} /\ n <= FrameCount[s]
      /\ FrameCount[s] \in Nat \ {0} /\ Len(frames) \in Nat
  BY <1>1, DirFields, FrameDirAssumption DEF OfBegun, SendProgress
<1>3. /\ send' \in SendState /\ send'.of = s /\ send'.next <= FrameCount[s]
      /\ \/ send'.pc \in {"failed", "unrendered"} /\ send'.next = n /\ manifest' = manifest
         \/ send.pc = "render" /\ send'.pc = "open" /\ send'.next = n + 1 /\ manifest' = manifest
         \/ send.pc = "render" /\ send'.pc = "sign" /\ send'.next = n /\ n = FrameCount[s]
            /\ manifest' = manifest
         \/ send.pc = "sign" /\ send'.pc = "signed" /\ send'.next = n
            /\ Torn(manifest', s)
         \/ send.pc = "signed" /\ send'.pc = "done" /\ send'.next = n /\ Whole(manifest', s)
  <2>1. send \in SendState
    BY DEF DirTypes
  <2>2. CASE Render
    BY <1>2, <2>1, <2>2, SendAdvances DEF Render
  <2>3. CASE RenderFails \/ Cut
    BY <1>2, <2>1, <2>3, SendMoves DEF RenderFails, Cut, SendPcs
  <2>4. CASE OpenManifest
    BY <1>2, <2>1, <2>4, SendMoves DEF OpenManifest, Torn, SendPcs
  <2>5. CASE FillManifest
    BY <1>2, <2>1, <2>5, SendMoves DEF FillManifest, Whole, SendPcs
  <2>. QED
    BY <2>2, <2>3, <2>4, <2>5
<1>4. send'.pc # "idle" /\ send'.next \in Nat \ {0} /\ n <= send'.next
  BY <1>2, <1>3
<1>5. /\ manifest' \in [of: Sessions \cup {Nobody}, whole: BOOLEAN]
      /\ manifest'.whole => manifest'.of \in begun
      /\ Whole(manifest', s) <=> send'.pc = "done"
  <2>1. CASE manifest' = manifest /\ send'.pc # "done"
    BY <1>1, <2>1 DEF DirTypes, OfBegun, SendProgress
  <2>2. CASE Torn(manifest', s) /\ send'.pc # "done"
    BY <1>2, <2>2 DEF File, Whole, Torn
  <2>3. CASE Whole(manifest', s) /\ send'.pc = "done"
    BY <1>2, <2>3 DEF File, Whole
  <2>. QED
    BY <1>3, <2>1, <2>2, <2>3
<1>6. DirTypes'
  BY <1>1, <1>3, <1>5 DEF DirTypes
<1>7. OfBegun'
  BY <1>1, <1>2, <1>3, <1>4, <1>5 DEF OfBegun
<1>8. \A i \in DOMAIN frames : frames[i].of = s => i <= n
  BY <1>1 DEF SendProgress
<1>9. send.pc \in {"render", "sign", "signed"} => Ready(n)
  BY DEF SendProgress
<1>10. send.pc \in {"sign", "signed"} => n = FrameCount[s]
  BY DEF SendProgress
<1>11. SendProgress'
  BY <1>1, <1>2, <1>3, <1>4, <1>5, <1>8, <1>9, <1>10 DEF SendProgress, Ready
<1>12. DisplayProgress'
  BY <1>1, <1>2, <1>3 DEF DisplayProgress
<1>. QED
  BY <1>6, <1>7, <1>11, <1>12

\* A display begins: a manifest of the send that runs is there only when it is
\* done.
LEMMA OpenKeeps ==
    ASSUME DirIInv, NEW loops \in LoopCounts, OpenDisplay(loops)
    PROVE  DirIInv'
<1>. USE DEF DirIInv
<1>1. /\ display.pc = "idle" /\ manifest.whole
      /\ UNCHANGED <<frames, manifest, send, begun, damaged>>
  BY DEF OpenDisplay
<1>2. display'.pc = "listing" /\ display'.of = manifest.of /\ display'.got = <<>>
  BY DEF OpenDisplay, DirTypes, DisplayState, DisplayProgress
<1>3. DirTypes'
  <2>1. loops \in Nat /\ manifest.of \in Sessions \cup {Nobody}
    BY FrameDirAssumption DEF DirTypes
  <2>2. display' \in DisplayState
    BY <2>1 DEF OpenDisplay, DirTypes, DisplayState
  <2>. QED
    BY <1>1, <2>2 DEF DirTypes
<1>4. OfBegun'
  BY <1>1, <1>2 DEF OfBegun
<1>5. SendProgress'
  BY <1>1 DEF SendProgress, Ready
<1>6. manifest.of = send.of => send.pc = "done"
  BY <1>1, FileEqual DEF SendProgress, DirTypes
<1>7. DisplayProgress'
  BY <1>1, <1>2, <1>6 DEF DisplayProgress
<1>. QED
  BY <1>3, <1>4, <1>5, <1>7

\* A list in the order of names has every file, and is by number while no name has
\* outgrown its padding.
LEMMA Listed ==
    ASSUME NEW n \in Nat, NEW list \in [1 .. n -> 1 .. n], InNameOrder(list)
    PROVE  /\ list \in Seq(Nat) /\ Len(list) = n
           /\ \A p \in 1 .. n : list[p] \in 1 .. n
           /\ \A i \in 1 .. n : \E p \in 1 .. n : list[p] = i
           /\ ByNumber(list)
<1>1. list \in Seq(Nat) /\ Len(list) = n /\ DOMAIN list = 1 .. n
  OBVIOUS
<1>2. \A i \in 1 .. n : \E p \in 1 .. n : list[p] = i
  BY <1>1 DEF InNameOrder
<1>3. ASSUME n <= PadTo, NEW i \in 1 .. n, NEW j \in 1 .. n, i < j
      PROVE  list[i] < list[j]
  <2>. DEFINE a == list[i] - 1
              b == list[j] - 1
  <2>1. a \in Nat /\ b \in Nat /\ a < PadTo /\ b < PadTo
    BY <1>3, FrameDirAssumption
  <2>2. NameBefore(a, b)
    BY <1>1, <1>3 DEF InNameOrder
  <2>. HIDE DEF a, b
  <2>3. Scale(a) = 1 /\ Scale(b) = 1
    BY <2>1 DEF Scale
  <2>4. a < b
    BY <2>1, <2>2, <2>3 DEF NameBefore
  <2>. QED
    BY <1>3, <2>4 DEF a, b
<1>. QED
  BY <1>1, <1>2, <1>3 DEF ByNumber

\* The files are listed: all those of the send that is done are there.
LEMMA ListKeeps ==
    ASSUME DirIInv, ListFrames
    PROVE  DirIInv'
<1>. USE DEF DirIInv
<1>1. /\ display.pc = "listing" /\ frames # <<>>
      /\ UNCHANGED <<frames, manifest, send, begun, damaged>>
  BY DEF ListFrames
<1>2. PICK list \in [DOMAIN frames -> DOMAIN frames] :
          InNameOrder(list) /\ display' = [display EXCEPT !.pc = "reading", !.files = list]
  BY DEF ListFrames
<1>. DEFINE n == Len(frames)
<1>3. n \in Nat \ {0} /\ list \in [1 .. n -> 1 .. n]
  <2>. HIDE DEF FrameFile
  <2>1. frames \in Seq(FrameFile) /\ DOMAIN frames = 1 .. n
    BY DirFields
  <2>2. n \in Nat \ {0}
    BY <1>1, <2>1
  <2>. QED
    BY <1>2, <2>1, <2>2
<1>4. /\ list \in Seq(Nat) /\ Len(list) = n /\ ByNumber(list)
      /\ \A p \in 1 .. n : list[p] \in 1 .. n
      /\ \A i \in 1 .. n : \E p \in 1 .. n : list[p] = i
  BY <1>2, <1>3, Listed
<1>5. /\ display'.pc = "reading" /\ display'.of = display.of /\ display'.files = list
      /\ display'.got = <<>>
  BY <1>1, <1>2 DEF DirTypes, DisplayState, DisplayProgress
<1>6. DirTypes'
  <2>1. display' \in DisplayState
    BY <1>2, <1>4 DEF DirTypes, DisplayState
  <2>. QED
    BY <1>1, <2>1 DEF DirTypes
<1>7. OfBegun'
  BY <1>1, <1>5 DEF OfBegun
<1>8. SendProgress'
  BY <1>1 DEF SendProgress, Ready
<1>9. ASSUME display.of = send.of
      PROVE  /\ send.pc = "done"
             /\ \A i \in 1 .. FrameCount[send.of] : \E p \in 1 .. n : list[p] = i
  <2>1. send.pc = "done"
    BY <1>1, <1>9 DEF DisplayProgress
  <2>2. send.of \in Sessions
    BY <2>1 DEF OfBegun, DirTypes
  <2>3. FrameCount[send.of] \in Nat /\ FrameCount[send.of] <= n
    BY <2>1, <2>2, FrameDirAssumption DEF SendProgress, Ready
  <2>4. \A i \in 1 .. FrameCount[send.of] : i \in 1 .. n
    <3>. HIDE DEF n
    <3>. QED
      BY <1>3, <2>3
  <2>. QED
    BY <1>4, <2>1, <2>4
<1>10. DisplayProgress'
  <2>. HIDE DEF n
  <2>1. Len(display'.got) = 0 /\ Len(display'.files) = n /\ n = Len(frames')
    BY <1>1, <1>4, <1>5 DEF n
  <2>. QED
    BY <1>1, <1>3, <1>4, <1>5, <1>9, <2>1 DEF DisplayProgress
<1>. QED
  BY <1>6, <1>7, <1>8, <1>10

\* The next file of the list is read into the display, as it is then.
LEMMA ReadKeeps ==
    ASSUME DirIInv, ReadFrame
    PROVE  DirIInv'
<1>. USE DEF DirIInv
<1>. DEFINE k == Len(display.got) + 1
            f == display.files[k]
            got == Append(display.got, frames[f])
<1>1. /\ display.pc = "reading" /\ UNCHANGED <<frames, manifest, send, begun, damaged>>
      /\ display' = [display EXCEPT !.got = got,
                         !.pc = IF Len(got) = Len(display.files) THEN "showing" ELSE "reading"]
  BY DEF ReadFrame
<1>2. /\ display.got \in Seq(FrameFile) /\ frames \in Seq(FrameFile)
      /\ display.files \in Seq(Nat) /\ Len(display.files) \in Nat
      /\ k \in 1 .. Len(display.files) /\ f \in 1 .. Len(frames)
  <2>1. /\ display.got \in Seq(FrameFile) /\ frames \in Seq(FrameFile)
        /\ display.files \in Seq(Nat) /\ Len(display.files) \in Nat /\ Len(display.got) \in Nat
    BY DirFields
  <2>2. k \in 1 .. Len(display.files)
    BY <1>1, <2>1 DEF DisplayProgress
  <2>. QED
    BY <1>1, <2>1, <2>2 DEF DisplayProgress
<1>3. /\ got \in Seq(FrameFile) /\ Len(got) = k /\ got[k] = frames[f]
      /\ \A p \in 1 .. k - 1 : got[p] = display.got[p]
  <2>. HIDE DEF FrameFile, f
  <2>. QED
    BY <1>2
<1>. HIDE DEF got, f
<1>4. /\ display'.got = got /\ display'.of = display.of /\ display'.files = display.files
      /\ display'.pc = IF k = Len(display.files) THEN "showing" ELSE "reading"
  BY <1>1, <1>3 DEF DirTypes, DisplayState
<1>5. DirTypes'
  <2>1. display' \in DisplayState
    BY <1>1, <1>3 DEF DirTypes, DisplayState
  <2>. QED
    BY <1>1, <2>1 DEF DirTypes
<1>6. OfBegun'
  BY <1>1, <1>4 DEF OfBegun
<1>7. SendProgress'
  BY <1>1 DEF SendProgress, Ready
<1>8. ASSUME display.of = send.of
      PROVE  /\ send.pc = "done"
             /\ \A i \in 1 .. FrameCount[send.of] :
                   \E p \in 1 .. Len(display.files) : display.files[p] = i
             /\ damaged = 0 => \A p \in 1 .. k :
                   display.files[p] <= FrameCount[send.of] => Whole(got[p], send.of)
  <2>1. /\ send.pc = "done"
        /\ \A i \in 1 .. FrameCount[send.of] :
              \E p \in 1 .. Len(display.files) : display.files[p] = i
    BY <1>1, <1>8 DEF DisplayProgress
  <2>2. send.of \in Sessions /\ FrameCount[send.of] \in Nat
    BY <2>1, FrameDirAssumption DEF OfBegun, DirTypes
  <2>3. ASSUME damaged = 0, NEW p \in 1 .. k, display.files[p] <= FrameCount[send.of]
        PROVE  Whole(got[p], send.of)
    <3>1. CASE p = k
      <4>1. f \in 1 .. FrameCount[send.of]
        BY <1>2, <2>2, <2>3, <3>1 DEF f
      <4>2. Whole(frames[f], send.of)
        BY <2>1, <2>3, <4>1 DEF SendProgress, Ready
      <4>. QED
        BY <1>3, <3>1, <4>2
    <3>2. CASE p < k
      <4>1. p \in 1 .. Len(display.got) /\ got[p] = display.got[p]
        BY <1>2, <1>3, <3>2
      <4>. QED
        BY <1>1, <1>8, <2>3, <4>1 DEF DisplayProgress
    <3>. QED
      <4>1. k \in Nat /\ p \in 1 .. k
        BY <1>2, <2>3
      <4>. HIDE DEF k
      <4>. QED
        BY <3>1, <3>2, <4>1
  <2>. QED
    BY <2>1, <2>3
<1>9. DisplayProgress'
  <2>1. display.pc = "reading" =>
           /\ ByNumber(display.files)
           /\ \A p \in 1 .. Len(display.files) : display.files[p] \in 1 .. Len(frames)
    BY DEF DisplayProgress
  <2>. QED
    BY <1>1, <1>2, <1>3, <1>4, <1>8, <2>1 DEF DisplayProgress
<1>. QED
  BY <1>5, <1>6, <1>7, <1>9

\* Showing changes neither what was read nor the directory.
LEMMA ShowKeeps ==
    ASSUME DirIInv, Tick \/ StopDisplay
    PROVE  DirIInv'
<1>. USE DEF DirIInv
<1>1. /\ display.pc \in {"listing", "reading", "showing"}
      /\ UNCHANGED <<frames, manifest, send, begun, damaged>>
  BY DEF Tick, StopDisplay
<1>2. /\ display'.pc \in {"showing", "ended"} /\ display'.got = display.got
      /\ (display'.pc = "showing" => display.pc = "showing")
      /\ display'.of = display.of /\ display'.files = display.files
  BY DEF Tick, StopDisplay, DirTypes, DisplayState
<1>3. DirTypes'
  <2>1. display \in DisplayState
    BY DEF DirTypes
  <2>2. display' \in DisplayState
    <3>1. CASE StopDisplay
      BY <2>1, <3>1 DEF StopDisplay, DisplayState
    <3>2. CASE Tick
      <4>1. display.next + 1 \in Nat \ {0} /\ display.loop + 1 \in Nat
        BY <2>1 DEF DisplayState
      <4>2. CASE display' = [display EXCEPT !.next = display.next + 1]
        BY <2>1, <4>1, <4>2 DEF DisplayState
      <4>3. CASE display' = [display EXCEPT !.next = 1]
        BY <2>1, <4>3 DEF DisplayState
      <4>4. ASSUME NEW pc \in {"showing", "ended"},
                   display' = [display EXCEPT !.next = 1, !.loop = display.loop + 1, !.pc = pc]
            PROVE  display' \in DisplayState
        <5>. DEFINE l == display.loop + 1
        <5>1. l \in Nat /\ pc \in {"showing", "ended"}
          BY <4>1
        <5>2. display' = [display EXCEPT !.next = 1, !.loop = l, !.pc = pc]
          BY <4>4
        <5>. HIDE DEF l
        <5>. QED
          <6>1. [display EXCEPT !.next = 1] \in DisplayState
            <7>1. \A one \in Nat \ {0} : [display EXCEPT !.next = one] \in DisplayState
              BY <2>1 DEF DisplayState
            <7>. QED
              BY <7>1
          <6>2. [[display EXCEPT !.next = 1] EXCEPT !.loop = l] \in DisplayState
            BY <5>1, <6>1 DEF DisplayState
          <6>3. [[[display EXCEPT !.next = 1] EXCEPT !.loop = l] EXCEPT !.pc = pc] \in DisplayState
            BY <5>1, <6>2 DEF DisplayState
          <6>. QED
            BY <5>2, <6>3
      <4>. QED
        BY <3>2, <4>2, <4>3, <4>4 DEF Tick
    <3>. QED
      BY <3>1, <3>2
  <2>. QED
    BY <1>1, <2>2 DEF DirTypes
<1>4. OfBegun'
  BY <1>1, <1>2 DEF OfBegun
<1>5. SendProgress'
  BY <1>1 DEF SendProgress, Ready
<1>6. DisplayProgress'
  BY <1>1, <1>2 DEF DisplayProgress
<1>. QED
  BY <1>3, <1>4, <1>5, <1>6

\* Damage leaves the files in their places and says so.
LEMMA DamageKeeps ==
    ASSUME DirIInv, NEW i \in DOMAIN frames, DamageFrame(i)
    PROVE  DirIInv'
<1>. USE DEF DirIInv
<1>1. /\ UNCHANGED <<manifest, send, begun, display>> /\ damaged' \in Nat /\ damaged' # 0
  BY DEF DamageFrame, DirTypes
<1>2. /\ frames' \in Seq(FrameFile) /\ Len(frames') = Len(frames) /\ DOMAIN frames' = DOMAIN frames
      /\ \A j \in DOMAIN frames : frames'[j].of = frames[j].of
  <2>1. frames \in Seq(FrameFile)
    BY DEF DirTypes
  <2>2. frames' = [frames EXCEPT ![i] = [frames[i] EXCEPT !.whole = FALSE]]
    BY DEF DamageFrame
  <2>3. /\ [frames[i] EXCEPT !.whole = FALSE] \in FrameFile
        /\ [frames[i] EXCEPT !.whole = FALSE].of = frames[i].of
    <3>1. frames[i] \in FrameFile
      BY <2>1
    <3>. QED
      BY <3>1 DEF FrameFile
  <2>. QED
    BY <2>1, <2>2, <2>3
<1>3. DirTypes'
  BY <1>1, <1>2 DEF DirTypes
<1>4. OfBegun'
  BY <1>1, <1>2 DEF OfBegun
<1>5. SendProgress'
  BY <1>1, <1>2 DEF SendProgress, Ready
<1>6. DisplayProgress'
  BY <1>1, <1>2 DEF DisplayProgress
<1>. QED
  BY <1>3, <1>4, <1>5, <1>6

\* The invariant holds of every behaviour of the directory.
THEOREM DirInvariant == DirSpec => []DirIInv
<1>1. DirIInv /\ [DirNext]_dirVars => DirIInv'
  <2>. SUFFICES ASSUME DirIInv, [DirNext]_dirVars PROVE DirIInv'
    OBVIOUS
  <2>1. CASE UNCHANGED dirVars
    BY <2>1 DEF dirVars, DirIInv, DirTypes, OfBegun, SendProgress, Ready, DisplayProgress
  <2>. QED
    BY <2>1, StartKeeps, FrameKeeps, SendKeeps, OpenKeeps, ListKeeps, ReadKeeps, ShowKeeps,
       DamageKeeps DEF DirNext
<1>. QED
  BY <1>1, DirInitIInv, PTL DEF DirSpec

\* A manifest that verifies comes with every frame it describes, and a send that
\* ended well has left one, whatever was cut before it in the same directory
\* (runSend writes the manifest last).
THEOREM ManifestComplete == DirSpec => []ManifestMeansFrames
<1>1. DirIInv => ManifestMeansFrames
  <2>. SUFFICES ASSUME DirIInv, damaged = 0, send.pc = "done" \/ Whole(manifest, send.of)
                PROVE  Whole(manifest, send.of) /\ FramesOf(send.of) = 1 .. FrameCount[send.of]
    BY DEF ManifestMeansFrames, Whole
  <2>. USE DEF DirIInv
  <2>1. send.pc = "done" /\ Whole(manifest, send.of)
    BY DEF SendProgress
  <2>2. /\ send.next = FrameCount[send.of] /\ send.next \in Nat
        /\ frames \in Seq(FrameFile) /\ send.next <= Len(frames)
        /\ \A i \in 1 .. send.next : Whole(frames[i], send.of)
        /\ \A i \in DOMAIN frames : frames[i].of = send.of => i <= send.next
    BY <2>1, DirFields DEF SendProgress, Ready
  <2>3. \A i \in DOMAIN frames : Whole(frames[i], send.of) <=> i \in 1 .. send.next
    <3>1. \A i \in DOMAIN frames : Whole(frames[i], send.of) => frames[i].of = send.of
      BY DEF File, Whole
    <3>. QED
      BY <2>2, <3>1
  <2>4. FramesOf(send.of) = 1 .. send.next
    <3>1. FramesOf(send.of) = {i \in DOMAIN frames : Whole(frames[i], send.of)}
      BY DEF FramesOf, Whole
    <3>. QED
      BY <2>2, <2>3, <3>1
  <2>. QED
    BY <2>1, <2>2, <2>4
<1>. QED
  BY <1>1, DirInvariant, PTL

\* A display shows every frame of the send whose manifest it verified, whatever ran
\* in the directory while it listed and read, and in the order of the send as long
\* as no name has outgrown its padding; what an earlier and longer send left there is
\* then shown after them (runDisplay).
THEOREM DisplayComplete == DirSpec => []DisplayShowsSend
<1>1. DirIInv => DisplayShowsSend
  <2>. SUFFICES ASSUME DirIInv, damaged = 0, display.pc = "showing", display.of = send.of
                PROVE  /\ \A i \in 1 .. FrameCount[send.of] : \E p \in DOMAIN display.got :
                             display.files[p] = i /\ Whole(display.got[p], send.of)
                       /\ Len(display.got) <= PadTo =>
                             \A p, q \in DOMAIN display.got :
                                p < q => display.files[p] < display.files[q]
    BY DEF DisplayShowsSend, Whole
  <2>1. /\ Len(display.got) = Len(display.files) /\ ByNumber(display.files)
        /\ \A i \in 1 .. FrameCount[send.of] :
              \E p \in 1 .. Len(display.files) : display.files[p] = i
        /\ \A p \in 1 .. Len(display.got) :
              display.files[p] <= FrameCount[send.of] => Whole(display.got[p], send.of)
        /\ send.pc = "done"
    BY DEF DirIInv, DisplayProgress
  <2>2. DOMAIN display.got = 1 .. Len(display.files)
    BY <2>1, DirFields DEF DirIInv
  <2>3. FrameCount[send.of] \in Nat
    BY <2>1, FrameDirAssumption DEF DirIInv, OfBegun, DirTypes
  <2>4. ASSUME NEW i \in 1 .. FrameCount[send.of]
        PROVE  \E p \in DOMAIN display.got :
                  display.files[p] = i /\ Whole(display.got[p], send.of)
    <3>1. PICK p \in 1 .. Len(display.files) : display.files[p] = i
      BY <2>1
    <3>2. Whole(display.got[p], send.of)
      BY <2>1, <2>3, <3>1
    <3>. QED
      BY <2>2, <3>1, <3>2
  <2>. QED
    BY <2>1, <2>2, <2>4 DEF ByNumber
<1>. QED
  BY <1>1, DirInvariant, PTL

-----------------------------------------------------------------------------
(***************************************************************************)
(* The capacity search and what is built on it are right for every table of*)
(* capacities, every number of versions and every starting bound.          *)
(***************************************************************************)

\* Only smallest_version_for moves on, and only past versions that are too small.
VersionAsked ==
    /\ asked.op # "smallest_version_for" => version = asked.version
    /\ asked.op = "smallest_version_for" => \A w \in 1 .. version - 1 : Cap[w] < asked.len

\* An answer is given when the bounds have met, and smallest_version_for gives
\* up only at the last version.
Answered ==
    /\ ~ended => answer = {}
    /\ ended /\ version \notin Versions => answer = {}
    /\ ended /\ version \in Versions =>
        /\ low >= high /\ answer = Answer(asked, version, low)
        /\ asked.op = "smallest_version_for" /\ low < asked.len => version = MAX_VERSION

\* The inductive invariant.
QrIInv == QrTypeOK /\ SearchBrackets /\ VersionAsked /\ Answered

\* The midpoint is above the lower bound and not above the upper one.
LEMMA MidBetween ==
    ASSUME NEW l \in Nat, NEW h \in Nat, l < h
    PROVE  mid(l, h) \in Nat /\ l < mid(l, h) /\ mid(l, h) <= h
<1>1. (h - l) + 1 \in Nat /\ (h - l) + 1 >= 2 /\ (h - l) + 1 <= 2 * (h - l)
  OBVIOUS
<1>2. \A n \in Nat : n \div 2 \in Nat /\ n - 1 <= 2 * (n \div 2) /\ 2 * (n \div 2) <= n
  OBVIOUS
<1>. DEFINE q == ((h - l) + 1) \div 2
<1>3. q \in Nat /\ (h - l) + 1 - 1 <= 2 * q /\ 2 * q <= (h - l) + 1
  BY <1>1, <1>2
<1>4. mid(l, h) = l + q
  BY DEF mid
<1>. HIDE DEF q
<1>5. 0 < q /\ q <= h - l
  BY <1>1, <1>3
<1>. QED
  BY <1>4, <1>3, <1>5

\* The table, as the steps use it.
LEMMA CapBounded == \A v \in Versions : Cap[v] \in Nat /\ Cap[v] <= HIGH
  BY QrAssumption DEF Versions

LEMMA QrInitIInv == QrInit => QrIInv
<1>. SUFFICES ASSUME QrInit PROVE QrIInv
  OBVIOUS
<1>1. MAX_VERSION \in Nat \ {0} /\ HIGH \in Nat
  BY QrAssumption
<1>2. asked.version \in 0 .. MAX_VERSION + 1
  BY DEF QrInit, Asked
<1>3. QrTypeOK
  <2>1. version \in 0 .. MAX_VERSION + 1 /\ (asked.op = "smallest_version_for" => version \in Versions)
    BY <1>1, <1>2 DEF QrInit, FirstVersion, Versions
  <2>2. low \in 0 .. HIGH /\ high \in 0 .. HIGH
    BY <1>1 DEF QrInit
  <2>. QED
    BY <2>1, <2>2 DEF QrInit, QrTypeOK
<1>4. SearchBrackets
  BY CapBounded DEF QrInit, SearchBrackets
<1>5. VersionAsked
  BY <1>1 DEF QrInit, VersionAsked, FirstVersion
<1>6. Answered
  BY DEF QrInit, Answered
<1>. QED
  BY <1>3, <1>4, <1>5, <1>6 DEF QrIInv

\* A turn of the loop keeps the capacity between the bounds.
LEMMA NarrowIInv ==
    ASSUME QrIInv, Narrow
    PROVE  QrIInv'
<1>1. MAX_VERSION \in Nat \ {0} /\ HIGH \in Nat
  BY QrAssumption
<1>2. low \in Nat /\ high \in Nat /\ low < high /\ high <= HIGH
  BY <1>1 DEF QrIInv, QrTypeOK, Narrow
<1>. DEFINE m == mid(low, high)
<1>3. m \in Nat /\ low < m /\ m <= high
  BY <1>2, MidBetween
<1>4. version \in Versions /\ Cap[version] \in Nat /\ low <= Cap[version] /\ Cap[version] <= high
  BY CapBounded DEF QrIInv, SearchBrackets, Narrow
<1>. HIDE DEF m
<1>5. \/ m <= Cap[version] /\ low' = m /\ high' = high
      \/ m > Cap[version] /\ low' = low /\ high' = m - 1
  BY <1>3, <1>4 DEF Narrow, fits, m
<1>6. asked' = asked /\ version' = version /\ ended' = ended /\ answer' = answer /\ ~ended
  BY DEF Narrow
<1>7. QrTypeOK'
  BY <1>1, <1>2, <1>3, <1>5, <1>6 DEF QrIInv, QrTypeOK
<1>8. SearchBrackets'
  BY <1>3, <1>4, <1>5, <1>6 DEF SearchBrackets
<1>9. VersionAsked'
  BY <1>6 DEF QrIInv, VersionAsked
<1>10. Answered'
  BY <1>6 DEF QrIInv, Answered
<1>. QED
  BY <1>7, <1>8, <1>9, <1>10 DEF QrIInv

\* When the bounds have met, the next version is tried or the answer given.
LEMMA MeasuredIInv ==
    ASSUME QrIInv, Measured
    PROVE  QrIInv'
<1>1. MAX_VERSION \in Nat \ {0} /\ HIGH \in Nat
  BY QrAssumption
<1>2. /\ version \in Versions /\ version \in 1 .. MAX_VERSION
      /\ low \in Nat /\ high \in Nat /\ low >= high
      /\ Cap[version] \in Nat /\ low <= Cap[version] /\ Cap[version] <= high
  BY <1>1, CapBounded DEF QrIInv, QrTypeOK, SearchBrackets, Measured, Versions
<1>3. low = Cap[version]
  BY <1>2
<1>4. CASE TryNext /\ asked.op = "smallest_version_for" /\ low < asked.len /\ version < MAX_VERSION
  <2>1. version' = version + 1 /\ version' \in Versions
    BY <1>1, <1>2, <1>4 DEF TryNext, Versions
  <2>2. QrTypeOK'
    BY <1>1, <1>4, <2>1 DEF QrIInv, QrTypeOK, TryNext, Versions
  <2>3. SearchBrackets'
    BY <1>4, <2>1, CapBounded DEF SearchBrackets, TryNext
  <2>4. \A w \in 1 .. version : Cap[w] < asked.len
    <3>1. \A w \in 1 .. version - 1 : Cap[w] < asked.len
      BY <1>4 DEF QrIInv, VersionAsked
    <3>. QED
      BY <1>2, <1>3, <1>4, <3>1
  <2>5. VersionAsked'
    BY <1>2, <1>4, <2>1, <2>4 DEF VersionAsked, TryNext
  <2>6. Answered'
    BY <1>4 DEF QrIInv, Answered, TryNext, Measured
  <2>. QED
    BY <2>2, <2>3, <2>5, <2>6 DEF QrIInv
<1>5. CASE Finish /\ ~(asked.op = "smallest_version_for" /\ low < asked.len /\ version < MAX_VERSION)
  <2>1. QrTypeOK' /\ SearchBrackets' /\ VersionAsked'
    BY <1>5 DEF QrIInv, QrTypeOK, SearchBrackets, VersionAsked, Finish
  <2>2. asked.op = "smallest_version_for" /\ low < asked.len => version = MAX_VERSION
    BY <1>1, <1>2, <1>5
  <2>3. Answered'
    BY <1>2, <1>5, <2>2 DEF Answered, Finish
  <2>. QED
    BY <2>1, <2>3 DEF QrIInv
<1>. QED
  BY <1>4, <1>5 DEF Measured

LEMMA QrNextIInv == QrIInv /\ [QrNext]_qrVars => QrIInv'
<1>. SUFFICES ASSUME QrIInv, [QrNext]_qrVars PROVE QrIInv'
  OBVIOUS
<1>1. CASE Invalid
  <2>1. QrTypeOK' /\ SearchBrackets' /\ VersionAsked'
    BY <1>1 DEF Invalid, QrIInv, QrTypeOK, SearchBrackets, VersionAsked
  <2>2. Answered'
    BY <1>1 DEF Invalid, QrIInv, Answered
  <2>. QED
    BY <2>1, <2>2 DEF QrIInv
<1>2. CASE Narrow
  BY <1>2, NarrowIInv
<1>3. CASE Measured
  BY <1>3, MeasuredIInv
<1>4. CASE UNCHANGED qrVars
  BY <1>4 DEF qrVars, QrIInv, QrTypeOK, SearchBrackets, VersionAsked, Answered
<1>. QED
  BY <1>1, <1>2, <1>3, <1>4 DEF QrNext

\* What follows from an answer that was given when the bounds had met.
LEMMA IInvAnswers == QrIInv => AnswerFits
<1>. SUFFICES ASSUME QrIInv, ended, version \in Versions PROVE AnswerFits
  BY DEF QrIInv, Answered, AnswerFits
<1>1. MAX_VERSION \in Nat \ {0} /\ HIGH \in Nat /\ FRAME_OVERHEAD \in Nat
  BY QrAssumption
<1>2. low = Cap[version] /\ Cap[version] \in 0 .. HIGH /\ answer = Answer(asked, version, Cap[version])
  <2>1. low >= high /\ answer = Answer(asked, version, low)
    BY DEF QrIInv, Answered
  <2>2. /\ low \in Nat /\ high \in Nat /\ Cap[version] \in Nat /\ Cap[version] <= HIGH
        /\ low <= Cap[version] /\ Cap[version] <= high
    BY <1>1, CapBounded DEF QrIInv, QrTypeOK, SearchBrackets
  <2>. QED
    BY <1>1, <2>1, <2>2
<1>3. asked.len \in Nat /\ version \in 1 .. MAX_VERSION
  BY <1>1 DEF QrIInv, QrTypeOK, Asked, Versions
<1>4. CASE asked.op = "capacity"
  BY <1>2, <1>4 DEF QrIInv, VersionAsked, AnswerFits, Answer
<1>5. CASE asked.op = "max_symbol_size"
  <2>1. version = asked.version
    BY <1>5 DEF QrIInv, VersionAsked
  <2>. DEFINE c == Cap[version]
  <2>2. c \in 0 .. HIGH
    BY <1>2
  <2>. HIDE DEF c
  <2>3. {n \in 1 .. HIGH : FRAME_OVERHEAD + n <= c /\ ~(FRAME_OVERHEAD + n + 1 <= c)}
          = max_symbol_size(c)
    <3>1. CASE c <= FRAME_OVERHEAD
      <4>1. \A n \in 1 .. HIGH : ~(FRAME_OVERHEAD + n <= c)
        BY <1>1, <2>2, <3>1
      <4>. QED
        BY <3>1, <4>1 DEF max_symbol_size
    <3>2. CASE c > FRAME_OVERHEAD
      <4>1. c - FRAME_OVERHEAD \in 1 .. HIGH
        BY <1>1, <2>2, <3>2
      <4>2. \A n \in 1 .. HIGH :
              (FRAME_OVERHEAD + n <= c /\ ~(FRAME_OVERHEAD + n + 1 <= c)) <=> n = c - FRAME_OVERHEAD
        BY <1>1, <2>2, <3>2
      <4>3. max_symbol_size(c) = {c - FRAME_OVERHEAD}
        BY <1>1, <2>2, <3>2 DEF max_symbol_size
      <4>. QED
        BY <4>1, <4>2, <4>3
    <3>. QED
      BY <1>1, <2>2, <3>1, <3>2
  <2>4. answer = max_symbol_size(c)
    BY <1>2, <1>5 DEF Answer, c
  <2>. QED
    BY <1>5, <2>1, <2>3, <2>4 DEF AnswerFits, fits, c
<1>6. CASE asked.op = "encode_at"
  <2>1. version = asked.version
    BY <1>6 DEF QrIInv, VersionAsked
  <2>2. answer = IF Cap[version] < asked.len THEN {} ELSE {asked.len}
    BY <1>2, <1>6 DEF Answer
  <2>3. (answer # {}) = (asked.len <= Cap[version])
    BY <1>2, <1>3, <2>2
  <2>. QED
    BY <1>6, <2>1, <2>3 DEF AnswerFits, fits
<1>7. CASE asked.op = "smallest_version_for"
  <2>1. \A w \in 1 .. version - 1 : ~(asked.len <= Cap[w])
    <3>1. \A w \in 1 .. version - 1 : Cap[w] < asked.len
      BY <1>7 DEF QrIInv, VersionAsked
    <3>2. \A w \in 1 .. version - 1 : Cap[w] \in Nat
      BY <1>1, <1>3, CapBounded DEF Versions
    <3>. QED
      BY <1>3, <3>1, <3>2
  <2>2. answer = IF Cap[version] < asked.len THEN {} ELSE {version}
    BY <1>2, <1>7 DEF Answer
  <2>. DEFINE least == {v \in Versions : /\ asked.len <= Cap[v]
                                         /\ \A w \in 1 .. v - 1 : ~(asked.len <= Cap[w])}
  <2>3. CASE Cap[version] >= asked.len
    <3>1. version \in least
      BY <1>2, <1>3, <2>1, <2>3
    <3>2. ASSUME NEW v \in least PROVE v = version
      <4>1. v \in 1 .. MAX_VERSION /\ asked.len <= Cap[v]
        BY DEF Versions
      <4>2. CASE v < version
        BY <1>3, <2>1, <4>1, <4>2
      <4>3. CASE v > version
        <5>1. version \in 1 .. v - 1
          BY <1>3, <4>1, <4>3
        <5>. QED
          BY <1>2, <1>3, <2>3, <5>1
      <4>. QED
        BY <1>3, <4>1, <4>2, <4>3
    <3>3. least = {version}
      BY <3>1, <3>2
    <3>. HIDE DEF least
    <3>4. answer = least
      BY <1>2, <1>3, <2>2, <2>3, <3>3
    <3>. QED
      BY <1>7, <3>4 DEF AnswerFits, fits, least
  <2>4. CASE ~(Cap[version] >= asked.len)
    <3>1. version = MAX_VERSION
      BY <1>2, <1>3, <1>7, <2>4 DEF QrIInv, Answered
    <3>2. \A v \in Versions : ~(asked.len <= Cap[v])
      BY <1>1, <1>2, <1>3, <2>1, <2>4, <3>1 DEF Versions
    <3>3. least = {}
      BY <3>2
    <3>. HIDE DEF least
    <3>4. answer = least
      BY <1>2, <1>3, <2>2, <2>4, <3>3
    <3>. QED
      BY <1>7, <3>4 DEF AnswerFits, fits, least
  <2>. QED
    BY <2>3, <2>4
<1>. QED
  BY <1>4, <1>5, <1>6, <1>7 DEF QrIInv, QrTypeOK, Asked

\* The bounds of the search stay in range.
THEOREM QrTypeCorrect == QrSpec => []QrTypeOK
<1>1. QrIInv => QrTypeOK
  BY DEF QrIInv
<1>. QED
  BY QrInitIInv, QrNextIInv, <1>1, PTL DEF QrSpec

\* The capacity of the version being measured is never outside the bounds.
THEOREM SearchCorrect == QrSpec => []SearchBrackets
<1>1. QrIInv => SearchBrackets
  BY DEF QrIInv
<1>. QED
  BY QrInitIInv, QrNextIInv, <1>1, PTL DEF QrSpec

\* capacity, max_symbol_size, encode_at and smallest_version_for answer what the
\* encoder would have, for every table of capacities.
THEOREM AnswerCorrect == QrSpec => []AnswerFits
  BY QrInitIInv, QrNextIInv, IInvAnswers, PTL DEF QrSpec

\* What a search has left to do: the versions it may still try, the bounds of the
\* one it measures, and the answer.
SearchLeft ==
    IF ended THEN 0
    ELSE (MAX_VERSION + 1 - version) * (HIGH + 2) + (IF low < high THEN high - low ELSE 0) + 1

\* Every turn of the loop at least halves the distance of the bounds, and every
\* step of a search leaves less to do.
SearchAdvances ==
    [][/\ Narrow => 2 * (high' - low') <= high - low
       /\ SearchLeft' < SearchLeft]_qrVars

\* How often a search steps is bounded when it begins, and the measuring of a
\* version takes as many turns as its bounds can be halved: rounding up, the
\* midpoint leaves neither bound where two values are left (capacity,
\* smallest_version_for).
THEOREM SearchShrinks == QrSpec => [](SearchLeft \in Nat) /\ SearchAdvances
<1>. DEFINE Span(l, h) == IF l < h THEN h - l ELSE 0
<1>0. MAX_VERSION \in Nat \ {0} /\ HIGH \in Nat
  BY QrAssumption
<1>1. QrIInv => /\ version \in 0 .. MAX_VERSION + 1 /\ low \in Nat /\ high \in Nat
                /\ ended \in BOOLEAN /\ high <= HIGH
  BY <1>0 DEF QrIInv, QrTypeOK
<1>2. \A v \in 0 .. MAX_VERSION + 1 :
          /\ (MAX_VERSION + 1 - v) * (HIGH + 2) \in Nat
          /\ v + 1 \in 0 .. MAX_VERSION + 1 =>
                 (MAX_VERSION + 1 - (v + 1)) * (HIGH + 2) + (HIGH + 2)
                    = (MAX_VERSION + 1 - v) * (HIGH + 2)
  <2>. SUFFICES ASSUME NEW v \in 0 .. MAX_VERSION + 1
                PROVE  /\ (MAX_VERSION + 1 - v) * (HIGH + 2) \in Nat
                       /\ v + 1 \in 0 .. MAX_VERSION + 1 =>
                            (MAX_VERSION + 1 - (v + 1)) * (HIGH + 2) + (HIGH + 2)
                               = (MAX_VERSION + 1 - v) * (HIGH + 2)
    OBVIOUS
  <2>. DEFINE k == MAX_VERSION + 1 - v
              c == HIGH + 2
  <2>1. k \in Nat /\ c \in Nat
    BY <1>0
  <2>2. MAX_VERSION + 1 - (v + 1) = k - 1
    BY <1>0
  <2>. HIDE DEF k, c
  <2>3. k * c \in Nat /\ (k - 1) * c + c = k * c
    BY <2>1
  <2>. QED
    BY <2>2, <2>3 DEF k, c
<1>3. QrIInv => SearchLeft \in Nat
  <2>. SUFFICES ASSUME QrIInv PROVE SearchLeft \in Nat
    OBVIOUS
  <2>. DEFINE t == (MAX_VERSION + 1 - version) * (HIGH + 2)
  <2>1. t \in Nat /\ SearchLeft = IF ended THEN 0 ELSE t + Span(low, high) + 1
    BY <1>1, <1>2 DEF SearchLeft
  <2>. HIDE DEF t
  <2>. QED
    BY <1>1, <2>1
<1>4. QrIInv /\ QrIInv' /\ [QrNext]_qrVars =>
          [/\ Narrow => 2 * (high' - low') <= high - low
           /\ SearchLeft' < SearchLeft]_qrVars
  <2>. SUFFICES ASSUME QrIInv, QrIInv', QrNext
                PROVE  /\ Narrow => 2 * (high' - low') <= high - low
                       /\ SearchLeft' < SearchLeft
    OBVIOUS
  <2>. DEFINE t == (MAX_VERSION + 1 - version) * (HIGH + 2)
  <2>1. t \in Nat /\ SearchLeft = IF ended THEN 0 ELSE t + Span(low, high) + 1
    BY <1>1, <1>2 DEF SearchLeft
  <2>2. SearchLeft' = IF ended' THEN 0
                      ELSE (MAX_VERSION + 1 - version') * (HIGH + 2) + Span(low', high') + 1
    BY DEF SearchLeft
  <2>3. low \in Nat /\ high \in Nat
    BY <1>1
  <2>4. CASE Narrow
    <3>. DEFINE m == mid(low, high)
    <3>1. /\ ~ended /\ ended' = ended /\ version' = version /\ low < high
          /\ \/ low' = m /\ high' = high
             \/ low' = low /\ high' = m - 1
      BY <2>4 DEF Narrow
    <3>2. m \in Nat /\ low < m /\ m <= high
      BY <2>3, <3>1, MidBetween
    <3>3. high - low <= 2 * (m - low) /\ 2 * (m - low) <= high - low + 1
      <4>1. m = low + ((high - low) + 1) \div 2
        BY DEF mid
      <4>. HIDE DEF m
      <4>2. \A n \in Nat : n \div 2 \in Nat /\ n - 1 <= 2 * (n \div 2) /\ 2 * (n \div 2) <= n
        OBVIOUS
      <4>3. (high - low) + 1 \in Nat
        BY <2>3, <3>1
      <4>. DEFINE q == ((high - low) + 1) \div 2
      <4>4. q \in Nat /\ ((high - low) + 1) - 1 <= 2 * q /\ 2 * q <= (high - low) + 1
        BY <4>2, <4>3
      <4>5. m - low = q
        BY <2>3, <4>1, <4>4
      <4>. HIDE DEF q
      <4>. QED
        BY <2>3, <4>4, <4>5
    <3>. HIDE DEF m, t
    <3>4. 2 * (high' - low') <= high - low
      BY <2>3, <3>1, <3>2, <3>3
    <3>5. Span(low', high') < Span(low, high)
      BY <2>3, <3>1, <3>2
    <3>6. SearchLeft' = t + Span(low', high') + 1
      BY <2>2, <3>1 DEF t
    <3>7. Span(low', high') \in Nat /\ Span(low, high) \in Nat
      BY <2>3, <3>1, <3>2
    <3>. HIDE DEF Span
    <3>8. SearchLeft = t + Span(low, high) + 1
      BY <2>1, <3>1
    <3>. QED
      BY <2>1, <3>4, <3>5, <3>6, <3>7, <3>8
  <2>5. CASE ended' = TRUE /\ ~ended
    <3>1. SearchLeft' = 0 /\ ~Narrow
      BY <2>2, <2>5 DEF Narrow
    <3>2. SearchLeft = t + Span(low, high) + 1
      BY <2>1, <2>5
    <3>. HIDE DEF t
    <3>. QED
      BY <2>1, <2>3, <3>1, <3>2
  <2>6. CASE Measured /\ TryNext
    <3>1. /\ ~ended /\ ended' = ended /\ version' = version + 1 /\ low' = 0 /\ high' = HIGH
          /\ low >= high
      BY <2>6 DEF Measured, TryNext
    <3>2. version \in 0 .. MAX_VERSION + 1 /\ version + 1 \in 0 .. MAX_VERSION + 1
      BY <1>1, <3>1 DEF QrIInv, QrTypeOK
    <3>. DEFINE u == (MAX_VERSION + 1 - (version + 1)) * (HIGH + 2)
    <3>3. u \in Nat /\ u + (HIGH + 2) = t
      BY <1>2, <3>2
    <3>4. SearchLeft' = u + Span(0, HIGH) + 1
      BY <2>2, <3>1
    <3>5. Span(0, HIGH) \in Nat /\ Span(0, HIGH) <= HIGH
      BY <1>0
    <3>. HIDE DEF t, u
    <3>6. SearchLeft = t + 0 + 1
      BY <2>1, <2>3, <3>1
    <3>7. ~Narrow
      BY <2>3, <3>1 DEF Narrow
    <3>. HIDE DEF Span
    <3>. QED
      BY <1>0, <2>1, <3>3, <3>4, <3>5, <3>6, <3>7
  <2>. QED
    BY <2>4, <2>5, <2>6 DEF QrNext, Invalid, Measured, Finish
<1>. QED
  BY <1>3, <1>4, QrInitIInv, QrNextIInv, PTL DEF QrSpec, SearchAdvances
=============================================================================
