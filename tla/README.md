# Verification of Dhow

Dhow carries a dataset across an air gap as a stream of optical frames. `dhow
send` packs the dataset, signs an inventory of it, splits the archive into
blocks, protects every block with RaptorQ and writes one frame per symbol.
`dhow recv` takes the frames it manages to see, in any order and over as many
runs as it needs, and rebuilds the archive. There is no return channel, so
everything that goes wrong has to be absorbed by the receiver.

This directory holds TLA+ modules that model the parts of Dhow whose
correctness depends on order, interruption and arithmetic, TLC configurations
that check them on small instances, and TLAPS proofs of the results that hold
for every instance. Line numbers below are those of the repository.

## 1. Inventory

| Component | Code | State | Operations | Hard behaviours |
|---|---|---|---|---|
| Session parameters, chunker | `core/dhow-codec/src/session.rs`, `chunker.rs` | none (pure) | validate, compute the block layout, locate a symbol, reassemble | divisions of a 64-bit length into 32-bit counts, a remainder spread over the blocks, zero-length blocks, short last symbols |
| Pipeline encoder | `pipeline.rs` (`Pipeline`, `interleave`) | the frames, in emission order | encode | every symbol exactly once, blocks interleaved so that an outage costs every block a little |
| Pipeline decoder | `pipeline.rs` (`PipelineDecoder`) | bitmaps and counts per block, pending packets, decoded blocks, rolling digest | accept, is_complete, finish, resume_state, verify_resume | any order, duplicates, foreign frames, frames for decoded blocks, indices past the bitmap |
| Frame format | `frame.rs` | none | to_bytes, from_bytes | MAC over header fields only, CRC over the payload |
| Resume file | `resume.rs` | none | to_bytes, from_bytes | count against bitmap, padding bits, trailing bytes, digest |
| Resume store | `cli/internal/resume/resume.go` | journal, index, written length | Open, Replay, Begin, Append, Save, Close, Discard | crash between any two file operations, short writes, unsynced data |
| recv command | `cli/internal/cli/cli.go` (`runRecv` and what it calls) | frames accepted, the store, the decoder | restore, apply, save, finish, extract, reconcile, discard | several runs over one directory, an error on any path, publication of the output |
| Capture reader | `cli/internal/capture/reader.go` | a channel of one image, the production, buckets, positions taken | Run, consume | two goroutines, a channel that drops the oldest, cancellation, a handler error |
| Image sources | `cli/internal/capture/source.go`, `pnm.go` | the position in a directory or stream | Next | blocking reads |
| send command | `cli.go` (`runSend`, `planSession`, `renderFrame`) | the output directory | plan, encode, write and render frames, write manifest | stale frames, an interrupted send, a frame that cannot be rendered |
| Display loop | `cli.go` (`runDisplay`), `cli/internal/display` | the frames read, which one is shown, passes made | check, read, Run | a send replacing the files meanwhile, an endless loop, cancellation |
| Manifest, verify | `manifest.rs` of `dhow-codec` and `dhow-crypt`, `cli.go` | none | build, parse, sign, verify, reconcile, inspect | what the CRC and the signature cover, the order of the checks, sums that wrap, files that change while they are verified |
| Archive | `cli/internal/pack/pack.go` | none | create, extract | files that change between the walk and the read, names that leave the directory |
| FFI handles | `core/dhow-ffi`, `cli/internal/ffi` | the live handles, a description of the last failure per thread | every `dhow_*` entry point | goroutines that move between threads, panics, null pointers, parameters given twice |
| Keys | `core/dhow-crypt/src/key.rs`, `cli.go` (`runKeygen`) | key files and their modes | draw, save, load | runs that overlap or are killed, modes set late, rotten files |
| AEAD, key derivation | `core/dhow-crypt/src/aead.rs` | none | derive, encrypt, decrypt | what is bound to what |
| QR capacity | `core/dhow-codec/src/qr.rs` | none | capacity, max_symbol_size, smallest_version_for, encode_at | a search that must be right to the byte and end |
| Session state machine | `session_state.rs` | a state, counters and a reason | transitions, records | used by no command |
| Fountain code wrapper | `fec.rs` | none | packets, repair for a rate, decode | used by no command; not modelled |
| Optics, QR decoding | `cli/internal/optical`, `cli/internal/qr` | none | | numerical and table-driven code |

How they interact: `runRecv` owns everything on the receiving side. A source
(or, for a camera, `capture.Reader`, which runs a producer goroutine of its
own) calls `frameSink.apply` for each frame; apply calls the decoder through
the FFI, then appends the accepted frame to the journal, and every
`-save-every` frames saves the index. The next run reads the index, replays
the journal into a new decoder and compares the result with the index. Sender
and receiver share nothing but the signed manifest, the key and the frames.

What makes the parts correct:

* decoder: what it holds is a function of the stream it accepted (that is what
  makes a journal enough to restore it), and what it writes is a record its own
  parser takes back;
* store and recv: saved progress is never lost, never refused and never
  mistaken for other progress, whatever kills, failed writes and power losses
  happened; only verified bytes are published; a transfer that is run again
  completes;
* capture: no image is lost or counted twice, the newest is preferred, a frame
  that did not authenticate hides nothing, the run returns;
* chunker and encoder: the blocks tile the payload, every symbol is emitted once
  and fits the receiver's bitmap, an outage is spread over the blocks, and what
  was taken apart is what is put together;
* formats: what one side writes the other takes, and one change on the way is
  noticed or makes no difference;
* manifest: what is acted on is what the owner of the identity signed, in every
  field, and the limits are judged on nothing else;
* archive and verify: what was packed is what is extracted, however the files
  changed meanwhile, and `verify` names exactly the files that differ;
* frame directory: a manifest that verifies comes with its frames, and a display
  shows all of them, again and again;
* handles: an error is the caller's own, and a payload handed out is the one that
  was encrypted under exactly the key, session, salt and nonce given;
* keys: a secret that is loaded was drawn, whole and of its kind.

`PROJECT.json` lists every component with its status, and every hazard with the
line where it bites and the properties that would catch it.

## 2. Modules

| Module | Models | Extends |
|---|---|---|
| `Decoder` | `PipelineDecoder`, with the frame checks and the resume record | |
| `Receiver` | `recv -state` over several runs: decoder, store, disk, output directory | `Decoder` |
| `ResumableTransfer` | the abstract specification of a receiver that may go down and comes back with what it saved | |
| `ReceiverRefinement` | the refinement mapping from `Receiver` to `ResumableTransfer` | `Receiver` |
| `Capture` | `capture.Reader`, buffered and direct | |
| `Encoder` | the plan of a session, the chunker's layout and `Pipeline` | |
| `Chunks` | the chunker from a payload to its symbols and back | |
| `Wire` | frames, session headers and resume files, written, changed and read | `Checks` |
| `Checks` | a sequence of checks with an early return, which every parser and entry point is | |
| `ManifestFormat` | the manifest's fields, parser, signature and policy | `Checks` |
| `Manifest` | a manifest from the signer to the verifier, through a channel that rewrites it | `ManifestFormat` |
| `Archive` | packing, extraction, reconciliation and `verify`, while files change | `ManifestFormat` |
| `Abi` | every `dhow_*` entry point as a function of its arguments | `ManifestFormat` |
| `Handles` | goroutines that call the entry points on shared threads | `Abi` |
| `FrameDir` | `send` filling a directory of frames, `display` showing it | |
| `Keys` | `keygen` and the loading of key files, system call by system call | `Checks` |
| `Qr` | the capacity search and what is built on it | |
| `SessionState` | the state machine of a transfer | |
| `DecoderProofs`, `ManifestFormatProofs`, `ManifestProofs`, `HandlesProofs` | theorems, and the lemmas they rest on | the module they are named after |
| `EncoderProofs` | theorems about `Encoder` and `Chunks` | `Encoder`, `Chunks` |
| `ReceiverProofs` | theorems about `Receiver`, its refinement and what follows from it | `ReceiverRefinement`, `DecoderProofs` |
| `LoopProofs` | theorems about three parts of `MCLoops` | `Capture`, `FrameDir`, `Qr` |
| `FormatsProofs` | theorems about four parts of `MCFormats` | `SessionState`, `Keys`, `Archive`, `Wire`, `ManifestFormatProofs` |
| `MCDecoder`, `MCReceiver`, `MCCapture`, ... | the values TLC gives the constants | the module they are named after |
| `MCFormats`, `MCLoops` | several components in one run (below) | the components |

Definitions named after a definition with a suffix (`mark_held_recounts`,
`SaveSync_skipped`) and commented "Fault:" are not part of a specification.
They are deliberate errors, substituted for the definition they are named after
to confirm that the property beside them notices.

### Decoder

A frame is a record of what `accept` looks at. `intact` is the outcome of
`Frame::from_bytes`; `sound` says whether the symbol's bytes are the payload's.
They are separate because the MAC does not cover the payload: an accepted symbol
may have wrong bytes, and only the digest in `finish` notices. The rolling BLAKE3
digest over accepted frames is the sequence itself, i.e. collisions are excluded.
RaptorQ is a library; the model states what the code relies on: it ignores a
symbol it has, it returns a block when the symbols it has are `Solvable`, and
more symbols never make a solvable set unsolvable.

| Code | Module |
|---|---|
| `held`, `held_counts` | `held` (a set of indices per block), `held_counts` |
| `BlockState::Pending(decoder)` / `Done(bytes)` | `packets` / `data` |
| `journal` (rolling digest) | `journal` |
| `accept` returning Ok / an error | `Accept` / `Reject` |
| `mark_held`, `is_complete`, `finish`, `resume_state`, `verify_resume` | the same names |
| `ResumeFile::from_bytes`, `BlockEntry::from_bytes` | `WellFormed` |

### Receiver

One step per file operation. `pc` is the position in `runRecv`: `replay` in
`restoreProgress`, `recv` in the receive loop, `append` between the decoder
taking a frame and the journal holding it, `sync`, `tmp` and `rename` inside
`Save`, then `finish`, `extract`, `publish`, `reconcile`, `discard` and
`discardIndex`. The manifest check and the key come before all of this and change
nothing it reads.

The disk is external and is modelled by what each operation guarantees. Every
file has its visible content (`jrn`, `idx`, `outDir`) and the set of contents a
power loss may leave (`jImgs`, `iImgs`, `oImgs`). An fsync of a file makes its
data durable and, as on a journalling file system, every directory operation
issued before it; data that was never synced may or may not be there, and a write
cut short leaves a torn record. A killed process leaves what is visible. Errors
that the code drops (those of the deferred `Close` and of the removal of a staging
directory) are a choice.

`Fault` is everything the environment does: failing reads and writes at each
place the code handles them, kills between any two steps, power losses, and
somebody changing the state directory between runs (a rotten record or bitmap,
a shortened journal, the journal of another capture, the index of another
session, a deleted directory).

### Capture

The producer's three non-blocking selects are three steps (`Offer`, `Evict`,
`Replace`), the consumer's receive and its handler are two, so every interleaving
on the channel of one is explored. What detection and the pre-filter make of an
image is a property of the image (`kind`). `runDirect`, the unbuffered loop, is in
the same module; `buffer` chooses between them in the initial state.

### Encoder

A send from its flags to the frame stream, as a sequence of loops: `Plan`
(`planSession`, in Go), `New` (`dhow_encoder_new` and `Pipeline::new`, in Rust),
`LayoutBlock` (one turn of `compute_blocks`), `EncodeBlock` (one block of
`Pipeline::encode`) and `Interleave` (one cursor of one round of `interleave`). The
interest is that the plan and the layout compute the same numbers in two languages
and nothing compares them: the receiver's bitmaps are sized by the plan, and the
symbols are numbered by the layout.

The limits of the code (64 and 65531 bytes per symbol, 1024 blocks, 4 GiB, 500
percent, 2^32) are constants. `WidthAssumption` says that no plan for an accepted
payload outgrows 32 bits; with the real limits the most a plan can hold is
2^26 + 5 * 2^26 + 4. `SourcePackets` is RaptorQ's number of source packets, any
positive number; `LibraryAgrees` says that it is the chunker's, and only
`EmittedInBitmap` depends on it. `CutsAssumption` says that one byte more is the same
number of packets or one more, which is so of a library that cuts a block into symbols
of one size, whichever size it derives from the one it is given; only `OutageAbsorbed`
depends on it, because the chunker's blocks differ by at most one byte.

### ResumableTransfer

What `recv -state` promises with no files in it: a stream that grows while the
receiver is up, a saved stream it comes back with, one delivery, and nothing
forgotten before that. `ReceiverRefinement` maps `Receiver` to it: the receiver is up
once the replay was verified, its stream is the decoder's journal, what is safe is
what the index describes, and the dataset is delivered when the output directory
exists. Every file operation in between is a stutter, and only the rename of the
index is `Save`. What follows for whoever runs it is stated there too: saved progress
only grows until the dataset is out (`SavedOnlyGrows`), and what was delivered decoded
and stays (`DeliversOnce`). Power loss and tampering are outside it: after a power loss an older
index may be back (`receiver_power` covers what holds then).

### Wire, ManifestFormat, Manifest

Bytes are records of fields, and a check value is the tuple of what it covers, so
that nothing collides and what a check leaves out can change unnoticed. That is the
question these modules ask: the frame's MAC leaves out payload and CRC, the resume
file's digest its block entries, the manifest's CRC only itself. A parser is the
sequence of its checks in the code's order (`FirstError` of `Checks`). The channel
changes any field, with the sums that need no key recomputed or not; a signature can
be moved from one manifest to another but not made.

`Manifest` keeps the stage at which verification stopped, because the order matters:
limits may only be judged on signed bytes. Sizes are summed modulo `U64` where the
code wraps (`dhow_manifest_build`) and without wrapping where it checks
(`check_policy`).

### Archive

Files are edited between any two steps of packing, so that a file can be missing,
longer, shorter, a link, or executable by the time it is looked up or read. What is a
regular file is settled when the directory is listed (`pack.listed`), its size and mode
only when the walk gets to it (`Info`). A name has what the two validations look at, and
whether its bytes are UTF-8, which only the manifest asks (`Describable`). The archive is a
sequence of heads and bytes, and the reader finds the heads by the lengths it was
given: a wrong length shifts everything after it. The inventory is built from what
was packed. The received dataset may be damaged before and while it is verified;
`verify.quiet` says it was not during.

### Abi and Handles

`Abi` has one operator per entry point: the checks in order, what is returned and the
description left behind. `Handles` runs them: a goroutine calls on a thread, and reads
the thread's slot in a later step. The wrappers that return a status or a handle lock
the thread from one to the other (`Locks`), those that return a number do not. Keys,
ciphertexts and digests are terms, so that `FinishReturnsSent` says what the AEAD binds.
A `program` is what uses the API in one behaviour: one makes calls that fail, panic and
pass null on two threads, one moves two transfers through the handles, one builds and
verifies manifests. Calls of different programs touch different handles, and a call
that fails changes only the slot, so that the two that are about what handles hold do
without failures.

### FrameDir

`os.WriteFile` is two steps, truncate and fill. A send can be cut anywhere, fail to
render, go into a directory of an earlier and longer send, and overlap a display, which
checks the manifest, lists the files, reads them one by one and then loops. The list is
by name. `frame-%06d.bin` pads a number to six digits, so a million frames and more are
listed in another order than they were sent in: `Scale` and `NameBefore` compare the
names as strings, for any base (`Radix`) and padding (`PadTo`).

### Keys

Two runs overlap, with and without `-force`, and are killed or fail between any two
system calls; files rot; a load runs between any two of their steps. A secret file is
written in two chunks, because `write_all` may need more than one write and another run
may truncate in between, so a file can hold the end of one secret behind a hole or behind
the start of another. Only the checksum keeps such a file from being loaded.

### Qr, Chunks, SessionState

Sequential code, one step per turn of a loop or per call. `Qr` takes the encoder as a
table of capacities, `Chunks` lets a byte be its position in the payload. In `Chunks`
a symbol is taken out of a block and goes across (`ExtractSymbol`), and when all have,
`JoinBlock` is one turn of the loop of `reassemble`, its checks included.

### MCFormats and MCLoops

The components these modules put together share no variable. In a behaviour one of
them moves (`part`) and the others stay in an initial state, so what a run of the
composition reaches is what the runs of the components alone would reach, and an
invariant of a component holds of it exactly when it holds of the composition.
`MCLoops` repeats the fairness of each component's specification, for its own part;
`CaptureReturns`, `ChunksRebuilt` and `CapacityFound` are the components' `RunReturns`,
`EventuallyRebuilt` and `SearchEnds` for the behaviours in which that part moves.

## 3. Runs

| Run | Checks | Instance | Shows |
|---|---|---|---|
| `receiver_kill` | `RecvTypeOK`, `JournalMirrorsDecoder`, `ResumesOnlySavedStreams`, `NoSaveLost`, `StagingAccounted`, `NeverRefused` | three runs, two kills, a failing operation, a change by somebody else; index saved every second frame | saved progress is never lost, refused or mistaken |
| `receiver_power` | `ResumeConsistent`, `OnlyVerifiedPublished` | three runs, two power losses, a frame with wrong bytes, a limit of two frames per run | every pair of files the disk may keep can be restored; nothing unverified is published |
| `receiver_live` | `EventuallyDelivered`, `ImplementsTransfer` | three runs, two kills, a failing operation, no redundancy, index saved every frame | a transfer that is run again completes from saved progress and what was missing, and the receiver implements `ResumableTransfer` |
| `formats`: decoder | `StreamDeterminesDecoder`, `SavedStateParses` | three blocks, one empty; thirteen frames, one of every kind `accept` tells apart; streams of four | what the decoder holds depends on the accepted stream alone |
| `formats`: encoder | `BlocksTile`, `EmittedInBitmap`, `OverheadKept`, `EveryFrameOnce`, `OutageAbsorbed` | limits scaled to 2..4 bytes per symbol, five blocks, twelve bytes, 200 percent and 20 for 2^32; flags and payloads on both sides of each, a library that rounds symbol sizes to even numbers | plan, layout and stream agree, and an outage of `repair_count` frames per non-empty block is absorbed wherever it falls |
| `formats`: wire | `FrameGoesWhereSent`, `OneFaultNoticed` | bytes of two bits, sessions of 0 to 3 symbols, two changes | parsers take what is written, one change never passes for something else, a frame never goes where none was sent |
| `formats`: session state | `ReasonIffError` | two reasons, three frames recorded each way | no order of operations leaves a failure behind with its reason, or reaches one without |
| `formats`: archive | `SentIsReceived`, `VerifyNamesAll` | two files of up to two bytes, one edit between listing, walk and read (a file may vanish or become a link), one change after | what is sent is received and agrees with its inventory; `verify` names all that differs |
| `formats`: keys | `LoadedWasDrawn` | two runs, two secrets, every state of the files before them | nothing is loaded that is not one secret, whole |
| `loops`: capture | `ImagesConserved`, `NewestKept`, `OnlyTakenSkipped`, `CaptureReturns` | four images of six kinds, buffered and direct | the goroutines lose nothing and stop |
| `loops`: frame directory | `ManifestMeansFrames`, `DisplayShowsSend`, `EveryFrameShown` | a send of four frames and one of three in either order, names with one digit of base three, two passes or an endless loop, one damaged file | a manifest stands for its frames, and a display shows them all, in order while the names are of one length |
| `loops`: chunker | `ChunksRebuilt` | payloads up to 11 bytes, up to five blocks, symbols up to four bytes | nothing is refused on the way, and a payload is rebuilt to the byte |
| `loops`: QR | `AnswerFits`, `CapacityFound` | five versions: one holds nothing, one a frame without a symbol | answers are the encoder's, to the byte |
| `manifest` | `AcceptedWasSigned`, `InventoryAddsUp`, `PolicyOnlyOnSigned`, `HonestAccepted` | two identities and sessions, names of every refused kind, 8 for 2^64, three manifests or changes | what is accepted was signed as it is, adds up, and an honest sender is accepted |
| `handles` | `ErrorsAreOwn`, `FinishReturnsSent`, `ManifestHandleChecked` | two goroutines and threads; two keys, sessions, nonces and payloads; two sends, two blocks | errors, payloads and manifest handles are what they say |

`formats` and `loops` are one run each. Of the type invariants `RecvTypeOK`, which contains
the decoder's, is checked here; it and those of `Decoder`, `Encoder`, `Capture` and `Qr` are proved.

Why the bounds are enough. Streams of four in the decoder's part cover a duplicate, a
symbol of a decoded block, a symbol past the bitmap and an unsolvable pair
together. In the receiver three runs allow an interruption of a run that itself
resumed an interrupted one, which is where a journal tail, a torn record and an
index that lags behind it meet; with an index every second frame a run can be cut
on both sides of a save. Two kills or two power losses cover an interruption of
the recovery from an interruption. Four images are one more than the three places
an image can be in at once. The encoder's payloads give every remainder for up to
five blocks, blocks with no bytes, lists of two lengths, and plans that are cut to
"32" bits and must be refused. Two changes on the wire are a change and the sum made
right again, or a change in each of two fields that are compared. With 8 for 2^64 two
sizes the limits allow do not wrap and two they refuse do. Two threads and two
goroutines are enough for a description to be overwritten between a call and its
reading, and two of everything else to mix two transfers. A longer and a shorter send
leave files behind the shorter one; with base three and one digit the fourth name is
longer than the others and is listed before the third, as `frame-1000000.bin` is before
`frame-100001.bin`. A third overlapping `keygen` could only repeat what
two do to one file, which has two chunks.

### Runs that find a disagreement

| Run | Property | What the code does |
|---|---|---|
| `receiver_discard` | `IndexCoveredByJournal` | `Discard` removes the journal first, so a kill between the two removals leaves an index that covers a journal that is gone; `resume.go` says this is not expected. The next run in that directory is refused (exit 2). The dataset is out by then, so nothing is lost. |
| `receiver_exit` | `IndexRewrittenOnExit` | an error of the source returns before the final save; `docs/RESUME.md` says the index is rewritten once on exit. Frames since the last periodic save must be captured again. |
| `receiver_outdir` | `OutDirWholeOrAbsent` | extracted files are not synced before the rename, so a power loss can leave an incomplete output directory; the comment of `extractAtomically` says it is whole or absent. |
| `capture_accounted` | `AccountedOnReturn` | when the handler returns an error, `-stop-after` included, the image in hand is in no bucket; `Stats.Accounted` says every image is in exactly one. |
| `archive_names` | `NamesAgree` | `pack.ValidateName` looks for the colon of a drive at the second byte, `validate_name` at the second character: a name that begins with a wide character and a colon is packed, and the send fails at the manifest after every frame was written. So it does for a name that is not UTF-8, which `entries_from` refuses (`handle.rs:1393`). The run stops at one of the two. |

How far four of the five claims do hold is proved (section 4, "What is left of the
refuted claims").

Other disagreements met while modelling, which no run states:

* `dhow_qr_capacity` and the other entry points that return a number describe no
  failure of their own (`core/dhow-ffi/src/handle.rs:964`), although `error.rs:3` says
  every entry point does. `ErrorsAreOwn` is about the others.
* `write_owner_only` over an existing file writes the secret before it sets the mode
  (`core/dhow-crypt/src/key.rs:317`); line 309 says the file is never briefly readable.
* Two overlapping `keygen` runs without `-force` can destroy a key: the check at
  `cli.go:329` and the open that truncates are apart.
* `keygenIdentity` saves the secret first (`cli.go:388`), so a kill leaves a secret with
  no public half, which the comment at line 385 calls the worse of the two.
* `error()` leaves `Complete` (`session_state.rs:146`); `docs/phase-log.md:3192` says both
  terminal states are absorbing. A paused receiver can only go on as a sender
  (`session_state.rs:86`).
* A frame that cannot be rendered ends the send before the remaining frames and the
  manifest (`cli.go:652`); line 1713 says it leaves a valid frame stream behind.
* `display` verifies the manifest, not the frame files (`cli.go:1800`); line 1776 says a
  damaged directory is caught. A damaged frame is read and shown as it is, which is why
  `DisplayShowsSend` sets damage aside.
* Names of a million frames and more are not listed in the order of the frames
  (`cli.go:1798`, `cli.go:646`). A receiver takes frames in any order, so nothing but
  the order is lost.
* `repair_packets_for_loss_rate` takes a share of the source packets, not of the packets
  sent (`fec.rs:126` against 122).

### Fairness

`receiver_live` uses `LiveSpec`. The process is scheduled (`WF` of its steps). The
operator runs the command again after a failure, up to `MaxRuns` times, and the
faults are over by the last run: with no return channel nothing else can make a
transfer end. The sender loops its stream, so in the last run the stream does not
end before every frame that is not in the saved progress has been shown
(`StreamShown`), and a frame that is shown is eventually seen. It deliberately does
not assume that frames already saved are shown again: the run fails if progress
that was saved does not count.

In `loops` every part has the fairness of its own specification and no other. The
capture reader has weak fairness of the producer and of the consumer: goroutines are
scheduled, and the source eventually answers or ends. The code justifies no more:
`Next` looks at the context only before a blocking read, so a source that never
answers keeps a cancelled receiver waiting (listed as a hazard). The display has weak
fairness of its reading and of its ticker, and none for sends or for its operator.
The chunker and the capacity search are loops of one thread, which is scheduled.
`formats`, `manifest` and `handles` check safety only and assume no fairness.

## 4. Proofs

Proved by TLAPS for every value of the constants that satisfies the named
assumptions. The assumptions are next to the constants they are about, and TLC
evaluates them on the instances it checks. `ReceiverRefines` and the theorems that
follow from it have a hypothesis about behaviours as well, which is named below. All
invariants and action properties that passing runs check are proved.

### Decoder and encoder

`DecoderProofs`. `DecTypeOK`, `StreamDeterminesDecoder` and `SavedStateParses`,
for any layout, any set of frames and any fountain code that satisfies
`SolvableAssumption` (nothing decodes from no symbols; more symbols are never
worse). The properties are not inductive: that a block is decoded exactly when its
stream is solvable needs to know that a pending block's packets are the symbols of
its stream. `DecIInv` adds this (`PendingUnsolved`), that bitmaps are the stream's
symbols (`HeldIsStream`), that counts are cardinalities (`CountsBits`), and the
types. Monotonicity of `Solvable` is what keeps a decoded block in `DoneBy` as the
stream grows.

`EncoderProofs`. `EncTypeOK`, `BlocksTile`, `EmittedInBitmap`, `OverheadKept` and
`EveryFrameOnce` for all limits, flags and payload lengths, from `LimitsAssumption`,
`WidthAssumption` and `PacketsAssumption`. A few lemmas say what `div_ceil` is (least,
monotone, and one more than the quotient unless the remainder is zero). The inductive
invariant `EncIInv` carries the closed form of the layout (block `i` starts at
`i * small_size + min(i, remainder)`), from which tiling follows, and `Agreed`: what
`Pipeline::new` lets through is a plan nothing was cut from, because the chunker's
limit on the payload implies it. `SourceBounded` then bounds each block's symbols by
the plan's. For the round-robin walk `StreamIInv` says that a block's cursor is as far
as the walk has visited it, or at its end (`Walked`), and that the stream has exactly
the frames the cursors have passed, each once (`TakenOnce`). The walk stops after as
many rounds as its longest list has frames, so no cursor is short of its end.

`OutageAbsorbed` (`OutageSpread`) needs to know where in the stream a frame stands. The
blocks with bytes in them come first (`Live` of them) and, by `CutsAssumption`, the lists
are of one length except that those of the first blocks may be one longer. So every round
but the last visits all of them, and frame `s` of block `b` is at position
`s * Live + b + 1` (`Levelled`, an invariant of the walk). The frames of a block that an
outage of `repair_count * Live` positions takes are then `Live` apart, and there are at
most `repair_count` of them (`WindowBounded`, on cardinalities).

For `Chunks`, `PayloadRebuilt` says that nothing is refused and that what is put together
is the payload, for every length, number of blocks and symbol size. `ChunksIInv` says that
a block's collected bytes are the bytes of the payload from where the block starts, as far
as the cursor is, with padding only behind the block's size (`Gathered`), and that what is
rebuilt is the payload up to where the next block starts (`JoinedSoFar`). `ChunksShrink`
gives the number that every step lowers.

### Receiver

`ReceiverProofs`. All safety properties of `Receiver` for any frames, any number of
runs, kills, power losses, failing calls and changes to the state directory, on top of
`DecIInv`. `RecvIInv` has, besides types:

* that between runs there is no decoder, and which records a replay has read so far
  (`Fresh`, `Replaying`);
* that while frames are taken the journal is the decoder's stream, whatever tail earlier
  runs left (`JournalMirrorsDecoder`);
* what each step of a save has made of the files (`Saving`);
* that every journal the disk may keep after a power loss has what every index it may
  keep covers (`Durable`). This is what the flush of the journal before the rename is
  for, and `ResumeConsistent` follows from it;
* that the visible index is the last one saved (`LastIsIndex`), for `NoSaveLost`;
* when the output is there and what was known when it was made, and how many staging
  directories there are (`Output`, `Staging`): one in use, and one for each kill, power
  loss and failed extraction whose removal, an error nobody looks at, failed too.

`NeverRefused` and `OnlyVerifiedPublished` are action properties proved from it.
`ReceiverRefines` is the safety part of the refinement: under
`[](losses = 0 /\ tampers = 0)` every step of the receiver is a step of
`ResumableTransfer` or a stutter. The hypothesis is that of the run that checks it: the
abstract transfer comes back with what it saved last, which a disk that loses an
unsynced rename, or somebody who puts other files there, does not promise.
`FairReceiverRefines` states the same of `LiveSpec`.

Two things are read off the abstract transfer through it. `ProgressGrows`: what is saved
is only ever extended, over any number of runs however they end, until the dataset is out.
A receiver that is up holds at least what it saved (`HoldsSaved`, the invariant of the
abstract steps), so a later save cannot record less. `DeliveryStays`: the dataset is
delivered from a stream that decodes, and is not withdrawn.

### Manifests and handles

`ManifestFormatProofs` has the lemmas about parsers. `FirstErrorCases` says what
`FirstError` returns, and every parser's own lemma follows from it: what it accepts
satisfies all of its checks. Sums of entry sizes are a fold in an order nobody knows;
`SumsUnique`, `SumsExist` and `SumsMonotone` establish that there is one sum and that
parts of an inventory add up to no more than the whole. The library's induction is out
of reach, so they argue from a smallest subset for which they would fail (`SmallestSet`).

`ManifestProofs`. `AcceptedWasSigned`, `PolicyOnlyOnSigned`, `InventoryAddsUp` and
`HonestAccepted` for any identities, sessions, inventories and number of changes, from
`FormatAssumption` and `ManifestAssumption`. `ManifestIInv` adds that everything signed
is signed over its own bytes (`SignedOwn`), that the file carries a signature somebody
made (`WireBorrows`), that what was signed is an inventory the builder checked, and that
the verdict is about the file. `HonestAccepted` is where the partial sums matter: the
loop of `check_policy` never wraps when the total is within the limits.

`HandlesProofs`. `ErrorsAreOwn`, `FinishReturnsSent` and `ManifestHandleChecked` for any
number of goroutines and threads and any program, from `HandlesAssumption`. For errors
the invariant is that who has locked a thread is alone on it and its slot describes the
failure (`LockedHolds`); for the others, that a decoder holds only what was sent and a
manifest handle only what was signed (`HandlesSound`).

### Formats

`FormatsProofs`, one section per component.

* `SessionState`: `ReasonIffError` for every sequence of operations. The invariant says
  that a machine that has not failed has `NoReason`.
* `Keys`: `LoadedWasDrawn` for any number of runs, paths and secrets. Files can be any
  mixture of two runs' chunks, so nothing is said about first chunks; the invariant is
  that every second chunk, the checksum, is of a key that was drawn (`FilesSummed`) and
  that a run that writes has drawn its own (`RunsDrawn`). A file that decodes has a first
  chunk equal to its checksum.
* `Archive`: `SentIsReceived` and `VerifyNamesAll` for any files and contents, any number
  of changes while they are packed and after. The invariant names the places in the archive
  where entries begin (`Laid`): the receiver's offset is one of them (`OffsetLaid`), what
  it has staged is what was packed up to there (`StagedIsPacked`), and verify has named
  what differs in the entries it has passed and nothing else (`NamedSoFar`).
* `Wire`: `FrameGoesWhereSent` and `OneFaultNoticed` for every width of a byte of a bitmap,
  any numbers of symbols and all payloads. After any number of changes a frame carries the
  sender's MAC or none (`Shaped`), and a MAC determines where the frame goes and its
  length. For one change `WireIInv` needs only that before it nothing has changed: a
  number is under a check or a sum, which refuses it; a payload is compared with its CRC;
  a list of entries has the length the header says, and replay compares the entries.

### Loops

`LoopProofs`, one section per component.

* `Capture`: `ImagesConserved`, `NewestKept`, `OnlyTakenSkipped` and `CapTypeOK` for any
  number of images. `NewestKept` needs that only the producer fills the channel;
  `ImagesConserved` needs to know which places are occupied in which program positions
  (`Places`). The bounds on the counters in `CapTypeOK` follow from conservation and are
  not inductive by themselves.
* `FrameDir`: `ManifestMeansFrames` and `DisplayShowsSend` for any sends and displays, from
  `FrameDirAssumption`. The invariant says how many frame files of the running send are
  whole at each of its steps (`SendProgress`), what a display has read of the send whose
  manifest it verified (`DisplayProgress`), that files are listed by number while no name
  has outgrown its padding (`ByNumber`, from `Listed`), and that nothing in the directory is of a
  send that has not begun (`OfBegun`), so leftovers are never taken for the next send's.
* `Qr`: `QrTypeOK`, `SearchBrackets` and `AnswerFits` for every number of versions,
  every starting bound, frame overhead and table of capacities not above the bound, from
  `QrAssumption`. The invariant `QrIInv` adds that only `smallest_version_for` moves to
  another version and only past ones that are too small (`VersionAsked`), and that an
  answer is given when the bounds have met (`Answered`). `MidBetween` is where the
  rounding matters. `SearchShrinks` says that each turn of the loop at least halves the
  distance of the bounds, and gives the number that every step of a search lowers.

### What is left of the refuted claims

Five runs refute something the repository says of itself. Four of the claims hold in
part, and these theorems say where they do. Of the fifth, `OutDirWholeOrAbsent`, nothing
is left that is not by construction: only a power loss makes an output directory partial.

| Claim | Theorem | Holds |
|---|---|---|
| `IndexCoveredByJournal` | `CoveredUntilDelivered` | until the dataset is out, power losses included (from `Durable`) |
| `IndexRewrittenOnExit` | `ReturnsSaved` | at every return that no failing call forces: past its last save a run has its whole stream in the index (`EndingSaved`). A success may have discarded the index by then. |
| `AccountedOnReturn` | `AccountedWithoutError` | when the handler returned no error; otherwise exactly one image is missing. The producer closes and then reports, and the consumer waits for both (`EndOrder`), so nothing is with either when `Run` returns. |
| `NamesAgree` | `NamesAgreeButOdd` | for all names except those with the colon of a drive behind a character of several bytes and those that are not UTF-8: the two validations differ in nothing else (`NamesCompared`) |

### Only model-checked

The liveness properties (`EventuallyDelivered`, `CaptureReturns`, `EveryFrameShown`,
`CapacityFound`, and of `ChunksRebuilt` that the end is reached) need fairness and
`ENABLED`, which are outside the prover's reach. For the two sequential ones,
`CapacityFound` and `ChunksRebuilt`, what is left to TLC is only that a step is possible
until the end: that there cannot be infinitely many is proved (`SearchShrinks`,
`ChunksShrink`).

## 5. Not modelled

* Byte offsets inside frames, resume files, manifests and archives. A message is the
  record of its fields; which field is under which check is modelled, where it lies is
  not.
* RaptorQ, BLAKE3, CRC32C, AEAD, signatures and `qrcodegen`: libraries, modelled by
  contract. The library's own alignment of symbols and its splitting of large blocks
  are not visible in this repository.
* Optical detection and the Go QR decoder: floating-point image processing, GF(256)
  arithmetic and table-driven codes.
* `fec.rs`, which no command uses; the pipeline calls the library itself.
* A panic inside the library while a symbol is given to it. `accept` has then marked the
  symbol and extended the digest (`pipeline.rs:450`), and the handle stays usable.
* A frame shown twice to one run of `Receiver`: a directory of frames has each once, and a
  capture skips positions it took. Duplicates and their order are in `Decoder`.
* The display's calibration, pacing in time and drawing.
* Raw memory behind the handles (a use after free in C is outside the wrappers, which
  forget a pointer they freed), and version strings.
* Reporting, logging, flags, build scripts.
* Disks that lose data after a successful fsync, and hash collisions.

## 6. Plan

The components of section 1 that the plan chose are modelled, and every safety property
is checked and proved. What is left:

1. The liveness properties, which stay with TLC until the prover handles `ENABLED`.
2. The hazards without a property: a source that stalls inside a blocking read
   (`source.go:156`), a run repeated between delivery and discard (`cli.go:1180`), and a
   library whose symbols are smaller than the chunker's (`pipeline.rs:144`). The last one
   needs the library's source.
