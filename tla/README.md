# TLA+ models of JavaKotlinFlac

JavaKotlinFlac wraps libFLAC for the JVM: a C bridge (`src/native/src/jflac_jni.c`), Kotlin and Java
classes on top of it (`src/src/main/...`), a Java Sound provider (`src/jflac-java-sound/...`) and an example player.
The modules in this directory describe the parts whose correctness depends on the *order* of events: who
owns a native handle, who may be inside libFLAC, which exception wins, when an end of stream may be
believed, what a worker thread does with a command that arrives between two of its steps, what a failed or killed call
leaves behind in memory or on disk.
They are checked with TLC on small instances. Every safety property, action property and refinement that a
passing run checks is also proved with TLAPS, for every value of the constants (for the decode engine, of all but one: `FileReadErrors` is FALSE); only liveness is left to TLC alone (section 4).

Contents: [inventory](#1-inventory-of-the-system) · [modules](#2-the-modules-and-the-code) ·
[runs](#3-what-the-runs-check) · [proofs](#4-what-is-proved) · [findings](#5-findings) ·
[not modelled](#6-what-is-not-modelled) · [plan](#7-plan)

## 1. Inventory of the system

### Native side (`jflac_jni.c` and the platform files)

| component | state | operations | hard behaviour | what makes it correct |
|---|---|---|---|---|
| decoder session registry | linked list of `DecodeSession`, `g_next_decode_session_handle`, and per session `reference_count`, `in_use`, `released`; one mutex | register, acquire, release the operation reference, remove, `JNI_OnUnload` | close races the end of an operation; callbacks re-enter on the same thread; the counter wraps; unload with live sessions | no use after free, one destroyer, no leak, no re-entry into libFLAC, handles unique and never revived |
| decode engine | `DecodeContext` (window, counters, STREAMINFO, error flags, chained-link totals), the libFLAC decoder, the pending Java exception | one-shot decode of a file or of Java callbacks, `decodeDecoderFrom`, `decodeDecoderRange`, chained decode, pull read | libFLAC calls back in an order of its own; it resynchronises after errors and still returns TRUE; exceptions pend while native code goes on | samples in order, once, none invented; completion only after the last; no fault silent, the first exception wins |
| encoder registry, open, write, finish | a second registry; `EncodeContext` with the libFLAC encoder, the metadata blocks it built, a global reference to the Java output | open (stages), write, finish, release, `JNI_OnUnload` | any stage of an open fails; libFLAC keeps pointers to the blocks; output callbacks re-enter; finish removes its own handle | as for the decoder registry; everything taken is given back, the blocks after the encoder; finish is final |
| metadata reading and editing | per call: a libFLAC chain and iterator, a table of new blocks, the locals of the builders | read all, replace grouped or ordered blocks | every allocation, getter and libFLAC call may fail, some without an exception | nothing leaked or freed twice; success means the file has the requested blocks; a read gives back the physical order |
| libFLAC loading, platform layer | once-only API table and module reference | `init_flac_api`, `JNI_OnUnload`, file name conversion | a symbol is missing half way; the platform refuses to close the module | each loader reference has one holder; no pointer into a closed module |

### Kotlin and Java core (`src/src/main`)

| component | state | operations | hard behaviour | what makes it correct |
|---|---|---|---|---|
| `NativeHandleCleanup` | an atomic handle cell, a `Cleaner` registration | claim, restore, release helpers, the cleaning action | the release itself fails; an owner that becomes unreachable | a single owner at any time, released at most once, never lost while it could be retried |
| reusable decoding session | `state`, `closeRequested`, a lock | open, `decodeFrom`/`decodeRange`, close | decode runs outside the lock; close from another thread or a callback | the handle is not released under a decode; a recorded close is acted on |
| pull decoding session | monitor, `active` | read, close | the monitor is re-entrant, callbacks re-enter; close releases outside it | no foreign release, single ownership |
| encoding session | monitor, `state` (ACTIVE … FAILED) | write, finish, close, retried close | `finishEncoder` may or may not have consumed the handle when it throws | one native call at a time, failure is final, the handle is not lost |
| decoder and encoder entry points, consumers | none between calls | overloads, header inspection, validation, summaries | STREAMINFO is read by one decoder and the file decoded by another | – |
| native library loader | the extraction directory, shared by all JVMs of one build | load, hash, extract, move, verify | several JVMs extract the same bundle; one is killed half way | what is loaded is the bundle; another JVM is no reason to fail |
| JNI bindings, models, exceptions | none | argument forwarding, immutable data | – | – |

### Java Sound provider and example player

| component | state | operations | hard behaviour | what makes it correct |
|---|---|---|---|---|
| `FlacPcmInputStream`, file reader/writer, `PcmSampleReader`, `ReplayPrefixInputStream` | a PCM buffer over a pull session; mark/reset limits | read, skip, close; inspect; write | bytes already copied when the next decode fails; close by another thread; close after a failed write finalises a truncated file | PCM in order and without a gap, -1 only at the real end, a write that returns wrote everything |
| `JavaSoundPlaybackSession` | the fields under the monitor, the current segment, `cancellableSource`, a worker thread, a line | start, pause, seek, close | commands between any two steps of the worker; blocking providers; failing cleanup | ENDED only after everything played and was released; close always stops the worker |
| controller, console, TUI | selected track, a session | open, toggle, seek, stop | – | – |

Interactions. A Kotlin session holds one handle of a native registry in a `NativeHandleCleanup`; every native call
looks the handle up. Native code calls Java back (consumer, input channel, output stream) while the operation is
still on the C stack, and these callbacks may call the session again. The `Cleaner` thread is a third party that
releases what the application dropped. The Java Sound stream pulls PCM through a pull session; the player owns a
source (that stream, resampled by the JDK) and an output line, and closes the source from another thread to
unblock its worker.

The hazards this implies are listed, each at its line and with the properties that cover it, in `PROJECT.json`.

## 2. The modules and the code

`map` in `PROJECT.json` names the lines behind each definition.

| module | models | composition |
|---|---|---|
| `NativeLifetime` | abstract: the life of a native session (absent, live, closing, dead; busy or not) | refined by `DecodeRegistry` |
| `DecodeRegistry` | the registry of `jflac_jni.c` and the JNI calls through it | implements `NativeLifetime` |
| `HandleOwnership` | abstract: one token that is claimed, given back, released or leaked | refined by the three sessions |
| `HandleCleanup` | `NativeHandleCleanup.kt` and its Cleaner action | extended by the sessions |
| `DecodingSession` | `NativeFlacDecodingSession` | extends `HandleCleanup`, implements `HandleOwnership` |
| `DecodingSessionProofs` | proofs | extends `DecodingSession` |
| `LockedSession` | construction, the re-entrant monitor and the nested calls the next two share | extends `HandleCleanup` |
| `PullSession` | the pull decoding session | extends `LockedSession`, implements `HandleOwnership` |
| `EncodingSession` | the encoding session | extends `LockedSession`, implements `HandleOwnership` |
| `LockedSessionProofs` | proofs | extends both sessions |
| `DecodeContract` | abstract: what one decode operation promises | refined by the engine and by the pull reads |
| `DecodeEngine` | one-shot and session decodes, with libFLAC as its environment | implements `DecodeContract` |
| `DecodeEngineProofs` | proofs | extends `DecodeEngine` |
| `PullRead` | `readPullDecoderInterleaved` with its pending block | implements `DecodeContract` |
| `PcmStream` | `FlacPcmInputStream`, and `FlacAudioFileWriter` with `PcmSampleReader` as its client | extends `PullRead`, implements `DecodeContract` |
| `PcmStreamProofs` | proofs about `PullRead` and `PcmStream` | extends `PcmStream` |
| `EncodeRegistry` | encoder contexts: open in stages, write, finish, release, destruction, unload | extends `DecodeRegistry` and implements its `Spec` |
| `RegistryProofs` | proofs about both registries | extends `EncodeRegistry` |
| `MetadataBlocks` | each metadata block builder and converter of `jflac_jni.c` as a list of steps | used by `MetadataEdit` |
| `MetadataEdit` | `readMetadata`, `writeMetadata`, the Kotlin reader, editor and mapping | extends `MetadataBlocks` |
| `MCMetadataEdit` | the files, blocks and comments TLC tries | extends `MetadataEdit` |
| `MetadataEditProofs` | proofs | extends `MetadataEdit` |
| `NativeLoading` | `FlacNativeLoader`, `jflac_call_once`, `init_flac_api`, the module reference | – |
| `NativeLoadingProofs` | proofs | extends `NativeLoading` |
| `PlaybackSession` | `JavaSoundPlaybackSession` | – |
| `PlaybackSessionProofs` | proofs | extends `PlaybackSession` |

**DecodeRegistry.** Each section of C code under the registry mutex is one action, and so is each step outside it.
`registry`, `nextHandle`, `refCount`, `inUse`, `released` and `handleOf` are the C fields; `heap` says whether
the memory of a session is allocated. `stack[<<t, d>>]` is the stack of native calls of thread `t`: a frame *opening*,
*publishing* (a pull open that has registered its session and is still building its result), *using* (inside libFLAC)
or *destroying*. A thread whose top frame is *opening* or *using* may be in a Java callback, so it can enter
again; this is how re-entrancy is modelled. `known` is the set of handles Java has been given, stale ones included;
a call may use any of them at any time, and one that is not live changes nothing. The counter after the largest jlong is either
1 or non-positive (C signed overflow is undefined; the code's own test resets it when it is non-positive), hence the set in
`AfterIssuing`.

**HandleCleanup and the sessions.** `cell` is the atomic handle (non-zero or not), `duty[a]` that actor `a` has the
claimed handle on its stack, `native` what became of the owner behind it, `cleanable` the Cleaner registration. A
`synchronized` block is one action; the native call outside it is another one. *Drop* makes the session unreachable, which
is possible only when no thread is inside a method that keeps it reachable (`Reference.reachabilityFence`, a call
that is still using `this`). `LockedSession.calls[t]` is the stack of session calls of one thread, since the monitor is
re-entrant and a callback may call again under it.

**DecodeEngine.** `Begin` is the JNI entry up to the first libFLAC call (validation, opening, `prepare_decode_context`,
`configure_decode_range`); the actions named `After…` are the code after each libFLAC call, with its early returns in
order; `Finish` is the clean-up path. While `pc = "lib"` libFLAC is the environment: it delivers a block through the write callback, reports
an error and loses frames, drops a damaged frame, fills a gap with silence, aborts a read, comes to the end of a link or refuses. A source is a list of links; each has a declared and
a real length, a format and a signature that is right or not. Samples are abstracted to their index: `heard` keeps how
many frames the consumer got in order and whether one was out of place or invented. The exception is abstracted
to its origin (argument, decode, transport, user).

**PullRead.** `pending` is `pull_pending_samples` as a range of frame numbers. `Drain` is `drain_decode_pull_pending`, `WriteCallback` is
`decode_pull_write_callback`, `AfterProcess` the tests after `process_single`. `taken` is what Java holds.

**PcmStream.** `buffer` is the part of `byteBuffer` between `bytePosition` and `byteLimit`, as offsets into the decoded stream. A fill is a `BeginRead` of
`PullRead`, then its steps, then `EndFill`; the monitor of the pull session is free when `pc = "idle"`, so that `close()` on another thread falls between two fills but anywhere in the copying, which
no lock protects. The client is an application that reads any number of bytes (`InputStream.skip` makes requests that are no whole frames) and goes on after an exception, or `write()`, which sees the stream through the JDK's
`AudioInputStream` (external: it ends at the declared frame length without asking).

**EncodeRegistry.** The C code of the two registries is the same statement for statement, so the module reuses the actions of `DecodeRegistry` and adds what differs: `stage` and `owns` (how far an open has
come and which native objects are held for a context), `attached` (libFLAC's encoder points to the context's blocks), `duty` (where a write or finish is). `destroy_encode_context` is one
step per object, in the order of `DestroyOrder`; without a JNI environment during unload it leaves the global reference, as the code says it does.

**MetadataBlocks, MetadataEdit.** A builder is a sequence of steps, each with the pointer it takes, the ones it gives back, what it releases if it fails and whether it then leaves an exception pending; loops are steps that may repeat.
`ptr` and `slots` are the C pointers (null, live, freed; a block owned by the chain is no longer the table's), `fault` becomes true at a second free, a lost live pointer or a pop without a push. `chain` is the libFLAC chain in memory,
`file` the file. A block is its kind and a value; comments are functions from keys to values, which `ToNative` and `ToPublic` flatten and group as the Kotlin code does
(two keys stand for all; an entry may also lack its key). The typed arrays of a read, the order table and the grouping are written with positions: `Where` is a set of positions, `At` lists the elements there, and the one at place `n` is found by counting the
positions up to it. This says what the C and Kotlin loops compute without a recursion the provers could not follow.

**NativeLoading.** `store` is the shared directory, with the content of each library file (absent, bad, good); `mapped[p]` what JVM `p` got from `System.load`. `load()` is synchronized and precedes every entry point, so one thread of a JVM
is in this code and the interleavings are those of JVMs. A JVM may be killed at any step (`Kill`), a file changed from outside (`Damage`). `fs` tells three kinds of file system apart, see below. The Windows
platform file has the control flow of the POSIX one, to which the map points.

**PlaybackSession.** `mon` holds the fields under the monitor, `w` the worker (its place in `runPlayback` and its locals), `ui` the thread in
`close()`, `canceller` the cancellation thread, `line` the mixer line with its queued frames. A call of source or line is a step between two synchronized
blocks, and may fail as long as `faults < MaxFaults`; so may each stop, flush, start or drain of the line (`LineControlFails`), also the stop of a pause between the section that shows PAUSED and the wait (`StopForPause`).

## 3. What the runs check

Each property has a mutant in `PROJECT.json`: a plausible bug in the code that makes it fail. Every run but `native_loading` checks for deadlock: a model stops only in a state its own `Terminated`, `Finished`, `Idle`, `Failed`, `Written` or `Done` action recognises.
JVMs that have used up `MaxLoads` have really nothing more to do, so `native_loading` does not.

| run | module | shows |
|---|---|---|
| `registry` | DecodeRegistry | 25,866 states: two threads with calls nested three deep, three sessions on a counter of two handle values, which therefore wraps: exclusive use, memory safety, no leak, live handles name one session, the pull open's read after publication, stale handles, the refinement of `NativeLifetime`, and that a closed session is freed in the end |
| `encode_registry` | EncodeRegistry | 146,751 states: two contexts, two threads, nested output callbacks, any stage of an open failing: everything given back and in order, finish is final, the refinement of `DecodeRegistry`, closed contexts are freed |
| `metadata` | MCMetadataEdit | 269,821 states: five kinds of files, every grouped or ordered request of up to two blocks of seven types, comments with keys that have no value, every edit of a view, every native call failing: memory, truth of a success, order of a read |
| `native_loading` | NativeLoading | 576,335 states: two JVMs, one kill, one damage, failing calls: what is mapped is the bundle, a JVM fails only for reasons of its own, the module reference, each load ends |
| `decoding_session` | DecodingSession | 103 states: one decode or close against another thread's, the Cleaner, failing releases: no release during a decode, a recorded close is honoured, a dropped session is released, the refinement of `HandleOwnership` |
| `pull_session` | PullSession | 103 states: re-entrant reads and closes: only the owner of the handle releases it, and never under another thread's read; the refinement of `HandleOwnership` |
| `encoding_session` | EncodingSession | 108 states: re-entrant output callbacks, retried closes: one native call at a time, a damaged session stays failed; the refinement of `HandleOwnership` |
| `decode_engine` | DecodeEngine | 640,852 states: every request on every small source, with every fault: the contract, the first exception wins, no silent and no invented fault, each operation returns |
| `decode_file_errors` | DecodeEngine | *violation*, finding 1 |
| `pcm_stream` | PcmStream | 421,234 states: bytes, frames and blocks of different sizes, with failing decodes, transports and encoders and a close by another thread: PCM in order and without a gap, a real end, a write that returns is whole; the pull reads below implement `DecodeContract` |
| `playback` | PlaybackSession | 99,590 states: commands, worker, cancellation and device in every order with one fault: ENDED, cleanup, pending seeks, termination of close |
| `playback_lost_seek` | PlaybackSession | *violation*, finding 2 |

Some properties are proved for every value of the constants and are not part of a run: the inductive invariants of all modules, `SoleDestroyer`, `UnloadFreesEverything`,
`FallbackKept`, `DecodingState`, `ShortReadMeansEnd` (section 4).

### Bounds

* `DecodeRegistry`: `MaxDepth` is the number of nested native calls of one thread (3: an operation, a call from its callback, a call from that one's callback). There are fewer handle values than sessions, so the counter
  wraps and handles are reissued. `StaleHandlesStayStale` and `PublishingSafe` say what holds until more sessions were opened than there are handles, which a 63-bit counter does not reach; everything else survives it. Two threads
  suffice for each race of the code, which is between a session's operation and one closer; a third session lets a stale handle, a live one and one being opened coexist.
* `EncodeRegistry`: two contexts and nesting 2 (an operation and a call from its output callback). `RegisterContext` assumes that the 63-bit counter does not go round: `finishEncoder` ignores what its remove found, and on a
  wrapped counter could remove a context that is not its own. The life of handles on a wrapped counter is `DecodeRegistry`'s.
* `MetadataEdit`: requests of `MaxBlocks = 2` blocks, since a block, its predecessor and its successor in the table are all that a failure tells apart, and `MaxEdits = 1` edit after any number of reads: nothing survives a call but the file.
* `NativeLoading`: two JVMs and three calls of `load()`, so that one of them can be repeated after a failure or a kill; one kill and one damage. Two libraries, as in each platform of the code.
* Sessions: one session is a small machine (about a hundred states), so many threads cost nothing: six share the reusable session, five and ten the locked ones. Two would meet each race; the
  proofs hold for any set of threads. `MaxDepth`, the nesting of session calls on one thread, is 3 for reads (a read, a read or close in its callback, a close in the nested one)
  and 2 for writes, where a nested call cannot enter native code.
* `DecodeEngine`: `MaxLength = 3` frames and blocks of up to `MaxBlock = 2` give ranges that begin and end before, at, inside and after a block and the stream; a chain has up to `MaxLinks = 3` links, a first, a middle and a last one.
  `MaxLong = 4` is one past the longest stream, so that `first + max` overflows. `MaxOps = 2` operations of a reusable session show what one leaves to the next. The proofs hold for all of these bounds, and for chains of any number of links.
* `PcmStream`: a stream of up to 5 frames of 2 bytes, blocks of up to 3 frames, chunks of 2: blocks smaller than, equal to and larger than a chunk; reads of up to 5 bytes end inside a frame, inside a chunk and beyond one. The proofs hold for all sizes.
* `PlaybackSession`: a track of two frames (before, inside and at the end), two seeks including the initial one, one failing call. A second failure would only be added to the first
  (`addSuppressed`), which is not modelled.

### Fairness

* `DecodeRegistry`: a native call that has begun unwinds. It is strong fairness, since a thread may make further calls in a callback before the outer one can go on; a callback makes finitely many. The unload,
  once begun by the JVM, ends. Nothing is assumed about the application opening, using or closing a session.
* `EncodeRegistry`: the same, for the calls of encoder contexts.
* `NativeLoading`: a thread in `load()` is scheduled. No JVM is obliged to call it, and a killed one starts again or not.
* `DecodingSession`: threads inside the session go on, and the Cleaner runs the action of an unreachable session. Nobody is obliged to call decode or close.
* `DecodeEngine`: the operation runs on its caller's thread, and libFLAC, the transport and the consumer return. It is one conjunct over libFLAC and the entry point together: libFLAC is not assumed to choose any particular step.
* `PlaybackSession`: threads are scheduled and the device plays what is queued. A read, skip or write of a provider may block for ever unless its source or line was closed; opening a source is assumed to return. This is what the code relies on when it closes the source
  from a third thread.

### What the models assume

* Playback: one user-interface thread gives commands and closes (there is no concurrent second `close()`); a source holds the total it declares; a `close` that throws counts as the
  attempt to release; an interrupt of the thread in `close()` and the position calculation are not modelled.
* Engine: the seek, tell, length and end-of-file callbacks are folded into an aborting read, their effect on libFLAC. In `decode_engine` libFLAC's own file reads do not
  fail (`FileReadErrors = FALSE`); with TRUE one property is violated, finding 1.
* Metadata: libFLAC's write of the file is external: with `use_padding` it may add, resize or drop padding at the end, and a failed write may leave anything. `EditTellsTruth` is therefore stated up to padding at the end, and up to comment keys with an empty list of values: `validateVorbisComments` accepts such a key,
  `toVorbisCommentEntries` makes no entry of it, and the write that loses it succeeds (`Storable` says what is left; grouped comments with only such keys make no block). A
  comment entry without a key cannot be seen by Java and comments are regrouped by key, so a read and an unchanged replace is the identity only up to that (`ToPublic`). Null elements and STREAMINFO requests are refused before `writeMetadata`.
* Loading: `fs = "atomic"` is a POSIX rename. With `fs = "windows"` a file mapped by another JVM cannot be replaced: `load()` then throws although nothing is wrong with the JVM itself, so `OnlyOwnFaults` is stated for POSIX only. With `fs = "plain"` (the fallback after
  `AtomicMoveNotSupportedException`) the move deletes and copies, and another JVM may check, or map, a file that is being filled; `LoadsGenuine` excludes it. A killed JVM may leave `.tmp` files behind.
* PCM stream: `close()` of the stream closes the caller's source only after the session's monitor was free. A read that blocks in the transport therefore blocks `close()` too; reads are assumed to return.
* Sessions: the call that releases a native owner either frees it or throws and leaves it, the case the Kotlin classes are written for; finishing an encoder may do either before it throws.

## 4. What is proved

TLAPS checks every leaf. The assumptions are those the modules state about their constants, and TLC evaluates them in the runs: `MaxHandle`, `MaxDepth` positive naturals and
`NoSession` no session (`DecodeRegistry`, on which `EncodeRegistry` builds); `Cleaner` no application thread (`HandleCleanup`) and `MaxDepth` a positive natural (`LockedSession`); natural bounds, and blocks, requests, frames and chunks that are
not empty (`PullRead`, `PcmStream`); a largest jlong that is not below the longest stream (`DecodeEngine`); natural bounds (`NativeLoading`, `MetadataEdit`, `PlaybackSession`, which allows at least the initial seek);
and that files are sequences of blocks, that the blocks of requests are blocks, and that comments map their keys to lists of values, which may be empty (`ValuesAssumption` of `MetadataEdit`), as in the Kotlin types. Files, requests and comments are otherwise arbitrary. Threads, sessions and JVMs are arbitrary sets.
Each bound is arbitrary too, so the proofs do not depend on how often something may fail, be killed, be damaged, sought or nested. `PROJECT.json` lists the theorems; a module's invariant is always shown by one lemma per action.

**RegistryProofs.** Of the decoder registry, `InvariantHolds` proves `Spec => []IInv`; type correctness, handle uniqueness, exclusive use, memory safety, the single destroyer, the
absence of leaks and a complete unload follow. None of these is inductive alone. That a release by `DestroyOnRemove` is safe needs `Accounting`: `in_use` is set exactly when a frame *using* is on a stack and
the reference count is then one, else zero. That the last releaser may destroy needs `Ownership`: a session in use that is no longer registered has been released. That a fresh session is not shared needs
`SoleOpener`; that a popped frame was the one in question needs `StackShape`, which three lemmas about push, replace and pop preserve slot by slot.
`RegistryImplementsLifetime` maps each action to a step of `NativeLifetime` or to a stutter; *busy* is mapped to the stack and not to the flag, so it says that a real operation is never under way on a session that is destroyed.
`OpenReadsLiveSession` (`PublishingSafe`) and `NoHandleRevives` (`StaleHandlesStayStale`) hold until the counter has gone round. They need `FirstRound` beside `IInv`: the counter counts the sessions, so that the next handle is new, and a handle that is still being
published is known to nobody.

Of the encoder registry, `EncoderImplementsRegistry` shows every section of the encoder to be a step of `DecodeRegistry` or to leave its variables alone, which carries the registry's invariant over (`EncoderContextsAreSafe`). `EncInv` adds what a context
holds at each stage of its open and of its destruction (`ContextState`) and where a write or finish is (`DutyFollowsCall`). `FinishIsFinal` needs `HandlesAreNew`: the remove inside `finishEncoder` ignores its result, and removes its own context because no other context has had its handle.

**DecodingSessionProofs.** `IInv` adds to the safety properties where each thread holds the handle (`Duties`), the life of the registration (`Registration`) and that nobody is inside a session that was dropped
(`Reachability`): without the last one the Cleaner could claim the handle under a decode. `SessionImplementsOwnership` shows the session to implement the single token.

**LockedSessionProofs.** What the steps of `LockedSession` keep (`SessionInv`) is proved once for both sessions: one thread in the monitor, a single owner, a claimed handle only in a call that is releasing it, the Cleaner registration kept while the native owner lives. The pull session adds `ReadsUndisturbed`
(while a thread is in the monitor nobody else holds the handle, and a thread that claimed it is not in a native read), from which `NoForeignRelease` follows. The encoding session adds `StateFollowsCall`, which ties `state` to
the topmost call of the thread in the monitor, and `HandleAtHand`. Both implement `HandleOwnership`. The proofs speak of a stack's topmost call and of whether it is nested; lemmas about the sequence operations reduce each step to that.

**NativeLoadingProofs.** `LoaderReference` needs `InitialiserOwns` and `OnceHeldInside` (a reference held in a local variable belongs to the running initialiser, and the once mutex to it alone). `LoadsGenuine` needs `CheckedStaysGood`: where a move is atomic a file that was
verified stays good while nobody damages it, since other JVMs only replace a file by the bundle's. `OnlyOwnFaults` follows with it on a POSIX file system.

**PcmStreamProofs.** Of the pull reads, `PullInv` is inductive: PCM is conserved (`Conserved`), errors lead to an exception before Java can read again (`ErrorsSurface`), the end is believed only when all was handed over
(`EndIsReal`), and libFLAC is asked for a block only when nothing is pending (`ReadsFill`), which is why the write callback's "pending PCM" failure cannot occur. `ShortReadsEnd` follows, and
`ReadsImplementContract` maps a read's copies to deliveries of `DecodeContract` and the test after the physical end to its completion. `StreamReads` shows that the stream only makes such reads, so this holds under it too. `StreamInv` then says that the byte buffer ends
where the native reads have come to (`BufferFollowsReads`) and begins where the bytes the application got end (`PlaceIsKept`), with the close of another thread between any two copies; `PcmIsInOrder` follows. `WriterInv` counts the bytes on: encoded, in the writer's buffer, returned and not yet counted.

**DecodeEngineProofs.** `ControlInv` says which libFLAC call serves which request and that window and STREAMINFO data in the context are those of the current operation; it holds whatever fails, and so does `FirstExceptionIsThrown`. `EngineInv` adds four things: a fault is an exception or, until the entry point has looked, `saw_error` (`FaultsAreNoticed`);
the consumer was told what the context counts (`HeardInOrder`); while nothing went wrong libFLAC stands where the context has counted to, or behind it when a block overshot the range (`PositionKept`); the links passed were sound and the totals are those of the current one (`ChainKept`). From these, `OutcomeExplained`: an exception has a cause in the request, in the bytes
or in a fault, and an operation that ends well has emitted what was wanted. None of the last three is inductive without the others: that a decode which reached the end is complete follows from where libFLAC stood, and that it stood there from every fault having been noticed.
`FaultsAreThrown` and `EngineImplementsContract` follow: a block is mapped to *Deliver*, a return to *Complete* or *Throw*. `EngineInvariantHolds` and these two are proved under `~FileReadErrors`, the condition under which TLC checks them; without it finding 1 refutes them. `LinkEnd`, where each link of a chain ends, is a recursive function: `LinkEndAdds` shows by induction (`SetInduction`) that a function with that recursion exists, so that `LinkEnd` is one, and `LinkEnds` that the ends ascend and stay within the bound. `ChainKept` and `PositionKept` are carried from each link to the next.

**PlaybackSessionProofs.** `PlaybackInv` adds to the properties the order of the commands (`CommandOrder`), that a pending seek is kept and shown (`RequestKept`), that the worker has at most one source and closes it and the line as it leaves (`WorkerOwns`), why it left its loop (`LeavesForReason`), that the line has played or still holds what the segment counts (`PlayedSoFar`) and
where a failed cleanup is remembered until the session is closed (`FailureKnown`). `EndedMeansPlayed`, `WorkerLeavesNothing`, `CleanupFailuresReported` and `RequestIsPending` follow.

**MetadataEditProofs.** `NothingIsLostOrFreedTwice` (`MetadataMemory`) holds for requests of any length, files of any number of blocks and any number of edits. A row says, before each step of a builder or a converter, which pointers are live, which may be live or null and which are null. That a table of rows fits
its code (`Sound`: each step takes nothing still held, releases only what may be released, a failing step releases everything, and each step that may follow finds its row true) is checked step by step for each of the codes, loops and optional parts included; what a step of a fitting table does to the pointers is proved once (`StepKeeps`, `FailureFrees`).
`MemoryInv` then says what is held at each place: path, chain and iterator by phase (`OuterHeld`), the slots of the new blocks' table while there is one (`TableHeld`), and the locals of the running code by its row (`LocalsHeld`). It is needed because freeing twice shows only at the second free: no property of the current phase alone tells that the pointer was given back before.

`SuccessIsTruth` (`EditTellsTruth`) and `ReadIsInOrder` (`ReadKeepsOrder`) speak of contents. `DataInv` says what the call has computed so far: in a read, each typed array holds exactly the blocks of its kind among those its pass has seen, in their order, and the order table names kind and index of each block (`ReadSoFar`);
in a write, the chain is STREAMINFO followed by the converted blocks of the table up to the cursor (`WriteSoFar`). That the view rebuilt from the arrays is the file then rests on two lemmas: the element of an array at the index counted for a block is that block, and flattening a comment to entries and grouping them again gives the comment back without the keys that have no value, which is what `Storable` leaves of it (`GroupInverts`, `ToNativeInverts`).
`TrimmedAgree` carries equality up to padding at the end from one sequence of blocks to its conversion. What the counted positions are is proved once (`RankExists` and the lemmas after it); finite sets and lengths are handled by `SetInduction`, which takes a set of naturals instead of an operator and follows from the least element of its complement.

Only model-checked are the liveness properties (`ClosedSessionsAreFreed`, `LoadEnds`, `CloseRequestHonoured`, `DroppedSessionReleased`, `OperationsReturn`, `CloseStopsWorker`): fairness and ENABLED are beyond the prover.

## 5. Findings

1. **A file read failure between two frames completes a whole-file decode** (`decode_file_errors`, `CompleteMeansEndOfStream`). `process_decode_stream` (`jflac_jni.c:3124`) returns success when `process_until_end_of_stream`
   returned TRUE and the state is not END_OF_STREAM. libFLAC returns TRUE with the state ABORTED when its own file read failed while it searched for the next frame, so `onComplete` is called early. `FlacDecodingModels.kt:132` documents `onComplete` as
   "Receives the final decode summary after end-of-stream.", and `jflac_jni.c:4300` says "success always means libFLAC reached EOF and the consumer can be completed". The bounded loop (3159) and the pull read (5430) test for ABORTED.
2. **An accepted seek is lost at the end of the track** (`playback_lost_seek`, `AcceptedSeekServed`). A seek accepted after the worker found no command after the drain and before its last synchronized section sets LOADING and a pending frame; the section publishes ENDED
   (`JavaSoundPlaybackSession.java:399`) and the seek is never served. `README.md:408` says a seek reopens the source.

Read and not stated as a property: a failed `init_flac_api` is final for the JVM (`once->complete` is set whatever the initialiser did), so a later `load()` that finds intact files throws the old error; `README.md:983` says a damaged library is replaced atomically, which the plain-move fallback does not do; `decode_channel_eof_callback` (3478–3502) calls JNI without the `ExceptionCheck` of its siblings; decoding a session *from* exactly its total throws, where the one-shot call completes empty.

## 6. What is not modelled

* What libFLAC does inside a call, beyond the callbacks and results the bridge can see.
* Conversion of samples, texts, file names and wide strings: data only, no state. What a conversion allocates and frees is in `MetadataBlocks`.
* Immutable models, validation of options, overloads that only forward.
* The controller, console and terminal user interface of the example, the fuzzers, the smoke test and the build.
* Errors outside `Exception`, `IOError` and `LinkageError` in the playback worker, which it does not catch.
* `FlacAudioFileReader`: its mark/reset inspection and clean-up of a failed setup. Planned, below.
* That a file changes between the inspection of its header and its decode: the two decoders are independent and nothing of the library compares them.

## 7. Plan

1. *Done.* The registry with its abstract life and its proofs; the handle cleanup and the decoding session with proofs; the pull and encoding sessions; the decode contract, the engine, the pull reads with proofs; the playback session;
   the encoder contexts on top of the registry; metadata reading and editing; extraction and loading; the Java Sound PCM stream and writer on top of the pull reads.
   Proofs of the safety properties of all of these and of each refinement.
2. *Java Sound reader*: the inspection with mark/reset and its clean-up.
3. *Composition*: Kotlin decoding sessions over the native registry, with handles that are reissued, so that the two levels' promises (`HandleOwnership` above, `NativeLifetime` below) are shown to fit.
4. *Player*: the controller over the playback session.
