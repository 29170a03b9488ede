-------------------------- MODULE PlaybackSession --------------------------
(* JavaSoundPlaybackSession of the playback example: a user-interface thread *)
(* gives commands under the monitor, a worker opens the source, skips to the *)
(* requested frame, reads, writes to the output line and drains it, and      *)
(* close() stops the worker by closing, from a third thread, the source the  *)
(* worker may be blocked in.  A synchronized block is one step; the calls of *)
(* source and line between two blocks are steps of their own, and may fail.  *)
EXTENDS Integers, FiniteSets

CONSTANTS Length,           \* frames of the track
          MaxSeeks,         \* bound on accepted seeks, the first one by start()
          MaxFaults,        \* bound on failing source and line calls
          None

ASSUME PlaybackAssumption ==
  /\ Length \in Nat /\ MaxSeeks \in Nat \ {0} /\ MaxFaults \in Nat
  /\ None \notin Int

VARIABLES
  mon,          \* fields under the monitor: state, pauseRequested, ...
  segment,      \* segmentStartSourceFrame, segmentWrittenOutputFrames
  cancellable,  \* cancellableSource: a source, or None
  sources,      \* how many sources were opened; the newest is their number
  opened,       \* the sources close() was not called on yet
  line,         \* the output line: open, frames queued, frames discarded
  w,            \* the worker: pc and the locals of runPlayback
  ui,           \* the thread in close(): pc and what failed so far
  canceller,    \* the source the cancellation thread closes, and its failure
  faults,       \* failed calls so far
  uncleaned     \* history: a cleanup call threw

vars == <<mon, segment, cancellable, sources, opened, line, w, ui, canceller,
          faults, uncleaned>>

Frames == 0 .. Length

States == {"NEW", "LOADING", "PLAYING", "PAUSED", "DRAINING", "ENDED", "FAILED",
           "CLOSED"}

Terminal(state) == state \in {"ENDED", "FAILED", "CLOSED"}

Init ==
  /\ mon = [state |-> "NEW", pause |-> FALSE, close |-> FALSE, seek |-> None,
            revision |-> 0, failure |-> FALSE, shutdown |-> FALSE]
  /\ segment = [start |-> 0, written |-> 0]
  /\ cancellable = None
  /\ sources = 0 /\ opened = {}
  /\ line = [open |-> TRUE, queued |-> 0, discarded |-> 0]
  /\ w = [pc |-> "none", src |-> None, target |-> 0, revision |-> 0, pos |-> 0,
          failed |-> FALSE, cleanup |-> FALSE, opening |-> FALSE, natural |-> FALSE]
  /\ ui = [pc |-> "idle", failed |-> FALSE, late |-> FALSE]
  /\ canceller = [src |-> None, failed |-> FALSE]
  /\ faults = 0 /\ uncleaned = FALSE

(***************************************************************************)
(* Commands.                                                               *)
(***************************************************************************)
Idle == ui.pc = "idle"

\* ensureControllable
Controllable == mon.state # "NEW" /\ ~Terminal(mon.state) /\ ~mon.close

Start(frame, paused) ==
  /\ Idle /\ mon.state = "NEW"
  /\ mon' = [mon EXCEPT !.state = "LOADING", !.pause = paused, !.seek = frame,
                        !.revision = @ + 1]
  /\ w' = [w EXCEPT !.pc = "take"]
  /\ UNCHANGED <<segment, cancellable, sources, opened, line, ui, canceller, faults,
                 uncleaned>>

\* pause(), resume() and togglePause()
SetPause(paused) ==
  /\ Idle /\ Controllable
  /\ mon.pause # paused
  /\ mon' = [mon EXCEPT !.pause = paused]
  /\ UNCHANGED <<segment, cancellable, sources, opened, line, w, ui, canceller, faults,
                 uncleaned>>

SeekToMicros(frame) ==
  /\ Idle /\ Controllable
  /\ mon.revision < MaxSeeks
  /\ mon' = [mon EXCEPT !.seek = frame, !.revision = @ + 1, !.state = "LOADING"]
  /\ UNCHANGED <<segment, cancellable, sources, opened, line, w, ui, canceller, faults,
                 uncleaned>>

(***************************************************************************)
(* The worker.  Fails(p) may turn an external call into an exception;      *)
(* leaving for "cleanup" is the finally block of runPlayback.              *)
(***************************************************************************)
Goes(pc) == w' = [w EXCEPT !.pc = pc]
Throws == w' = [w EXCEPT !.pc = "cleanup", !.failed = TRUE]

Fault == faults < MaxFaults /\ faults' = faults + 1

SourceClosed(s) == s \notin opened

\* openLatestRequestedInput, under the monitor, and the resetSegment after it.
TakeRequest ==
  /\ w.pc = "take"
  /\ IF mon.close THEN Goes("cleanup") /\ UNCHANGED <<mon, segment>>
     ELSE /\ mon' = [mon EXCEPT !.seek = None, !.state = "LOADING"]
          /\ segment' = [start |-> mon.seek, written |-> 0]
          /\ w' = [w EXCEPT !.pc = "open", !.target = mon.seek,
                            !.revision = mon.revision]
  /\ UNCHANGED <<cancellable, sources, opened, line, ui, canceller, faults, uncleaned>>

\* sourceOpener.open()
OpenSource ==
  /\ w.pc = "open"
  /\ \/ /\ sources' = sources + 1
        /\ opened' = opened \cup {sources'}
        /\ w' = [w EXCEPT !.pc = "publish", !.src = sources', !.pos = 0]
        /\ UNCHANGED faults
     \/ Fault /\ Throws /\ UNCHANGED <<sources, opened>>
  /\ UNCHANGED <<mon, segment, cancellable, line, ui, canceller, uncleaned>>

\* mutant: publishes although close() already looked for the source
PublishLate ==
  /\ w.pc = "publish"
  /\ cancellable' = w.src /\ Goes("skip")
  /\ UNCHANGED <<mon, segment, sources, opened, line, ui, canceller, faults, uncleaned>>

\* The source becomes visible to close() unless close() was already called.
PublishSource ==
  /\ w.pc = "publish"
  /\ IF mon.close THEN Goes("abandon") /\ UNCHANGED cancellable
                  ELSE cancellable' = w.src /\ Goes("skip")
  /\ UNCHANGED <<mon, segment, sources, opened, line, ui, canceller, faults, uncleaned>>

\* isSeekSuperseded
Superseded == mon.close \/ mon.revision # w.revision

\* skipPcmFrames checks for a newer command before every chunk and after the last.
SkipFrames ==
  /\ w.pc = "skip"
  /\ \/ Superseded /\ Goes("superseded") /\ UNCHANGED <<segment, faults>>
     \/ /\ ~Superseded /\ w.pos = w.target
        /\ segment' = [start |-> w.pos, written |-> 0]
        /\ Goes("top")
        /\ UNCHANGED faults
     \/ /\ ~Superseded /\ w.pos < w.target /\ ~SourceClosed(w.src)
        /\ w' = [w EXCEPT !.pos = @ + 1]
        /\ UNCHANGED <<segment, faults>>
     \/ /\ w.pos < w.target
        /\ IF SourceClosed(w.src) THEN UNCHANGED faults ELSE Fault
        /\ Goes("abandon")
        /\ UNCHANGED segment
  /\ UNCHANGED <<mon, cancellable, sources, opened, line, ui, canceller, uncleaned>>

\* Closing s: the first close of a source may throw, a repeated one does nothing.
CloseSource(s, fails) ==
  /\ opened' = opened \ {s}
  /\ IF fails THEN s \in opened /\ Fault /\ uncleaned' = TRUE
              ELSE UNCHANGED <<faults, uncleaned>>

\* mutant: retries after any error
RetryAfterError ==
  /\ w.pc \in {"abandon", "superseded"}
  /\ cancellable' = IF cancellable = w.src THEN None ELSE cancellable
  /\ CloseSource(w.src, FALSE)
  /\ w' = [w EXCEPT !.src = None, !.pc = "take"]
  /\ UNCHANGED <<mon, segment, sources, line, ui, canceller>>

\* mutant: a failed release goes unnoticed when the seek was superseded
SwallowFailure ==
  /\ w.pc \in {"abandon", "superseded"}
  /\ cancellable' = IF cancellable = w.src THEN None ELSE cancellable
  /\ \E fails \in BOOLEAN :
       /\ CloseSource(w.src, fails)
       /\ w' = [w EXCEPT !.src = None, !.failed = w.pc = "abandon",
                  !.pc = IF w.pc = "superseded" THEN "take" ELSE "cleanup"]
  /\ UNCHANGED <<mon, segment, sources, line, ui, canceller>>

\* The catch block of openPlaybackInput.  A superseded seek goes on with the
\* newer one, but not when releasing its source failed.
AbandonSource ==
  /\ w.pc \in {"abandon", "superseded"}
  /\ cancellable' = IF cancellable = w.src THEN None ELSE cancellable
  /\ \E fails \in BOOLEAN :
       /\ CloseSource(w.src, fails)
       /\ w' = [w EXCEPT !.src = None, !.opening = @ \/ fails,
                  !.pc = IF w.pc = "superseded" /\ ~fails THEN "take" ELSE "cleanup",
                  !.failed = w.pc = "abandon" \/ fails]
  /\ UNCHANGED <<mon, segment, sources, line, ui, canceller>>

\* The head of the loop.
TopOfLoop ==
  /\ w.pc = "top"
  /\ IF mon.close THEN Goes("cleanup") /\ UNCHANGED mon
     ELSE IF mon.seek # None THEN Goes("reopen") /\ UNCHANGED mon
     ELSE IF mon.pause THEN mon' = [mon EXCEPT !.state = "PAUSED"] /\ Goes("pausing")
     ELSE mon' = [mon EXCEPT !.state = "PLAYING"] /\ Goes("reading")
  /\ UNCHANGED <<segment, cancellable, sources, opened, line, ui, canceller, faults,
                 uncleaned>>

Discard == line' = [line EXCEPT !.queued = 0, !.discarded = @ + line.queued]

\* A seek flushes the line and closes the old source before it opens another.
CloseOldSource ==
  /\ w.pc = "reopen"
  /\ line' = [line EXCEPT !.queued = 0, !.discarded = 0]
  /\ \E fails \in BOOLEAN :
       /\ CloseSource(w.src, fails)
       /\ IF fails
            THEN w' = [w EXCEPT !.pc = "cleanup", !.cleanup = TRUE, !.failed = TRUE]
                 /\ UNCHANGED cancellable
            ELSE w' = [w EXCEPT !.pc = "take", !.src = None] /\ cancellable' = None
  /\ UNCHANGED <<mon, segment, sources, ui, canceller>>

\* Any control of the line may throw: the stop and flush before a seek, the start
\* before a read, the stop of a pause and the drain at the end.
LineControlFails ==
  /\ w.pc \in {"reopen", "reading", "pausing", "draining"}
  /\ IF line.open THEN Fault ELSE UNCHANGED faults
  /\ Throws
  /\ UNCHANGED <<mon, segment, cancellable, sources, opened, line, ui, canceller,
                 uncleaned>>

\* line.stop() of a pause, outside the monitor and with the state already PAUSED.
StopForPause ==
  /\ w.pc = "pausing"
  /\ Goes("waiting")
  /\ UNCHANGED <<mon, segment, cancellable, sources, opened, line, ui, canceller, faults,
                 uncleaned>>

\* waitForControlChange, with the line stopped.
Wait ==
  /\ w.pc = "waiting"
  /\ mon.close \/ ~mon.pause \/ mon.seek # None
  /\ Goes("top")
  /\ UNCHANGED <<mon, segment, cancellable, sources, opened, line, ui, canceller, faults,
                 uncleaned>>

ReadSource ==
  /\ w.pc = "reading"
  /\ \/ /\ ~SourceClosed(w.src)
        /\ IF w.pos = Length THEN Goes("eof")
                             ELSE w' = [w EXCEPT !.pc = "writing", !.pos = @ + 1]
        /\ UNCHANGED faults
     \/ /\ Throws
        /\ IF SourceClosed(w.src) THEN UNCHANGED faults ELSE Fault
  /\ UNCHANGED <<mon, segment, cancellable, sources, opened, line, ui, canceller,
                 uncleaned>>

WriteLine ==
  /\ w.pc = "writing"
  /\ \/ /\ line.open
        /\ line' = [line EXCEPT !.queued = @ + 1]
        /\ Goes("written")
        /\ UNCHANGED faults
     \/ /\ IF line.open THEN Fault ELSE UNCHANGED faults
        /\ Throws
        /\ UNCHANGED line
  /\ UNCHANGED <<mon, segment, cancellable, sources, opened, ui, canceller, uncleaned>>

CountWritten ==
  /\ w.pc = "written"
  /\ segment' = [segment EXCEPT !.written = @ + 1]
  /\ Goes("top")
  /\ UNCHANGED <<mon, cancellable, sources, opened, line, ui, canceller, faults,
                 uncleaned>>

\* End of the source, under the monitor: a command goes first.
AtEnd ==
  /\ w.pc = "eof"
  /\ IF mon.close THEN Goes("cleanup") /\ UNCHANGED mon
     ELSE IF mon.seek # None THEN Goes("top") /\ UNCHANGED mon
     ELSE IF mon.pause THEN mon' = [mon EXCEPT !.state = "PAUSED"] /\ Goes("pausing")
     ELSE mon' = [mon EXCEPT !.state = "DRAINING"] /\ Goes("draining")
  /\ UNCHANGED <<segment, cancellable, sources, opened, line, ui, canceller, faults,
                 uncleaned>>

\* line.drain() returns when the line played everything, or was closed.
DrainLine ==
  /\ w.pc = "draining"
  /\ line.queued = 0 \/ ~line.open
  /\ Goes("drained")
  /\ UNCHANGED <<mon, segment, cancellable, sources, opened, line, ui, canceller, faults,
                 uncleaned>>

\* Commands given while the line drained are served; without one this is the end.
AfterDrain ==
  /\ w.pc = "drained"
  /\ IF mon.close THEN Goes("cleanup")
     ELSE IF mon.seek # None \/ mon.pause THEN Goes("top")
     ELSE w' = [w EXCEPT !.pc = "cleanup", !.natural = TRUE]
  /\ UNCHANGED <<mon, segment, cancellable, sources, opened, line, ui, canceller, faults,
                 uncleaned>>

\* mutant: leaves the source to the cancellation thread
LeaveToCanceller ==
  /\ w.pc = "cleanup"
  /\ cancellable' = None
  /\ \E fails \in BOOLEAN :
       /\ IF w.src = None \/ mon.close
            THEN ~fails /\ UNCHANGED <<opened, faults, uncleaned>>
            ELSE CloseSource(w.src, fails)
       /\ w' = [w EXCEPT !.pc = "close_line", !.cleanup = @ \/ w.opening \/ fails]
  /\ UNCHANGED <<mon, segment, sources, line, ui, canceller>>

\* The finally block up to its synchronized part: the source, then the line.
CloseInput ==
  /\ w.pc = "cleanup"
  /\ cancellable' = None
  /\ \E fails \in BOOLEAN :
       /\ IF w.src = None
            THEN ~fails /\ UNCHANGED <<opened, faults, uncleaned>>
            ELSE CloseSource(w.src, fails)
       /\ w' = [w EXCEPT !.pc = "close_line", !.cleanup = @ \/ w.opening \/ fails]
  /\ UNCHANGED <<mon, segment, sources, line, ui, canceller>>

CloseLine ==
  /\ w.pc = "close_line"
  /\ line' = [line EXCEPT !.open = FALSE, !.queued = 0, !.discarded = @ + line.queued]
  /\ \/ Goes("settle") /\ UNCHANGED <<faults, uncleaned>>
     \/ /\ Fault /\ uncleaned' = TRUE
        /\ w' = [w EXCEPT !.pc = "settle", !.cleanup = TRUE]
  /\ UNCHANGED <<mon, segment, cancellable, sources, opened, ui, canceller>>

\* mutant: a natural end counts as success whatever the cleanup did
EndAnyway ==
  /\ w.pc = "settle"
  /\ mon' =
       IF mon.close THEN [mon EXCEPT !.shutdown = @ \/ w.cleanup]
       ELSE IF w.natural THEN [mon EXCEPT !.state = "ENDED"]
       ELSE [mon EXCEPT !.state = "FAILED", !.failure = TRUE]
  /\ Goes("dead")
  /\ UNCHANGED <<segment, cancellable, sources, opened, line, ui, canceller, faults,
                 uncleaned>>

\* The end of the finally block: what the session becomes.
Settle ==
  /\ w.pc = "settle"
  /\ mon' =
       IF mon.close THEN [mon EXCEPT !.shutdown = @ \/ w.cleanup]
       ELSE IF w.failed \/ w.cleanup THEN [mon EXCEPT !.state = "FAILED", !.failure = TRUE]
       ELSE IF w.natural THEN [mon EXCEPT !.state = "ENDED"]
       ELSE mon
  /\ Goes("dead")
  /\ UNCHANGED <<segment, cancellable, sources, opened, line, ui, canceller, faults,
                 uncleaned>>

(***************************************************************************)
(* close(), the cancellation thread, and the output device.                *)
(***************************************************************************)
RequestClose ==
  /\ Idle /\ mon.state # "CLOSED"
  /\ mon' = [mon EXCEPT !.close = TRUE]
  /\ ui' = [ui EXCEPT !.pc = "stop_line"]
  /\ UNCHANGED <<segment, cancellable, sources, opened, line, w, canceller, faults,
                 uncleaned>>

StopLine ==
  /\ ui.pc = "stop_line"
  /\ line' = [line EXCEPT !.open = FALSE, !.queued = 0, !.discarded = @ + line.queued]
  /\ \/ ui' = [ui EXCEPT !.pc = "cancel"] /\ UNCHANGED <<faults, uncleaned>>
     \/ /\ Fault /\ uncleaned' = TRUE
        /\ ui' = [ui EXCEPT !.pc = "cancel", !.failed = TRUE]
  /\ UNCHANGED <<mon, segment, cancellable, sources, opened, w, canceller>>

Started == w.pc # "none"

\* cancelSourceAsynchronously(cancellableSource), read without the monitor.
CancelSource ==
  /\ ui.pc = "cancel"
  /\ canceller' = [canceller EXCEPT !.src = IF Started THEN cancellable ELSE None]
  /\ ui' = [ui EXCEPT !.pc = IF Started THEN "join" ELSE "closing"]
  /\ UNCHANGED <<mon, segment, cancellable, sources, opened, line, w, faults, uncleaned>>

CancellerCloses ==
  /\ canceller.src # None
  /\ \E fails \in BOOLEAN :
       /\ CloseSource(canceller.src, fails)
       /\ canceller' = [src |-> None, failed |-> fails]
  /\ UNCHANGED <<mon, segment, cancellable, sources, line, w, ui>>

\* Two bounded joins share one deadline; a late thread is reported.
Join ==
  /\ ui.pc = "join"
  /\ \/ /\ w.pc = "dead" /\ canceller.src = None
        /\ ui' = [ui EXCEPT !.pc = "closing", !.failed = @ \/ canceller.failed]
     \/ /\ w.pc # "dead" \/ canceller.src # None
        /\ ui' = [ui EXCEPT !.pc = "closing", !.failed = TRUE, !.late = TRUE]
  /\ UNCHANGED <<mon, segment, cancellable, sources, opened, line, w, canceller, faults,
                 uncleaned>>

Closed ==
  /\ ui.pc = "closing"
  /\ mon' = [mon EXCEPT !.state = "CLOSED",
                        !.failure = @ \/ ui.failed \/ mon.shutdown]
  /\ ui' = [ui EXCEPT !.pc = "idle"]
  /\ UNCHANGED <<segment, cancellable, sources, opened, line, w, canceller, faults,
                 uncleaned>>

DevicePlays ==
  /\ line.open /\ line.queued > 0
  /\ w.pc # "waiting"
  /\ line' = [line EXCEPT !.queued = @ - 1]
  /\ UNCHANGED <<mon, segment, cancellable, sources, opened, w, ui, canceller, faults,
                 uncleaned>>

Command ==
  \/ \E frame \in Frames, paused \in BOOLEAN : Start(frame, paused)
  \/ \E paused \in BOOLEAN : SetPause(paused)
  \/ \E frame \in Frames : SeekToMicros(frame)
  \/ RequestClose

\* Steps of the worker that no external call can hold up.
WorkerMoves ==
  \/ TakeRequest \/ PublishSource \/ AbandonSource
  \/ TopOfLoop \/ CloseOldSource \/ StopForPause \/ Wait
  \/ CountWritten \/ AtEnd \/ DrainLine \/ AfterDrain
  \/ CloseInput \/ CloseLine \/ Settle

\* Steps that end a call which may block until its source or line is closed.
WorkerCalls ==
  OpenSource \/ SkipFrames \/ LineControlFails \/ ReadSource \/ WriteLine

Closing == StopLine \/ CancelSource \/ Join \/ Closed

Done ==
  /\ mon.state = "CLOSED" /\ ui.pc = "idle"
  /\ UNCHANGED vars

Next ==
  \/ Command \/ WorkerMoves \/ WorkerCalls \/ Closing
  \/ CancellerCloses \/ DevicePlays \/ Done

\* Threads are scheduled and the device plays.  A call into a provider may
\* block for ever, except that one on a closed source or line ends.
Spec ==
  /\ Init /\ [][Next]_vars
  /\ WF_vars(WorkerMoves) /\ WF_vars(Closing) /\ WF_vars(CancellerCloses)
  /\ WF_vars(DevicePlays)
  /\ WF_vars(OpenSource)
  /\ WF_vars((SkipFrames \/ ReadSource) /\ SourceClosed(w.src))
  /\ WF_vars(WriteLine /\ ~line.open)

(***************************************************************************)
(* Properties.                                                             *)
(***************************************************************************)
\* runPlayback publishes ENDED "only after decoder and mixer cleanup succeeds"
\* and after the line played every frame since the last seek; only a later
\* close() may still meet a failure.
EndedMeansPlayed ==
  mon.state = "ENDED" /\ ~mon.close =>
    /\ opened = {} /\ ~line.open
    /\ segment.start + segment.written = Length
    /\ line.discarded = 0
    /\ ~uncleaned

\* Whatever the order of seek, end, failure and close, one source is open at a
\* time, and it is the worker's; a worker that stopped leaves no open source and
\* no open line, and the session has settled.
WorkerLeavesNothing ==
  /\ opened \subseteq {w.src}
  /\ w.pc = "dead" =>
       /\ opened = {} /\ ~line.open
       /\ Terminal(mon.state) \/ mon.close

\* A source or line that could not be released is reported: by the FAILED state,
\* or by close() once it has seen the worker and the cancellation stop.
CleanupFailuresReported ==
  mon.state = "CLOSED" /\ uncleaned => mon.failure

\* The worker never looks for a request nobody made ("Playback worker expected a
\* pending seek request."): every way back to the opening follows a newer seek.
\* And a seek that arrives between two steps of the worker is not hidden by the
\* state it would have reached otherwise: LOADING is shown until it is taken.
RequestIsPending ==
  /\ w.pc = "take" /\ ~mon.close => mon.seek # None
  /\ mon.seek # None => mon.state = "LOADING" \/ Terminal(mon.state)

\* close() stops the worker, also one that is blocked in a read that only the
\* closing of its source can end.
CloseStopsWorker == (mon.close /\ Started) ~> (w.pc = "dead")

\* A seek that was accepted is served unless the session fails or is closed.
AcceptedSeekServed == mon.state = "ENDED" => mon.seek = None

(***************************************************************************)
(* The inductive invariant behind the safety properties.                   *)
(***************************************************************************)
Leaving == {"cleanup", "close_line", "settle", "dead"}

WorkerPCs ==
  {"none", "take", "open", "publish", "skip", "superseded", "abandon", "top", "reopen",
   "pausing", "waiting", "reading", "writing", "written", "eof", "draining", "drained"} \cup Leaving

Monitor ==
  [state : States, pause : BOOLEAN, close : BOOLEAN, seek : Frames \cup {None},
   revision : Nat, failure : BOOLEAN, shutdown : BOOLEAN]

Worker ==
  [pc : WorkerPCs, src : Nat \cup {None}, target : Frames \cup {None}, revision : Nat,
   pos : Nat, failed : BOOLEAN, cleanup : BOOLEAN, opening : BOOLEAN, natural : BOOLEAN]

TypeOK ==
  /\ mon \in Monitor /\ w \in Worker
  /\ segment \in [start : Frames \cup {None}, written : Nat]
  /\ cancellable \in Nat \cup {None} /\ sources \in Nat /\ opened \in SUBSET Nat
  /\ line \in [open : BOOLEAN, queued : Nat, discarded : Nat]
  /\ ui \in [pc : {"idle", "stop_line", "cancel", "join", "closing"}, failed : BOOLEAN, late : BOOLEAN]
  /\ canceller \in [src : Nat \cup {None}, failed : BOOLEAN]
  /\ faults \in Nat /\ uncleaned \in BOOLEAN

\* The session is new until it is started or closed; what follows a close()
\* request is done by close() alone, once.
CommandOrder ==
  /\ mon.state = "NEW" => w.pc = "none"
  /\ w.pc = "none" => mon.state \in {"NEW", "CLOSED"}
  /\ ui.pc # "idle" => mon.close
  /\ mon.close /\ ui.pc = "idle" => mon.state = "CLOSED"
  /\ mon.state = "CLOSED" => mon.close /\ ui.pc = "idle"

\* A request that the worker has not taken keeps its frame and shows in the state.
RequestKept ==
  /\ w.pc \in {"take", "reopen", "superseded"} /\ ~mon.close => mon.seek # None
  /\ w.pc # "none" /\ mon.revision # w.revision => mon.seek # None
  /\ w.pc \in {"open", "publish", "skip"} => w.target # None
  /\ mon.seek # None => mon.state = "LOADING" \/ Terminal(mon.state)

\* The worker has at most one source, and closes it and the line as it leaves.
WorkerOwns ==
  /\ opened \subseteq {w.src}
  /\ w.pc \in {"none", "take", "open"} => w.src = None
  /\ w.pc \in {"close_line", "settle", "dead"} => opened = {}
  /\ w.pc \in {"settle", "dead"} => ~line.open

\* It leaves for a reason, and gives it when it settles.
LeavesForReason ==
  /\ w.pc \in Leaving => mon.close \/ w.failed \/ w.cleanup \/ w.natural
  /\ w.pc = "dead" => Terminal(mon.state) \/ mon.close
  /\ mon.state \in {"ENDED", "FAILED"} => w.pc = "dead"

\* The segment counts what the worker wrote since it skipped to the request, and
\* the line has played or still holds it, unless the session is being closed.
PlayedSoFar ==
  /\ w.pc \in {"top", "reopen", "pausing", "waiting", "reading", "eof", "draining",
              "drained"} =>
       segment.start \in Frames /\ segment.start + segment.written = w.pos
  /\ w.pc \in {"writing", "written"} =>
       segment.start \in Frames /\ segment.start + segment.written + 1 = w.pos
  /\ w.pc \in {"eof", "draining", "drained"} => w.pos = Length
  /\ ~mon.close /\ w.pc \notin {"settle", "dead"} => line.open /\ line.discarded = 0
  /\ ~mon.close /\ w.pc = "drained" => line.queued = 0
  /\ w.natural =>
       /\ w.pc \in Leaving
       /\ segment.start + segment.written = Length
       /\ ~mon.close /\ w.pc \in {"cleanup", "close_line"} => line.queued = 0
       /\ ~mon.close => line.discarded = 0

\* Who knows of a cleanup that failed: the worker until it is dead, then the
\* session; the thread in close(); and the cancellation thread until it is joined.
FailureKnown ==
  /\ uncleaned => w.cleanup \/ w.opening \/ ui.failed \/ canceller.failed
  /\ w.cleanup \/ w.opening => w.pc \in Leaving
  /\ w.opening /\ w.pc # "cleanup" => w.cleanup
  /\ w.cleanup /\ w.pc = "dead" => mon.failure \/ mon.shutdown
  /\ ui.pc \in {"idle", "stop_line", "cancel"} /\ mon.state # "CLOSED" =>
       canceller.src = None /\ ~canceller.failed
  /\ ui.pc \in {"idle", "stop_line"} /\ mon.state # "CLOSED" => ~ui.failed
  /\ canceller.src # None => ~canceller.failed
  /\ ui.pc = "closing" =>
       ui.failed \/ (w.pc \in {"none", "dead"} /\ canceller.src = None /\ ~canceller.failed)
  /\ mon.state = "CLOSED" =>
       mon.failure \/ (~uncleaned /\ w.pc \in {"none", "dead"} /\ canceller.src = None)

PlaybackInv ==
  /\ TypeOK /\ CommandOrder /\ RequestKept /\ WorkerOwns /\ LeavesForReason /\ PlayedSoFar
  /\ FailureKnown /\ EndedMeansPlayed
============================================================================
