----------------------- MODULE PlaybackSessionProofs -----------------------
(* Proofs about PlaybackSession, for a track of any length and any number  *)
(* of seeks and failing calls.                                             *)
EXTENDS PlaybackSession, TLAPS

(***************************************************************************)
(* The worker and the monitor after a step, field by field.                *)
(***************************************************************************)

\* Only its place has changed.
WorkerAt(pc) ==
  /\ w' \in Worker /\ w'.pc = pc
  /\ w'.src = w.src /\ w'.target = w.target /\ w'.revision = w.revision /\ w'.pos = w.pos
  /\ w'.failed = w.failed /\ w'.cleanup = w.cleanup /\ w'.opening = w.opening
  /\ w'.natural = w.natural

\* Only the state has changed, or the pause.
MonitorAt(state) ==
  /\ mon' \in Monitor /\ mon'.state = state
  /\ mon'.close = mon.close /\ mon'.seek = mon.seek /\ mon'.revision = mon.revision
  /\ mon'.failure = mon.failure /\ mon'.shutdown = mon.shutdown

LEMMA WorkerGoes ==
  ASSUME TypeOK, NEW pc \in WorkerPCs, Goes(pc)
  PROVE  WorkerAt(pc)
  BY DEF TypeOK, Worker, Goes, WorkerAt

\* An exception of a call of the source or the line.
WorkerThrew ==
  /\ w' \in Worker /\ w'.pc = "cleanup" /\ w'.failed
  /\ w'.src = w.src /\ w'.target = w.target /\ w'.revision = w.revision /\ w'.pos = w.pos
  /\ w'.cleanup = w.cleanup /\ w'.opening = w.opening /\ w'.natural = w.natural

LEMMA WorkerThrows ==
  ASSUME TypeOK, Throws
  PROVE  WorkerThrew
  BY DEF TypeOK, Worker, WorkerPCs, Leaving, Throws, WorkerThrew

LEMMA FaultIsCounted ==
  ASSUME TypeOK, Fault \/ UNCHANGED faults
  PROVE  faults' \in Nat
  BY PlaybackAssumption DEF TypeOK, Fault

\* A source that is closed twice stays closed; a close that fails is noticed.
LEMMA SourceCloses ==
  ASSUME TypeOK, NEW s, NEW fails \in BOOLEAN, CloseSource(s, fails)
  PROVE  /\ opened' = opened \ {s} /\ opened' \in SUBSET Nat /\ faults' \in Nat
         /\ uncleaned' = (uncleaned \/ fails) /\ uncleaned' \in BOOLEAN
  <1>1. opened' = opened \ {s} /\ (Fault \/ UNCHANGED faults)
    BY DEF CloseSource
  <1>2. uncleaned' = (uncleaned \/ fails)
    BY DEF CloseSource, TypeOK
  <1>3. QED
    BY <1>1, <1>2, FaultIsCounted DEF TypeOK

(***************************************************************************)
(* One lemma per action.                                                   *)
(***************************************************************************)

LEMMA StartKeepsInv ==
  ASSUME PlaybackInv, NEW frame \in Frames, NEW paused \in BOOLEAN, Start(frame, paused)
  PROVE  PlaybackInv'
  <1>1. /\ mon.state = "NEW" /\ ui.pc = "idle"
        /\ UNCHANGED <<segment, cancellable, sources, opened, line, ui, canceller, faults,
                       uncleaned>>
    BY DEF Start, Idle
  <1>2. WorkerAt("take")
    BY WorkerGoes DEF PlaybackInv, Start, WorkerPCs, Leaving, Goes
  <1>3. /\ mon' \in Monitor /\ mon'.state = "LOADING" /\ mon'.close = mon.close /\ mon'.seek = frame
        /\ mon'.failure = mon.failure /\ mon'.shutdown = mon.shutdown
    <2>1. mon' = [mon EXCEPT !.state = "LOADING", !.pause = paused, !.seek = frame,
                            !.revision = mon.revision + 1]
      BY DEF Start
    <2>2. mon \in Monitor /\ mon.revision + 1 \in Nat
      BY DEF PlaybackInv, TypeOK, Monitor
    <2>3. QED
      BY <2>1, <2>2 DEF Monitor, States
  <1>4. frame # None
    BY PlaybackAssumption DEF Frames
  <1>5. w.pc = "none" /\ ~mon.close
    BY <1>1 DEF PlaybackInv, CommandOrder
  <1>6. TypeOK'
    BY <1>1, <1>2, <1>3 DEF PlaybackInv, TypeOK, WorkerAt
  <1>7. CommandOrder' /\ RequestKept' /\ LeavesForReason'
    BY <1>1, <1>2, <1>3, <1>4, <1>5 DEF PlaybackInv, CommandOrder, RequestKept, LeavesForReason,
        Terminal, WorkerAt, Leaving
  <1>8. WorkerOwns' /\ PlayedSoFar'
    BY <1>1, <1>2, <1>3, <1>4, <1>5 DEF PlaybackInv, WorkerOwns, PlayedSoFar, WorkerAt, Leaving
  <1>9. FailureKnown' /\ EndedMeansPlayed'
    BY <1>1, <1>2, <1>3, <1>4, <1>5 DEF PlaybackInv, FailureKnown, EndedMeansPlayed, WorkerAt,
        Leaving
  <1>10. QED
    BY <1>6, <1>7, <1>8, <1>9 DEF PlaybackInv

LEMMA SetPauseKeepsInv ==
  ASSUME PlaybackInv, NEW paused \in BOOLEAN, SetPause(paused)
  PROVE  PlaybackInv'
  <1>1. UNCHANGED <<segment, cancellable, sources, opened, line, w, ui, canceller, faults,
                    uncleaned>>
    BY DEF SetPause
  <1>2. MonitorAt(mon.state)
    BY DEF PlaybackInv, TypeOK, SetPause, Monitor, MonitorAt
  <1>3. TypeOK'
    BY <1>1, <1>2 DEF PlaybackInv, TypeOK, MonitorAt
  <1>4. CommandOrder' /\ RequestKept' /\ LeavesForReason'
    BY <1>1, <1>2 DEF PlaybackInv, CommandOrder, RequestKept, LeavesForReason, Terminal, MonitorAt
  <1>5. WorkerOwns' /\ PlayedSoFar'
    BY <1>1, <1>2 DEF PlaybackInv, WorkerOwns, PlayedSoFar, MonitorAt
  <1>6. FailureKnown' /\ EndedMeansPlayed'
    BY <1>1, <1>2 DEF PlaybackInv, FailureKnown, EndedMeansPlayed, MonitorAt
  <1>7. QED
    BY <1>3, <1>4, <1>5, <1>6 DEF PlaybackInv

LEMMA SeekKeepsInv ==
  ASSUME PlaybackInv, NEW frame \in Frames, SeekToMicros(frame)
  PROVE  PlaybackInv'
  <1>1. /\ mon.state # "NEW" /\ ~Terminal(mon.state) /\ ~mon.close /\ ui.pc = "idle"
        /\ UNCHANGED <<segment, cancellable, sources, opened, line, w, ui, canceller,
                       faults, uncleaned>>
    BY DEF SeekToMicros, Idle, Controllable
  <1>2. /\ mon' \in Monitor /\ mon'.state = "LOADING" /\ mon'.close = mon.close /\ mon'.seek = frame
        /\ mon'.failure = mon.failure /\ mon'.shutdown = mon.shutdown
    <2>1. mon' = [mon EXCEPT !.seek = frame, !.revision = mon.revision + 1, !.state = "LOADING"]
      BY DEF SeekToMicros
    <2>2. mon \in Monitor /\ mon.revision + 1 \in Nat
      BY DEF PlaybackInv, TypeOK, Monitor
    <2>3. QED
      BY <2>1, <2>2 DEF Monitor, States
  <1>3. frame # None
    BY PlaybackAssumption DEF Frames
  <1>4. TypeOK'
    BY <1>1, <1>2 DEF PlaybackInv, TypeOK
  <1>5. CommandOrder' /\ RequestKept'
    BY <1>1, <1>2, <1>3 DEF PlaybackInv, CommandOrder, RequestKept, Terminal
  <1>6. LeavesForReason'
    BY <1>1, <1>2 DEF PlaybackInv, LeavesForReason, CommandOrder, Terminal
  <1>7. WorkerOwns' /\ PlayedSoFar'
    BY <1>1, <1>2 DEF PlaybackInv, WorkerOwns, PlayedSoFar
  <1>8. FailureKnown' /\ EndedMeansPlayed'
    BY <1>1, <1>2 DEF PlaybackInv, FailureKnown, EndedMeansPlayed, Terminal
  <1>9. QED
    BY <1>4, <1>5, <1>6, <1>7, <1>8 DEF PlaybackInv

\* A request is taken: it becomes the segment and the target.
LEMMA TakeRequestKeepsInv ==
  ASSUME PlaybackInv, TakeRequest
  PROVE  PlaybackInv'
  <1>1. /\ w.pc = "take"
        /\ UNCHANGED <<cancellable, sources, opened, line, ui, canceller, faults,
                       uncleaned>>
    BY DEF TakeRequest
  <1>2. \/ mon.close /\ UNCHANGED <<mon, segment>> /\ WorkerAt("cleanup")
        \/ /\ ~mon.close /\ mon' \in Monitor /\ mon'.state = "LOADING" /\ mon'.close = mon.close
           /\ mon'.revision = mon.revision /\ mon'.failure = mon.failure /\ mon'.shutdown = mon.shutdown
           /\ segment' = [start |-> mon.seek, written |-> 0]
           /\ w' \in Worker /\ w'.pc = "open" /\ w'.src = w.src /\ w'.target = mon.seek
           /\ w'.revision = mon.revision /\ w'.cleanup = w.cleanup /\ w'.opening = w.opening
           /\ w'.natural = w.natural
    <2>1. CASE mon.close
      BY <2>1, WorkerGoes DEF PlaybackInv, TakeRequest, WorkerPCs, Leaving
    <2>2. CASE ~mon.close
      <3>1. /\ mon' = [mon EXCEPT !.seek = None, !.state = "LOADING"]
            /\ segment' = [start |-> mon.seek, written |-> 0]
            /\ w' = [w EXCEPT !.pc = "open", !.target = mon.seek, !.revision = mon.revision]
        BY <2>2 DEF TakeRequest
      <3>2. mon \in Monitor /\ w \in Worker
        BY DEF PlaybackInv, TypeOK
      <3>3. /\ mon' \in Monitor /\ mon'.state = "LOADING" /\ mon'.close = mon.close
            /\ mon'.revision = mon.revision /\ mon'.failure = mon.failure /\ mon'.shutdown = mon.shutdown
        BY <3>1, <3>2 DEF Monitor, States
      <3>4. w' \in Worker
        BY <3>1, <3>2 DEF Worker, Monitor, WorkerPCs
      <3>5. QED
        BY <2>2, <3>1, <3>2, <3>3, <3>4 DEF Worker
    <2>3. QED
      BY <2>1, <2>2
  <1>3. TypeOK'
    BY <1>1, <1>2 DEF PlaybackInv, TypeOK, WorkerAt, Monitor
  <1>4. CommandOrder'
    BY <1>1, <1>2 DEF PlaybackInv, CommandOrder, WorkerAt
  <1>5. RequestKept'
    BY <1>1, <1>2 DEF PlaybackInv, RequestKept, WorkerAt
  <1>6. LeavesForReason'
    BY <1>1, <1>2 DEF PlaybackInv, LeavesForReason, WorkerAt, Terminal, Leaving, CommandOrder
  <1>7. WorkerOwns'
    BY <1>1, <1>2 DEF PlaybackInv, WorkerOwns, WorkerAt
  <1>8. PlayedSoFar'
    BY <1>1, <1>2 DEF PlaybackInv, PlayedSoFar, WorkerAt, Leaving
  <1>9. FailureKnown'
    BY <1>1, <1>2 DEF PlaybackInv, FailureKnown, WorkerAt, Leaving, CommandOrder
  <1>10. EndedMeansPlayed'
    BY <1>1, <1>2 DEF PlaybackInv, EndedMeansPlayed, LeavesForReason
  <1>11. QED
    BY <1>3, <1>4, <1>5, <1>6, <1>7, <1>8, <1>9, <1>10 DEF PlaybackInv

LEMMA OpenSourceKeepsInv ==
  ASSUME PlaybackInv, OpenSource
  PROVE  PlaybackInv'
  <1>1. w.pc = "open" /\ UNCHANGED <<mon, segment, cancellable, line, ui, canceller, uncleaned>>
    BY DEF OpenSource
  <1>2. w.src = None /\ opened = {}
    BY <1>1, PlaybackAssumption DEF PlaybackInv, WorkerOwns, TypeOK
  <1>3. \/ WorkerThrew /\ UNCHANGED <<sources, opened>> /\ faults' \in Nat
        \/ /\ sources' \in Nat /\ opened' = {w'.src} /\ opened' \in SUBSET Nat /\ faults' \in Nat
           /\ w' \in Worker /\ w'.pc = "publish" /\ w'.target = w.target
           /\ w'.revision = w.revision /\ w'.failed = w.failed /\ w'.cleanup = w.cleanup
           /\ w'.opening = w.opening /\ w'.natural = w.natural
    <2>1. CASE Fault /\ Throws /\ UNCHANGED <<sources, opened>>
      BY <2>1, FaultIsCounted, WorkerThrows DEF PlaybackInv
    <2>2. CASE /\ sources' = sources + 1 /\ opened' = opened \cup {sources'} /\ UNCHANGED faults
               /\ w' = [w EXCEPT !.pc = "publish", !.src = sources', !.pos = 0]
      <3>1. w \in Worker /\ sources' \in Nat /\ faults' \in Nat
        BY <2>2 DEF PlaybackInv, TypeOK
      <3>2. w' \in Worker /\ w'.src = sources'
        BY <2>2, <3>1 DEF Worker, WorkerPCs
      <3>3. opened' = {w'.src} /\ opened' \in SUBSET Nat
        BY <1>2, <2>2, <3>1, <3>2
      <3>4. QED
        BY <2>2, <3>1, <3>2, <3>3 DEF Worker
    <2>3. QED
      BY <2>1, <2>2 DEF OpenSource
  <1>4. TypeOK'
    <2>1. sources' \in Nat /\ opened' \in SUBSET Nat /\ faults' \in Nat /\ w' \in Worker
      BY <1>3 DEF PlaybackInv, TypeOK, WorkerThrew
    <2>2. QED
      BY <1>1, <2>1 DEF PlaybackInv, TypeOK
  <1>5. CommandOrder' /\ RequestKept' /\ LeavesForReason'
    BY <1>1, <1>3 DEF PlaybackInv, CommandOrder, RequestKept, LeavesForReason, WorkerThrew, Leaving,
        Terminal
  <1>6. WorkerOwns'
    BY <1>1, <1>2, <1>3 DEF PlaybackInv, WorkerOwns, WorkerThrew
  <1>7. PlayedSoFar'
    BY <1>1, <1>3 DEF PlaybackInv, PlayedSoFar, WorkerThrew, Leaving
  <1>8. FailureKnown'
    BY <1>1, <1>3 DEF PlaybackInv, FailureKnown, WorkerThrew, Leaving, CommandOrder
  <1>9. EndedMeansPlayed'
    BY <1>1 DEF PlaybackInv, EndedMeansPlayed, LeavesForReason
  <1>10. QED
    BY <1>4, <1>5, <1>6, <1>7, <1>8, <1>9 DEF PlaybackInv

LEMMA PublishSourceKeepsInv ==
  ASSUME PlaybackInv, PublishSource
  PROVE  PlaybackInv'
  <1>1. /\ w.pc = "publish"
        /\ UNCHANGED <<mon, segment, sources, opened, line, ui, canceller, faults,
                       uncleaned>>
    BY DEF PublishSource
  <1>2. \/ mon.close /\ UNCHANGED cancellable /\ WorkerAt("abandon")
        \/ cancellable' = w.src /\ WorkerAt("skip")
    BY WorkerGoes DEF PlaybackInv, PublishSource, WorkerPCs
  <1>3. TypeOK'
    BY <1>1, <1>2 DEF PlaybackInv, TypeOK, WorkerAt, Worker
  <1>4. CommandOrder' /\ RequestKept' /\ LeavesForReason'
    BY <1>1, <1>2 DEF PlaybackInv, CommandOrder, RequestKept, LeavesForReason, Terminal, WorkerAt,
        Leaving
  <1>5. WorkerOwns' /\ PlayedSoFar'
    BY <1>1, <1>2 DEF PlaybackInv, WorkerOwns, PlayedSoFar, WorkerAt, Leaving
  <1>6. FailureKnown' /\ EndedMeansPlayed'
    BY <1>1, <1>2 DEF PlaybackInv, FailureKnown, EndedMeansPlayed, WorkerAt, Leaving,
        LeavesForReason, CommandOrder
  <1>7. QED
    BY <1>3, <1>4, <1>5, <1>6 DEF PlaybackInv

\* The worker reads on to its target unless a newer command is there.
LEMMA SkipFramesKeepsInv ==
  ASSUME PlaybackInv, SkipFrames
  PROVE  PlaybackInv'
  <1>1. /\ w.pc = "skip"
        /\ UNCHANGED <<mon, cancellable, sources, opened, line, ui, canceller, uncleaned>>
    BY DEF SkipFrames
  <1>2. \/ Superseded /\ UNCHANGED <<segment, faults>> /\ WorkerAt("superseded")
        \/ /\ w.pos = w.target /\ segment' = [start |-> w.pos, written |-> 0] /\ UNCHANGED faults
           /\ WorkerAt("top")
        \/ /\ w' \in Worker /\ w'.pc = "skip" /\ w'.src = w.src /\ w'.target = w.target
           /\ w'.revision = w.revision /\ w'.failed = w.failed /\ w'.cleanup = w.cleanup
           /\ w'.opening = w.opening /\ w'.natural = w.natural
           /\ UNCHANGED <<segment, faults>>
        \/ UNCHANGED segment /\ faults' \in Nat /\ WorkerAt("abandon")
    <2>1. CASE Superseded /\ Goes("superseded") /\ UNCHANGED <<segment, faults>>
      BY <2>1, WorkerGoes DEF PlaybackInv, WorkerPCs
    <2>2. CASE /\ w.pos = w.target /\ segment' = [start |-> w.pos, written |-> 0] /\ Goes("top")
               /\ UNCHANGED faults
      BY <2>2, WorkerGoes DEF PlaybackInv, WorkerPCs
    <2>3. CASE w' = [w EXCEPT !.pos = @ + 1] /\ UNCHANGED <<segment, faults>>
      <3>1. w \in Worker
        BY DEF PlaybackInv, TypeOK
      <3>2. QED
        BY <1>1, <2>3, <3>1 DEF Worker
    <2>4. CASE (Fault \/ UNCHANGED faults) /\ Goes("abandon") /\ UNCHANGED segment
      BY <2>4, WorkerGoes, FaultIsCounted DEF PlaybackInv, WorkerPCs
    <2>5. QED
      BY <2>1, <2>2, <2>3, <2>4 DEF SkipFrames
  <1>3. w.target \in Frames /\ Frames \subseteq Nat
    BY <1>1, PlaybackAssumption DEF PlaybackInv, RequestKept, TypeOK, Worker, Frames
  <1>4. TypeOK'
    BY <1>1, <1>2, <1>3 DEF PlaybackInv, TypeOK, WorkerAt
  <1>5. CommandOrder' /\ LeavesForReason'
    BY <1>1, <1>2 DEF PlaybackInv, CommandOrder, LeavesForReason, WorkerAt, Leaving, Terminal
  <1>6. RequestKept'
    BY <1>1, <1>2 DEF PlaybackInv, RequestKept, WorkerAt, Superseded
  <1>7. WorkerOwns'
    BY <1>1, <1>2 DEF PlaybackInv, WorkerOwns, WorkerAt
  <1>8. PlayedSoFar'
    <2>1. CASE w.pos = w.target /\ segment' = [start |-> w.pos, written |-> 0] /\ WorkerAt("top")
      <3>1. segment'.start = w.pos /\ segment'.written = 0 /\ w.pos \in Nat /\ w.pos \in Frames
        BY <1>3, <2>1
      <3>2. segment'.start + segment'.written = w.pos
        BY <3>1
      <3>3. QED
        BY <1>1, <2>1, <3>1, <3>2 DEF PlaybackInv, PlayedSoFar, WorkerAt, Leaving
    <2>2. CASE UNCHANGED segment /\ w'.pc \in {"superseded", "skip", "abandon"} /\ w'.natural = w.natural
      BY <1>1, <2>2 DEF PlaybackInv, PlayedSoFar, Leaving
    <2>3. QED
      BY <1>2, <2>1, <2>2 DEF WorkerAt
  <1>9. FailureKnown'
    BY <1>1, <1>2 DEF PlaybackInv, FailureKnown, WorkerAt, Leaving, CommandOrder
  <1>10. EndedMeansPlayed'
    BY <1>1 DEF PlaybackInv, EndedMeansPlayed, LeavesForReason
  <1>11. QED
    BY <1>4, <1>5, <1>6, <1>7, <1>8, <1>9, <1>10 DEF PlaybackInv

LEMMA AbandonSourceKeepsInv ==
  ASSUME PlaybackInv, AbandonSource
  PROVE  PlaybackInv'
  <1>1. /\ w.pc \in {"abandon", "superseded"}
        /\ cancellable' = IF cancellable = w.src THEN None ELSE cancellable
        /\ UNCHANGED <<mon, segment, sources, line, ui, canceller>>
    BY DEF AbandonSource
  <1>2. PICK fails \in BOOLEAN :
          /\ CloseSource(w.src, fails)
          /\ w' = [w EXCEPT !.src = None, !.opening = @ \/ fails,
                     !.pc = IF w.pc = "superseded" /\ ~fails THEN "take" ELSE "cleanup",
                     !.failed = w.pc = "abandon" \/ fails]
    BY DEF AbandonSource
  <1>3. /\ opened' = {} /\ faults' \in Nat
        /\ uncleaned' = (uncleaned \/ fails) /\ uncleaned' \in BOOLEAN
    BY <1>2, SourceCloses DEF PlaybackInv, WorkerOwns
  <1>4. PICK pc \in {"take", "cleanup"}, failed \in BOOLEAN, opening \in BOOLEAN :
          /\ w' = [w EXCEPT !.src = None, !.opening = opening, !.pc = pc, !.failed = failed]
          /\ opening = (w.opening \/ fails)
          /\ pc = "take" => w.pc = "superseded" /\ ~fails
          /\ pc = "cleanup" => failed
    BY <1>1, <1>2 DEF PlaybackInv, TypeOK, Worker
  <1>5. /\ w' \in Worker /\ w'.pc = pc /\ w'.src = None /\ w'.target = w.target
        /\ w'.revision = w.revision /\ w'.pos = w.pos /\ w'.failed = failed /\ w'.cleanup = w.cleanup
        /\ w'.opening = opening /\ w'.natural = w.natural
    <2>1. w \in Worker /\ pc \in WorkerPCs
      BY DEF PlaybackInv, TypeOK, WorkerPCs, Leaving
    <2>2. w' \in Worker
      BY <1>4, <2>1 DEF Worker
    <2>3. QED
      BY <1>4, <2>1, <2>2 DEF Worker
  <1>6. TypeOK'
    <2>1. cancellable' \in Nat \cup {None} /\ opened' \in SUBSET Nat
      BY <1>1, <1>3 DEF PlaybackInv, TypeOK
    <2>2. QED
      BY <1>1, <1>3, <1>5, <2>1 DEF PlaybackInv, TypeOK
  <1>7. CommandOrder' /\ RequestKept'
    BY <1>1, <1>4, <1>5 DEF PlaybackInv, CommandOrder, RequestKept
  <1>8. LeavesForReason'
    BY <1>1, <1>4, <1>5 DEF PlaybackInv, LeavesForReason, Leaving, Terminal
  <1>9. WorkerOwns'
    BY <1>1, <1>3, <1>4, <1>5 DEF PlaybackInv, WorkerOwns
  <1>10. PlayedSoFar'
    BY <1>1, <1>4, <1>5 DEF PlaybackInv, PlayedSoFar, Leaving
  <1>11. FailureKnown'
    BY <1>1, <1>3, <1>4, <1>5 DEF PlaybackInv, FailureKnown, Leaving, CommandOrder
  <1>12. EndedMeansPlayed'
    BY <1>1 DEF PlaybackInv, EndedMeansPlayed, LeavesForReason
  <1>13. QED
    BY <1>6, <1>7, <1>8, <1>9, <1>10, <1>11, <1>12 DEF PlaybackInv

LEMMA TopOfLoopKeepsInv ==
  ASSUME PlaybackInv, TopOfLoop
  PROVE  PlaybackInv'
  <1>1. /\ w.pc = "top"
        /\ UNCHANGED <<segment, cancellable, sources, opened, line, ui, canceller, faults,
                       uncleaned>>
    BY DEF TopOfLoop
  <1>2. \/ mon.close /\ UNCHANGED mon /\ WorkerAt("cleanup")
        \/ ~mon.close /\ mon.seek # None /\ UNCHANGED mon /\ WorkerAt("reopen")
        \/ ~mon.close /\ mon.seek = None /\ MonitorAt("PAUSED") /\ WorkerAt("pausing")
        \/ ~mon.close /\ mon.seek = None /\ MonitorAt("PLAYING") /\ WorkerAt("reading")
    <2>1. \A state \in States : mon' = [mon EXCEPT !.state = state] => MonitorAt(state)
      BY DEF PlaybackInv, TypeOK, Monitor, MonitorAt
    <2>2. QED
      BY <2>1, WorkerGoes DEF PlaybackInv, TopOfLoop, WorkerPCs, Leaving, States
  <1>3. TypeOK'
    BY <1>1, <1>2 DEF PlaybackInv, TypeOK, WorkerAt, MonitorAt
  <1>4. CommandOrder' /\ RequestKept'
    BY <1>1, <1>2 DEF PlaybackInv, CommandOrder, RequestKept, Terminal, WorkerAt,
        MonitorAt
  <1>5. LeavesForReason'
    BY <1>1, <1>2 DEF PlaybackInv, LeavesForReason, WorkerAt, MonitorAt, Leaving, Terminal
  <1>6. WorkerOwns' /\ PlayedSoFar'
    BY <1>1, <1>2 DEF PlaybackInv, WorkerOwns, PlayedSoFar, WorkerAt, MonitorAt, Leaving
  <1>7. FailureKnown'
    BY <1>1, <1>2 DEF PlaybackInv, FailureKnown, WorkerAt, MonitorAt, Leaving, CommandOrder
  <1>8. EndedMeansPlayed'
    BY <1>1, <1>2 DEF PlaybackInv, EndedMeansPlayed, MonitorAt, LeavesForReason
  <1>9. QED
    BY <1>3, <1>4, <1>5, <1>6, <1>7, <1>8 DEF PlaybackInv

LEMMA CloseOldSourceKeepsInv ==
  ASSUME PlaybackInv, CloseOldSource
  PROVE  PlaybackInv'
  <1>1. w.pc = "reopen" /\ UNCHANGED <<mon, segment, sources, ui, canceller>>
    BY DEF CloseOldSource
  <1>2. PICK fails \in BOOLEAN :
          /\ CloseSource(w.src, fails)
          /\ IF fails
               THEN w' = [w EXCEPT !.pc = "cleanup", !.cleanup = TRUE, !.failed = TRUE]
                    /\ UNCHANGED cancellable
               ELSE w' = [w EXCEPT !.pc = "take", !.src = None] /\ cancellable' = None
    BY DEF CloseOldSource
  <1>3. /\ opened' = {} /\ faults' \in Nat
        /\ uncleaned' = (uncleaned \/ fails) /\ uncleaned' \in BOOLEAN
    BY <1>2, SourceCloses DEF PlaybackInv, WorkerOwns
  <1>4. /\ line' \in [open : BOOLEAN, queued : Nat, discarded : Nat]
        /\ line'.open = line.open /\ line'.discarded = 0
    BY DEF PlaybackInv, TypeOK, CloseOldSource
  <1>5. /\ w' \in Worker /\ w'.revision = w.revision /\ w'.opening = w.opening
        /\ w'.natural = w.natural /\ cancellable' \in Nat \cup {None}
        /\ \/ fails /\ w'.pc = "cleanup" /\ w'.cleanup
           \/ ~fails /\ w'.pc = "take" /\ w'.src = None /\ w'.cleanup = w.cleanup
    <2>1. w \in Worker /\ cancellable \in Nat \cup {None}
      BY DEF PlaybackInv, TypeOK
    <2>2. CASE fails
      <3>1. w' = [w EXCEPT !.pc = "cleanup", !.cleanup = TRUE, !.failed = TRUE] /\ UNCHANGED cancellable
        BY <1>2, <2>2
      <3>2. QED
        BY <2>1, <2>2, <3>1 DEF Worker, WorkerPCs, Leaving
    <2>3. CASE ~fails
      <3>1. w' = [w EXCEPT !.pc = "take", !.src = None] /\ cancellable' = None
        BY <1>2, <2>3
      <3>2. QED
        BY <2>1, <2>3, <3>1 DEF Worker, WorkerPCs, Leaving
    <2>4. QED
      BY <2>2, <2>3
  <1>6. TypeOK'
    BY <1>1, <1>3, <1>4, <1>5 DEF PlaybackInv, TypeOK
  <1>7. CommandOrder' /\ RequestKept'
    BY <1>1, <1>5 DEF PlaybackInv, CommandOrder, RequestKept
  <1>8. LeavesForReason'
    BY <1>1, <1>5 DEF PlaybackInv, LeavesForReason, Leaving, Terminal
  <1>9. WorkerOwns'
    BY <1>1, <1>3, <1>4, <1>5 DEF PlaybackInv, WorkerOwns
  <1>10. PlayedSoFar'
    BY <1>1, <1>4, <1>5 DEF PlaybackInv, PlayedSoFar, Leaving
  <1>11. FailureKnown'
    BY <1>1, <1>3, <1>5 DEF PlaybackInv, FailureKnown, Leaving, CommandOrder
  <1>12. EndedMeansPlayed'
    BY <1>1 DEF PlaybackInv, EndedMeansPlayed, LeavesForReason
  <1>13. QED
    BY <1>6, <1>7, <1>8, <1>9, <1>10, <1>11, <1>12 DEF PlaybackInv

LEMMA LineControlFailsKeepsInv ==
  ASSUME PlaybackInv, LineControlFails
  PROVE  PlaybackInv'
  <1>1. /\ w.pc \in {"reopen", "reading", "pausing", "draining"}
        /\ UNCHANGED <<mon, segment, cancellable, sources, opened, line, ui, canceller,
                       uncleaned>>
    BY DEF LineControlFails
  <1>2. WorkerThrew /\ faults' \in Nat
    BY WorkerThrows, FaultIsCounted DEF PlaybackInv, LineControlFails
  <1>3. TypeOK'
    BY <1>1, <1>2 DEF PlaybackInv, TypeOK, WorkerThrew
  <1>4. CommandOrder' /\ RequestKept' /\ LeavesForReason'
    BY <1>1, <1>2 DEF PlaybackInv, CommandOrder, RequestKept, LeavesForReason, WorkerThrew, Leaving,
        Terminal
  <1>5. WorkerOwns' /\ PlayedSoFar'
    BY <1>1, <1>2 DEF PlaybackInv, WorkerOwns, PlayedSoFar, WorkerThrew, Leaving
  <1>6. FailureKnown'
    BY <1>1, <1>2 DEF PlaybackInv, FailureKnown, WorkerThrew, Leaving, CommandOrder
  <1>7. EndedMeansPlayed'
    BY <1>1 DEF PlaybackInv, EndedMeansPlayed, LeavesForReason
  <1>8. QED
    BY <1>3, <1>4, <1>5, <1>6, <1>7 DEF PlaybackInv

LEMMA StopForPauseKeepsInv ==
  ASSUME PlaybackInv, StopForPause
  PROVE  PlaybackInv'
  <1>1. /\ w.pc = "pausing"
        /\ UNCHANGED <<mon, segment, cancellable, sources, opened, line, ui, canceller,
                       faults, uncleaned>>
    BY DEF StopForPause
  <1>2. WorkerAt("waiting")
    BY WorkerGoes DEF PlaybackInv, StopForPause, WorkerPCs, Leaving, Goes
  <1>3. TypeOK'
    BY <1>1, <1>2 DEF PlaybackInv, TypeOK, WorkerAt
  <1>4. CommandOrder' /\ RequestKept' /\ LeavesForReason'
    BY <1>1, <1>2 DEF PlaybackInv, CommandOrder, RequestKept, LeavesForReason, Terminal, WorkerAt,
        Leaving
  <1>5. WorkerOwns' /\ PlayedSoFar'
    BY <1>1, <1>2 DEF PlaybackInv, WorkerOwns, PlayedSoFar, WorkerAt, Leaving
  <1>6. FailureKnown' /\ EndedMeansPlayed'
    BY <1>1, <1>2 DEF PlaybackInv, FailureKnown, EndedMeansPlayed, WorkerAt, Leaving,
        LeavesForReason, CommandOrder
  <1>7. QED
    BY <1>3, <1>4, <1>5, <1>6 DEF PlaybackInv

LEMMA WaitKeepsInv ==
  ASSUME PlaybackInv, Wait
  PROVE  PlaybackInv'
  <1>1. /\ w.pc = "waiting"
        /\ UNCHANGED <<mon, segment, cancellable, sources, opened, line, ui, canceller,
                       faults, uncleaned>>
    BY DEF Wait
  <1>2. WorkerAt("top")
    BY WorkerGoes DEF PlaybackInv, Wait, WorkerPCs, Leaving, Goes
  <1>3. TypeOK'
    BY <1>1, <1>2 DEF PlaybackInv, TypeOK, WorkerAt
  <1>4. CommandOrder' /\ RequestKept' /\ LeavesForReason'
    BY <1>1, <1>2 DEF PlaybackInv, CommandOrder, RequestKept, LeavesForReason, Terminal, WorkerAt,
        Leaving
  <1>5. WorkerOwns' /\ PlayedSoFar'
    BY <1>1, <1>2 DEF PlaybackInv, WorkerOwns, PlayedSoFar, WorkerAt, Leaving
  <1>6. FailureKnown' /\ EndedMeansPlayed'
    BY <1>1, <1>2 DEF PlaybackInv, FailureKnown, EndedMeansPlayed, WorkerAt, Leaving,
        LeavesForReason, CommandOrder
  <1>7. QED
    BY <1>3, <1>4, <1>5, <1>6 DEF PlaybackInv

LEMMA ReadSourceKeepsInv ==
  ASSUME PlaybackInv, ReadSource
  PROVE  PlaybackInv'
  <1>1. /\ w.pc = "reading"
        /\ UNCHANGED <<mon, segment, cancellable, sources, opened, line, ui, canceller,
                       uncleaned>>
    BY DEF ReadSource
  <1>2. \/ WorkerThrew /\ faults' \in Nat
        \/ w.pos = Length /\ WorkerAt("eof") /\ UNCHANGED faults
        \/ /\ w' \in Worker /\ w'.pc = "writing" /\ w'.pos = w.pos + 1 /\ w'.src = w.src
           /\ w'.revision = w.revision /\ w'.cleanup = w.cleanup /\ w'.opening = w.opening
           /\ w'.natural = w.natural /\ UNCHANGED faults
    <2>1. CASE Throws /\ (Fault \/ UNCHANGED faults)
      BY <2>1, WorkerThrows, FaultIsCounted DEF PlaybackInv
    <2>2. CASE w.pos = Length /\ Goes("eof") /\ UNCHANGED faults
      BY <2>2, WorkerGoes DEF PlaybackInv, WorkerPCs
    <2>3. CASE w' = [w EXCEPT !.pc = "writing", !.pos = @ + 1] /\ UNCHANGED faults
      <3>1. w \in Worker /\ w.pos + 1 \in Nat
        BY DEF PlaybackInv, TypeOK, Worker
      <3>2. w' = [w EXCEPT !.pc = "writing", !.pos = w.pos + 1]
        BY <2>3
      <3>3. w' \in Worker
        BY <3>1, <3>2 DEF Worker, WorkerPCs
      <3>4. QED
        BY <2>3, <3>1, <3>2, <3>3 DEF Worker
    <2>4. QED
      BY <2>1, <2>2, <2>3 DEF ReadSource
  <1>3. TypeOK'
    BY <1>1, <1>2 DEF PlaybackInv, TypeOK, WorkerThrew, WorkerAt
  <1>4. CommandOrder' /\ RequestKept' /\ LeavesForReason'
    BY <1>1, <1>2 DEF PlaybackInv, CommandOrder, RequestKept, LeavesForReason, WorkerThrew,
        WorkerAt, Leaving, Terminal
  <1>5. WorkerOwns'
    BY <1>1, <1>2 DEF PlaybackInv, WorkerOwns, WorkerThrew, WorkerAt
  <1>6. PlayedSoFar'
    BY <1>1, <1>2 DEF PlaybackInv, PlayedSoFar, TypeOK, WorkerThrew, WorkerAt, Leaving, Frames
  <1>7. FailureKnown'
    BY <1>1, <1>2 DEF PlaybackInv, FailureKnown, WorkerThrew, WorkerAt, Leaving, CommandOrder
  <1>8. EndedMeansPlayed'
    BY <1>1 DEF PlaybackInv, EndedMeansPlayed, LeavesForReason
  <1>9. QED
    BY <1>3, <1>4, <1>5, <1>6, <1>7, <1>8 DEF PlaybackInv

LEMMA WriteLineKeepsInv ==
  ASSUME PlaybackInv, WriteLine
  PROVE  PlaybackInv'
  <1>1. /\ w.pc = "writing"
        /\ UNCHANGED <<mon, segment, cancellable, sources, opened, ui, canceller,
                       uncleaned>>
    BY DEF WriteLine
  <1>2. \/ WorkerThrew /\ faults' \in Nat /\ UNCHANGED line
        \/ /\ WorkerAt("written") /\ UNCHANGED faults
           /\ line' \in [open : BOOLEAN, queued : Nat, discarded : Nat]
           /\ line'.open = line.open /\ line'.discarded = line.discarded
    <2>1. CASE Throws /\ (Fault \/ UNCHANGED faults) /\ UNCHANGED line
      BY <2>1, WorkerThrows, FaultIsCounted DEF PlaybackInv
    <2>2. CASE Goes("written") /\ UNCHANGED faults /\ line' = [line EXCEPT !.queued = @ + 1]
      <3>1. WorkerAt("written")
        BY <2>2, WorkerGoes DEF PlaybackInv, WorkerPCs
      <3>2. /\ line' \in [open : BOOLEAN, queued : Nat, discarded : Nat]
            /\ line'.open = line.open /\ line'.discarded = line.discarded
        BY <2>2 DEF PlaybackInv, TypeOK
      <3>3. QED
        BY <2>2, <3>1, <3>2
    <2>3. QED
      BY <2>1, <2>2 DEF WriteLine
  <1>3. TypeOK'
    BY <1>1, <1>2 DEF PlaybackInv, TypeOK, WorkerThrew, WorkerAt
  <1>4. CommandOrder' /\ RequestKept' /\ LeavesForReason'
    BY <1>1, <1>2 DEF PlaybackInv, CommandOrder, RequestKept, LeavesForReason, WorkerThrew,
        WorkerAt, Leaving, Terminal
  <1>5. WorkerOwns'
    BY <1>1, <1>2 DEF PlaybackInv, WorkerOwns, WorkerThrew, WorkerAt
  <1>6. PlayedSoFar'
    BY <1>1, <1>2 DEF PlaybackInv, PlayedSoFar, WorkerThrew, WorkerAt, Leaving
  <1>7. FailureKnown'
    BY <1>1, <1>2 DEF PlaybackInv, FailureKnown, WorkerThrew, WorkerAt, Leaving, CommandOrder
  <1>8. EndedMeansPlayed'
    BY <1>1 DEF PlaybackInv, EndedMeansPlayed, LeavesForReason
  <1>9. QED
    BY <1>3, <1>4, <1>5, <1>6, <1>7, <1>8 DEF PlaybackInv

LEMMA CountWrittenKeepsInv ==
  ASSUME PlaybackInv, CountWritten
  PROVE  PlaybackInv'
  <1>1. /\ w.pc = "written"
        /\ UNCHANGED <<mon, cancellable, sources, opened, line, ui, canceller, faults,
                       uncleaned>>
    BY DEF CountWritten
  <1>2. WorkerAt("top")
    BY WorkerGoes DEF PlaybackInv, CountWritten, WorkerPCs, Leaving, Goes
  <1>3. /\ segment' \in [start : Frames \cup {None}, written : Nat]
        /\ segment'.start = segment.start /\ segment'.written = segment.written + 1
    BY DEF PlaybackInv, TypeOK, CountWritten
  <1>4. TypeOK'
    BY <1>1, <1>2, <1>3 DEF PlaybackInv, TypeOK, WorkerAt
  <1>5. CommandOrder' /\ RequestKept' /\ LeavesForReason'
    BY <1>1, <1>2 DEF PlaybackInv, CommandOrder, RequestKept, LeavesForReason, WorkerAt, Leaving,
        Terminal
  <1>6. WorkerOwns'
    BY <1>1, <1>2 DEF PlaybackInv, WorkerOwns, WorkerAt
  <1>7. PlayedSoFar'
    <2>1. segment.start \in Frames /\ segment.start + segment.written + 1 = w.pos
      BY <1>1 DEF PlaybackInv, PlayedSoFar
    <2>2. segment.start \in Nat /\ segment.written \in Nat
      BY <2>1 DEF Frames, PlaybackInv, TypeOK
    <2>3. segment.start + (segment.written + 1) = segment.start + segment.written + 1
      BY <2>2
    <2>4. segment'.start + segment'.written = w.pos
      BY <1>3, <2>1, <2>3
    <2>5. QED
      BY <1>1, <1>2, <1>3, <2>1, <2>4 DEF PlaybackInv, PlayedSoFar, WorkerAt, Leaving
  <1>8. FailureKnown'
    BY <1>1, <1>2 DEF PlaybackInv, FailureKnown, WorkerAt, Leaving, CommandOrder
  <1>9. EndedMeansPlayed'
    BY <1>1 DEF PlaybackInv, EndedMeansPlayed, LeavesForReason
  <1>10. QED
    BY <1>4, <1>5, <1>6, <1>7, <1>8, <1>9 DEF PlaybackInv

LEMMA AtEndKeepsInv ==
  ASSUME PlaybackInv, AtEnd
  PROVE  PlaybackInv'
  <1>1. /\ w.pc = "eof"
        /\ UNCHANGED <<segment, cancellable, sources, opened, line, ui, canceller, faults,
                       uncleaned>>
    BY DEF AtEnd
  <1>2. \/ mon.close /\ UNCHANGED mon /\ WorkerAt("cleanup")
        \/ ~mon.close /\ UNCHANGED mon /\ WorkerAt("top")
        \/ ~mon.close /\ mon.seek = None /\ MonitorAt("PAUSED") /\ WorkerAt("pausing")
        \/ ~mon.close /\ mon.seek = None /\ MonitorAt("DRAINING") /\ WorkerAt("draining")
    <2>1. \A state \in States : mon' = [mon EXCEPT !.state = state] => MonitorAt(state)
      BY DEF PlaybackInv, TypeOK, Monitor, MonitorAt
    <2>2. QED
      BY <2>1, WorkerGoes DEF PlaybackInv, AtEnd, WorkerPCs, Leaving, States
  <1>3. TypeOK'
    BY <1>1, <1>2 DEF PlaybackInv, TypeOK, WorkerAt, MonitorAt
  <1>4. CommandOrder' /\ RequestKept'
    BY <1>1, <1>2 DEF PlaybackInv, CommandOrder, RequestKept, Terminal, WorkerAt,
        MonitorAt
  <1>5. LeavesForReason'
    BY <1>1, <1>2 DEF PlaybackInv, LeavesForReason, WorkerAt, MonitorAt, Leaving, Terminal
  <1>6. WorkerOwns' /\ PlayedSoFar'
    BY <1>1, <1>2 DEF PlaybackInv, WorkerOwns, PlayedSoFar, WorkerAt, MonitorAt, Leaving
  <1>7. FailureKnown'
    BY <1>1, <1>2 DEF PlaybackInv, FailureKnown, WorkerAt, MonitorAt, Leaving, CommandOrder
  <1>8. EndedMeansPlayed'
    BY <1>1, <1>2 DEF PlaybackInv, EndedMeansPlayed, MonitorAt, LeavesForReason
  <1>9. QED
    BY <1>3, <1>4, <1>5, <1>6, <1>7, <1>8 DEF PlaybackInv

\* The drain of an open line is over when nothing is queued.
LEMMA DrainLineKeepsInv ==
  ASSUME PlaybackInv, DrainLine
  PROVE  PlaybackInv'
  <1>1. /\ w.pc = "draining" /\ (line.queued = 0 \/ ~line.open)
        /\ UNCHANGED <<mon, segment, cancellable, sources, opened, line, ui, canceller,
                       faults, uncleaned>>
    BY DEF DrainLine
  <1>2. WorkerAt("drained")
    BY WorkerGoes DEF PlaybackInv, DrainLine, WorkerPCs, Leaving, Goes
  <1>3. TypeOK'
    BY <1>1, <1>2 DEF PlaybackInv, TypeOK, WorkerAt
  <1>4. CommandOrder' /\ RequestKept' /\ LeavesForReason'
    BY <1>1, <1>2 DEF PlaybackInv, CommandOrder, RequestKept, LeavesForReason, Terminal, WorkerAt,
        Leaving
  <1>5. WorkerOwns' /\ PlayedSoFar'
    BY <1>1, <1>2 DEF PlaybackInv, WorkerOwns, PlayedSoFar, WorkerAt, Leaving
  <1>6. FailureKnown' /\ EndedMeansPlayed'
    BY <1>1, <1>2 DEF PlaybackInv, FailureKnown, EndedMeansPlayed, WorkerAt, Leaving,
        LeavesForReason, CommandOrder
  <1>7. QED
    BY <1>3, <1>4, <1>5, <1>6 DEF PlaybackInv

LEMMA AfterDrainKeepsInv ==
  ASSUME PlaybackInv, AfterDrain
  PROVE  PlaybackInv'
  <1>1. /\ w.pc = "drained"
        /\ UNCHANGED <<mon, segment, cancellable, sources, opened, line, ui, canceller,
                       faults, uncleaned>>
    BY DEF AfterDrain
  <1>2. \/ mon.close /\ WorkerAt("cleanup")
        \/ WorkerAt("top")
        \/ /\ w' \in Worker /\ w'.pc = "cleanup" /\ w'.natural /\ w'.src = w.src /\ w'.pos = w.pos
           /\ w'.revision = w.revision /\ w'.cleanup = w.cleanup /\ w'.opening = w.opening
    <2>1. CASE mon.close /\ Goes("cleanup")
      BY <2>1, WorkerGoes DEF PlaybackInv, WorkerPCs, Leaving
    <2>2. CASE Goes("top")
      BY <2>2, WorkerGoes DEF PlaybackInv, WorkerPCs, Leaving
    <2>3. CASE w' = [w EXCEPT !.pc = "cleanup", !.natural = TRUE]
      BY <2>3 DEF PlaybackInv, TypeOK, Worker, WorkerPCs, Leaving
    <2>4. QED
      BY <2>1, <2>2, <2>3 DEF AfterDrain
  <1>3. TypeOK'
    BY <1>1, <1>2 DEF PlaybackInv, TypeOK, WorkerAt
  <1>4. CommandOrder' /\ RequestKept' /\ LeavesForReason'
    BY <1>1, <1>2 DEF PlaybackInv, CommandOrder, RequestKept, LeavesForReason, WorkerAt, Leaving,
        Terminal
  <1>5. WorkerOwns'
    BY <1>1, <1>2 DEF PlaybackInv, WorkerOwns, WorkerAt
  <1>6. PlayedSoFar'
    BY <1>1, <1>2 DEF PlaybackInv, PlayedSoFar, WorkerAt, Leaving
  <1>7. FailureKnown'
    BY <1>1, <1>2 DEF PlaybackInv, FailureKnown, WorkerAt, Leaving, CommandOrder
  <1>8. EndedMeansPlayed'
    BY <1>1 DEF PlaybackInv, EndedMeansPlayed, LeavesForReason
  <1>9. QED
    BY <1>3, <1>4, <1>5, <1>6, <1>7, <1>8 DEF PlaybackInv

\* The finally block closes the source it still has.
LEMMA CloseInputKeepsInv ==
  ASSUME PlaybackInv, CloseInput
  PROVE  PlaybackInv'
  <1>1. /\ w.pc = "cleanup" /\ cancellable' = None
        /\ UNCHANGED <<mon, segment, sources, line, ui, canceller>>
    BY DEF CloseInput
  <1>2. PICK fails \in BOOLEAN :
          /\ IF w.src = None THEN ~fails /\ UNCHANGED <<opened, faults, uncleaned>>
                             ELSE CloseSource(w.src, fails)
          /\ w' = [w EXCEPT !.pc = "close_line", !.cleanup = @ \/ w.opening \/ fails]
    BY DEF CloseInput
  <1>3. /\ opened' = {} /\ faults' \in Nat
        /\ uncleaned' = (uncleaned \/ fails) /\ uncleaned' \in BOOLEAN
    <2>1. CASE w.src = None
      <3>1. opened = {}
        BY <2>1, PlaybackAssumption DEF PlaybackInv, WorkerOwns, TypeOK
      <3>2. QED
        BY <1>2, <2>1, <3>1 DEF PlaybackInv, TypeOK
    <2>2. CASE w.src # None
      BY <1>2, <2>2, SourceCloses DEF PlaybackInv, WorkerOwns
    <2>3. QED
      BY <2>1, <2>2
  <1>4. PICK cleanup \in BOOLEAN :
          /\ w' = [w EXCEPT !.pc = "close_line", !.cleanup = cleanup]
          /\ cleanup = (w.cleanup \/ w.opening \/ fails)
    BY <1>2 DEF PlaybackInv, TypeOK, Worker
  <1>5. /\ w' \in Worker /\ w'.pc = "close_line" /\ w'.src = w.src /\ w'.revision = w.revision
        /\ w'.failed = w.failed /\ w'.cleanup = cleanup /\ w'.opening = w.opening
        /\ w'.natural = w.natural
    BY <1>4 DEF PlaybackInv, TypeOK, Worker, WorkerPCs, Leaving
  <1>6. TypeOK'
    BY <1>1, <1>3, <1>5 DEF PlaybackInv, TypeOK
  <1>7. CommandOrder' /\ RequestKept'
    BY <1>1, <1>5 DEF PlaybackInv, CommandOrder, RequestKept
  <1>8. LeavesForReason'
    BY <1>1, <1>4, <1>5 DEF PlaybackInv, LeavesForReason, Leaving, Terminal
  <1>9. WorkerOwns'
    BY <1>1, <1>3, <1>5 DEF PlaybackInv, WorkerOwns
  <1>10. PlayedSoFar'
    BY <1>1, <1>5 DEF PlaybackInv, PlayedSoFar, Leaving
  <1>11. FailureKnown'
    BY <1>1, <1>3, <1>4, <1>5 DEF PlaybackInv, FailureKnown, Leaving, CommandOrder
  <1>12. EndedMeansPlayed'
    BY <1>1 DEF PlaybackInv, EndedMeansPlayed, LeavesForReason
  <1>13. QED
    BY <1>6, <1>7, <1>8, <1>9, <1>10, <1>11, <1>12 DEF PlaybackInv

LEMMA CloseLineKeepsInv ==
  ASSUME PlaybackInv, CloseLine
  PROVE  PlaybackInv'
  <1>1. /\ w.pc = "close_line"
        /\ UNCHANGED <<mon, segment, cancellable, sources, opened, ui, canceller>>
    BY DEF CloseLine
  <1>2. /\ line' \in [open : BOOLEAN, queued : Nat, discarded : Nat]
        /\ ~line'.open /\ line'.discarded = line.discarded + line.queued
        /\ line.queued \in Nat /\ line.discarded \in Nat
    <2>1. line.discarded + line.queued \in Nat
      BY DEF PlaybackInv, TypeOK
    <2>2. line' = [line EXCEPT !.open = FALSE, !.queued = 0, !.discarded = line.discarded + line.queued]
      BY DEF CloseLine
    <2>3. QED
      BY <2>1, <2>2 DEF PlaybackInv, TypeOK
  <1>3. PICK fails \in BOOLEAN :
          /\ w' \in Worker /\ w'.pc = "settle" /\ w'.src = w.src /\ w'.revision = w.revision
          /\ w'.failed = w.failed /\ w'.cleanup = (w.cleanup \/ fails) /\ w'.opening = w.opening
          /\ w'.natural = w.natural /\ faults' \in Nat
          /\ uncleaned' = (uncleaned \/ fails) /\ uncleaned' \in BOOLEAN
    <2>1. CASE Goes("settle") /\ UNCHANGED <<faults, uncleaned>>
      <3>1. WorkerAt("settle")
        BY <2>1, WorkerGoes DEF PlaybackInv, WorkerPCs, Leaving
      <3>2. w.cleanup \in BOOLEAN /\ uncleaned \in BOOLEAN /\ faults \in Nat
        BY DEF PlaybackInv, TypeOK, Worker
      <3>3. w'.cleanup = (w.cleanup \/ FALSE) /\ uncleaned' = (uncleaned \/ FALSE)
        BY <2>1, <3>1, <3>2 DEF WorkerAt
      <3>4. QED
        BY <2>1, <3>1, <3>2, <3>3 DEF WorkerAt
    <2>2. CASE Fault /\ uncleaned' = TRUE /\ w' = [w EXCEPT !.pc = "settle", !.cleanup = TRUE]
      <3>1. faults' \in Nat
        BY <2>2, FaultIsCounted DEF PlaybackInv
      <3>2. /\ w' \in Worker /\ w'.pc = "settle" /\ w'.src = w.src /\ w'.revision = w.revision
            /\ w'.failed = w.failed /\ w'.cleanup = TRUE /\ w'.opening = w.opening
            /\ w'.natural = w.natural
        BY <2>2 DEF PlaybackInv, TypeOK, Worker, WorkerPCs, Leaving
      <3>3. w'.cleanup = (w.cleanup \/ TRUE) /\ uncleaned' = (uncleaned \/ TRUE)
        BY <2>2, <3>2
      <3>4. QED
        BY <2>2, <3>1, <3>2, <3>3
    <2>3. QED
      BY <2>1, <2>2 DEF CloseLine
  <1>4. TypeOK'
    BY <1>1, <1>2, <1>3 DEF PlaybackInv, TypeOK
  <1>5. CommandOrder' /\ RequestKept'
    BY <1>1, <1>3 DEF PlaybackInv, CommandOrder, RequestKept
  <1>6. LeavesForReason'
    BY <1>1, <1>3 DEF PlaybackInv, LeavesForReason, Leaving, Terminal
  <1>7. WorkerOwns'
    BY <1>1, <1>2, <1>3 DEF PlaybackInv, WorkerOwns
  <1>8. PlayedSoFar'
    BY <1>1, <1>2, <1>3 DEF PlaybackInv, PlayedSoFar, Leaving
  <1>9. FailureKnown'
    BY <1>1, <1>3 DEF PlaybackInv, FailureKnown, Leaving, CommandOrder
  <1>10. EndedMeansPlayed'
    BY <1>1 DEF PlaybackInv, EndedMeansPlayed, LeavesForReason
  <1>11. QED
    BY <1>4, <1>5, <1>6, <1>7, <1>8, <1>9, <1>10 DEF PlaybackInv

\* The worker says how it ended: ENDED only when all was played and released.
LEMMA SettleKeepsInv ==
  ASSUME PlaybackInv, Settle
  PROVE  PlaybackInv'
  <1>1. /\ w.pc = "settle"
        /\ UNCHANGED <<segment, cancellable, sources, opened, line, ui, canceller, faults,
                       uncleaned>>
    BY DEF Settle
  <1>2. WorkerAt("dead")
    BY WorkerGoes DEF PlaybackInv, Settle, WorkerPCs, Leaving, Goes
  <1>3. /\ mon' \in Monitor /\ mon'.close = mon.close /\ mon'.seek = mon.seek /\ mon'.revision = mon.revision
        /\ \/ /\ mon.close /\ mon'.state = mon.state /\ mon'.failure = mon.failure
              /\ mon'.shutdown = (mon.shutdown \/ w.cleanup)
           \/ ~mon.close /\ mon'.state = "FAILED" /\ mon'.failure
           \/ /\ ~mon.close /\ ~w.failed /\ ~w.cleanup /\ w.natural /\ mon'.state = "ENDED"
              /\ mon'.failure = mon.failure
    <2>1. mon \in Monitor /\ w \in Worker
      BY DEF PlaybackInv, TypeOK
    <2>2. CASE mon.close
      <3>1. PICK shutdown \in BOOLEAN :
              mon' = [mon EXCEPT !.shutdown = shutdown] /\ shutdown = (mon.shutdown \/ w.cleanup)
        BY <2>1, <2>2 DEF Settle, Monitor, Worker
      <3>2. QED
        BY <2>1, <2>2, <3>1 DEF Monitor
    <2>3. CASE ~mon.close /\ (w.failed \/ w.cleanup)
      <3>1. mon' = [mon EXCEPT !.state = "FAILED", !.failure = TRUE]
        BY <2>3 DEF Settle
      <3>2. QED
        BY <2>1, <2>3, <3>1 DEF Monitor, States
    <2>4. CASE ~mon.close /\ ~w.failed /\ ~w.cleanup
      <3>1. w.natural
        BY <1>1, <2>4 DEF PlaybackInv, LeavesForReason, Leaving
      <3>2. mon' = [mon EXCEPT !.state = "ENDED"]
        BY <2>4, <3>1 DEF Settle
      <3>3. QED
        BY <2>1, <2>4, <3>1, <3>2 DEF Monitor, States
    <2>5. QED
      BY <2>2, <2>3, <2>4
  <1>4. TypeOK'
    BY <1>1, <1>2, <1>3 DEF PlaybackInv, TypeOK, WorkerAt
  <1>5. CommandOrder' /\ RequestKept'
    BY <1>1, <1>2, <1>3 DEF PlaybackInv, CommandOrder, RequestKept, Terminal,
        WorkerAt
  <1>6. LeavesForReason'
    BY <1>1, <1>2, <1>3 DEF PlaybackInv, LeavesForReason, Leaving, Terminal, WorkerAt
  <1>7. WorkerOwns'
    BY <1>1, <1>2, <1>3 DEF PlaybackInv, WorkerOwns, WorkerAt
  <1>8. PlayedSoFar'
    BY <1>1, <1>2, <1>3 DEF PlaybackInv, PlayedSoFar, Leaving, WorkerAt
  <1>9. FailureKnown'
    BY <1>1, <1>2, <1>3 DEF PlaybackInv, FailureKnown, Leaving, CommandOrder, WorkerAt
  <1>10. EndedMeansPlayed'
    BY <1>1, <1>2, <1>3 DEF PlaybackInv, EndedMeansPlayed, LeavesForReason, PlayedSoFar, WorkerOwns,
        FailureKnown, CommandOrder, Leaving
  <1>11. QED
    BY <1>4, <1>5, <1>6, <1>7, <1>8, <1>9, <1>10 DEF PlaybackInv

LEMMA RequestCloseKeepsInv ==
  ASSUME PlaybackInv, RequestClose
  PROVE  PlaybackInv'
  <1>1. /\ ui.pc = "idle" /\ mon.state # "CLOSED"
        /\ UNCHANGED <<segment, cancellable, sources, opened, line, w, canceller, faults,
                       uncleaned>>
    BY DEF RequestClose, Idle
  <1>2. /\ mon' \in Monitor /\ mon'.close /\ mon'.state = mon.state /\ mon'.seek = mon.seek
        /\ mon'.revision = mon.revision /\ mon'.failure = mon.failure /\ mon'.shutdown = mon.shutdown
    BY DEF PlaybackInv, TypeOK, RequestClose, Monitor
  <1>3. /\ ui' \in [pc : {"idle", "stop_line", "cancel", "join", "closing"}, failed : BOOLEAN, late : BOOLEAN]
        /\ ui'.pc = "stop_line" /\ ui'.failed = ui.failed
    BY DEF PlaybackInv, TypeOK, RequestClose
  <1>4. TypeOK'
    BY <1>1, <1>2, <1>3 DEF PlaybackInv, TypeOK
  <1>5. CommandOrder' /\ RequestKept' /\ LeavesForReason'
    BY <1>1, <1>2, <1>3 DEF PlaybackInv, CommandOrder, RequestKept, LeavesForReason, Terminal
  <1>6. WorkerOwns' /\ PlayedSoFar'
    BY <1>1, <1>2, <1>3 DEF PlaybackInv, WorkerOwns, PlayedSoFar
  <1>7. FailureKnown' /\ EndedMeansPlayed'
    BY <1>1, <1>2, <1>3 DEF PlaybackInv, FailureKnown, EndedMeansPlayed
  <1>8. QED
    BY <1>4, <1>5, <1>6, <1>7 DEF PlaybackInv

LEMMA StopLineKeepsInv ==
  ASSUME PlaybackInv, StopLine
  PROVE  PlaybackInv'
  <1>1. /\ ui.pc = "stop_line"
        /\ UNCHANGED <<mon, segment, cancellable, sources, opened, w, canceller>>
    BY DEF StopLine
  <1>2. /\ line' \in [open : BOOLEAN, queued : Nat, discarded : Nat] /\ ~line'.open
    <2>1. line.discarded + line.queued \in Nat
      BY DEF PlaybackInv, TypeOK
    <2>2. line' = [line EXCEPT !.open = FALSE, !.queued = 0, !.discarded = line.discarded + line.queued]
      BY DEF StopLine
    <2>3. QED
      BY <2>1, <2>2 DEF PlaybackInv, TypeOK
  <1>3. /\ ui' \in [pc : {"idle", "stop_line", "cancel", "join", "closing"}, failed : BOOLEAN, late : BOOLEAN]
        /\ ui'.pc = "cancel" /\ faults' \in Nat /\ uncleaned' \in BOOLEAN
        /\ \/ ui'.failed = ui.failed /\ UNCHANGED uncleaned
           \/ ui'.failed
    <2>1. CASE ui' = [ui EXCEPT !.pc = "cancel"] /\ UNCHANGED <<faults, uncleaned>>
      BY <2>1 DEF PlaybackInv, TypeOK
    <2>2. CASE Fault /\ uncleaned' = TRUE /\ ui' = [ui EXCEPT !.pc = "cancel", !.failed = TRUE]
      <3>1. faults' \in Nat
        BY <2>2, FaultIsCounted DEF PlaybackInv
      <3>2. QED
        BY <2>2, <3>1 DEF PlaybackInv, TypeOK
    <2>3. QED
      BY <2>1, <2>2 DEF StopLine
  <1>4. mon.close /\ mon.state # "CLOSED"
    BY <1>1 DEF PlaybackInv, CommandOrder
  <1>5. TypeOK'
    BY <1>1, <1>2, <1>3 DEF PlaybackInv, TypeOK
  <1>6. CommandOrder' /\ RequestKept' /\ LeavesForReason'
    BY <1>1, <1>2, <1>3, <1>4 DEF PlaybackInv, CommandOrder, RequestKept, LeavesForReason, Terminal
  <1>7. WorkerOwns' /\ PlayedSoFar'
    BY <1>1, <1>2, <1>3, <1>4 DEF PlaybackInv, WorkerOwns, PlayedSoFar
  <1>8. FailureKnown' /\ EndedMeansPlayed'
    BY <1>1, <1>2, <1>3, <1>4 DEF PlaybackInv, FailureKnown, EndedMeansPlayed
  <1>9. QED
    BY <1>5, <1>6, <1>7, <1>8 DEF PlaybackInv

LEMMA CancelSourceKeepsInv ==
  ASSUME PlaybackInv, CancelSource
  PROVE  PlaybackInv'
  <1>1. /\ ui.pc = "cancel"
        /\ UNCHANGED <<mon, segment, cancellable, sources, opened, line, w, faults,
                       uncleaned>>
    BY DEF CancelSource
  <1>2. /\ ui' \in [pc : {"idle", "stop_line", "cancel", "join", "closing"}, failed : BOOLEAN, late : BOOLEAN]
        /\ ui'.failed = ui.failed /\ ui'.pc = IF w.pc = "none" THEN "closing" ELSE "join"
    BY DEF PlaybackInv, TypeOK, CancelSource, Started
  <1>3. /\ canceller' \in [src : Nat \cup {None}, failed : BOOLEAN]
        /\ canceller'.failed = canceller.failed
        /\ w.pc = "none" => canceller'.src = None
    BY DEF PlaybackInv, TypeOK, CancelSource, Started
  <1>4. mon.close /\ mon.state # "CLOSED"
    BY <1>1 DEF PlaybackInv, CommandOrder
  <1>5. TypeOK'
    BY <1>1, <1>2, <1>3 DEF PlaybackInv, TypeOK
  <1>6. CommandOrder' /\ RequestKept' /\ LeavesForReason'
    BY <1>1, <1>2, <1>3, <1>4 DEF PlaybackInv, CommandOrder, RequestKept, LeavesForReason, Terminal
  <1>7. WorkerOwns' /\ PlayedSoFar'
    BY <1>1, <1>2, <1>3, <1>4 DEF PlaybackInv, WorkerOwns, PlayedSoFar
  <1>8. FailureKnown' /\ EndedMeansPlayed'
    BY <1>1, <1>2, <1>3, <1>4 DEF PlaybackInv, FailureKnown, EndedMeansPlayed
  <1>9. QED
    BY <1>5, <1>6, <1>7, <1>8 DEF PlaybackInv

\* The cancellation thread closes the source of the worker.
LEMMA CancellerClosesKeepsInv ==
  ASSUME PlaybackInv, CancellerCloses
  PROVE  PlaybackInv'
  <1>1. canceller.src # None /\ UNCHANGED <<mon, segment, cancellable, sources, line, w, ui>>
    BY DEF CancellerCloses
  <1>2. PICK fails \in BOOLEAN : CloseSource(canceller.src, fails) /\ canceller' = [src |-> None, failed |-> fails]
    BY DEF CancellerCloses
  <1>3. /\ opened' \subseteq opened /\ opened' \in SUBSET Nat /\ faults' \in Nat
        /\ uncleaned' = (uncleaned \/ fails) /\ uncleaned' \in BOOLEAN
    BY <1>2, SourceCloses DEF PlaybackInv
  <1>4. mon.close
    BY <1>1 DEF PlaybackInv, FailureKnown, CommandOrder
  <1>5. TypeOK'
    BY <1>1, <1>2, <1>3 DEF PlaybackInv, TypeOK
  <1>6. CommandOrder' /\ RequestKept' /\ LeavesForReason'
    BY <1>1 DEF PlaybackInv, CommandOrder, RequestKept, LeavesForReason, Terminal
  <1>7. WorkerOwns' /\ PlayedSoFar'
    BY <1>1, <1>3 DEF PlaybackInv, WorkerOwns, PlayedSoFar
  <1>8. FailureKnown'
    BY <1>1, <1>2, <1>3 DEF PlaybackInv, FailureKnown, CommandOrder
  <1>9. EndedMeansPlayed'
    BY <1>1, <1>4 DEF PlaybackInv, EndedMeansPlayed
  <1>10. QED
    BY <1>5, <1>6, <1>7, <1>8, <1>9 DEF PlaybackInv

\* close() waits for worker and cancellation, or reports a late one.
LEMMA JoinKeepsInv ==
  ASSUME PlaybackInv, Join
  PROVE  PlaybackInv'
  <1>1. /\ ui.pc = "join"
        /\ UNCHANGED <<mon, segment, cancellable, sources, opened, line, w, canceller,
                       faults, uncleaned>>
    BY DEF Join
  <1>2. /\ ui' \in [pc : {"idle", "stop_line", "cancel", "join", "closing"}, failed : BOOLEAN, late : BOOLEAN]
        /\ ui'.pc = "closing" /\ (ui.failed => ui'.failed)
        /\ ui'.failed \/ (w.pc = "dead" /\ canceller.src = None /\ ~canceller.failed)
    <2>1. CASE /\ w.pc = "dead" /\ canceller.src = None
               /\ ui' = [ui EXCEPT !.pc = "closing", !.failed = @ \/ canceller.failed]
      <3>1. PICK failed \in BOOLEAN :
              ui' = [ui EXCEPT !.pc = "closing", !.failed = failed] /\ failed = (ui.failed \/ canceller.failed)
        BY <2>1 DEF PlaybackInv, TypeOK
      <3>2. QED
        BY <2>1, <3>1 DEF PlaybackInv, TypeOK
    <2>2. CASE ui' = [ui EXCEPT !.pc = "closing", !.failed = TRUE, !.late = TRUE]
      BY <2>2 DEF PlaybackInv, TypeOK
    <2>3. QED
      BY <2>1, <2>2 DEF Join
  <1>3. mon.close /\ mon.state # "CLOSED"
    BY <1>1 DEF PlaybackInv, CommandOrder
  <1>4. TypeOK'
    BY <1>1, <1>2 DEF PlaybackInv, TypeOK
  <1>5. CommandOrder' /\ RequestKept' /\ LeavesForReason'
    BY <1>1, <1>2, <1>3 DEF PlaybackInv, CommandOrder, RequestKept, LeavesForReason, Terminal
  <1>6. WorkerOwns' /\ PlayedSoFar'
    BY <1>1, <1>2, <1>3 DEF PlaybackInv, WorkerOwns, PlayedSoFar
  <1>7. FailureKnown' /\ EndedMeansPlayed'
    BY <1>1, <1>2, <1>3 DEF PlaybackInv, FailureKnown, EndedMeansPlayed
  <1>8. QED
    BY <1>4, <1>5, <1>6, <1>7 DEF PlaybackInv

LEMMA ClosedKeepsInv ==
  ASSUME PlaybackInv, Closed
  PROVE  PlaybackInv'
  <1>1. /\ ui.pc = "closing"
        /\ UNCHANGED <<segment, cancellable, sources, opened, line, w, canceller, faults,
                       uncleaned>>
    BY DEF Closed
  <1>2. /\ mon' \in Monitor /\ mon'.state = "CLOSED" /\ mon'.close = mon.close /\ mon'.seek = mon.seek
        /\ mon'.revision = mon.revision /\ mon'.failure = (mon.failure \/ ui.failed \/ mon.shutdown)
        /\ mon'.shutdown = mon.shutdown
    <2>1. PICK failure \in BOOLEAN :
            /\ mon' = [mon EXCEPT !.state = "CLOSED", !.failure = failure]
            /\ failure = (mon.failure \/ ui.failed \/ mon.shutdown)
      BY DEF Closed, PlaybackInv, TypeOK, Monitor
    <2>2. QED
      BY <2>1 DEF PlaybackInv, TypeOK, Monitor, States
  <1>3. /\ ui' \in [pc : {"idle", "stop_line", "cancel", "join", "closing"}, failed : BOOLEAN, late : BOOLEAN]
        /\ ui'.pc = "idle" /\ ui'.failed = ui.failed
    BY DEF PlaybackInv, TypeOK, Closed
  <1>4. mon.close /\ mon.state # "CLOSED"
    BY <1>1 DEF PlaybackInv, CommandOrder
  <1>5. TypeOK'
    BY <1>1, <1>2, <1>3 DEF PlaybackInv, TypeOK
  <1>6. CommandOrder' /\ RequestKept'
    BY <1>1, <1>2, <1>3, <1>4 DEF PlaybackInv, CommandOrder, RequestKept, Terminal
  <1>7. LeavesForReason'
    BY <1>1, <1>2, <1>3, <1>4 DEF PlaybackInv, LeavesForReason, Terminal
  <1>8. WorkerOwns' /\ PlayedSoFar'
    BY <1>1, <1>2, <1>3 DEF PlaybackInv, WorkerOwns, PlayedSoFar
  <1>9. FailureKnown'
    BY <1>1, <1>2, <1>3, <1>4 DEF PlaybackInv, FailureKnown, Leaving
  <1>10. EndedMeansPlayed'
    BY <1>2 DEF PlaybackInv, EndedMeansPlayed
  <1>11. QED
    BY <1>5, <1>6, <1>7, <1>8, <1>9, <1>10 DEF PlaybackInv

LEMMA DevicePlaysKeepsInv ==
  ASSUME PlaybackInv, DevicePlays
  PROVE  PlaybackInv'
  <1>1. /\ line.open /\ line.queued > 0
        /\ UNCHANGED <<mon, segment, cancellable, sources, opened, w, ui, canceller, faults,
                       uncleaned>>
    BY DEF DevicePlays
  <1>2. /\ line' \in [open : BOOLEAN, queued : Nat, discarded : Nat]
        /\ line'.open = line.open /\ line'.discarded = line.discarded
    <2>1. line \in [open : BOOLEAN, queued : Nat, discarded : Nat]
      BY DEF PlaybackInv, TypeOK
    <2>2. line.queued - 1 \in Nat
      BY <1>1, <2>1
    <2>3. line' = [line EXCEPT !.queued = line.queued - 1]
      BY DEF DevicePlays
    <2>4. QED
      BY <2>1, <2>2, <2>3
  <1>3. TypeOK'
    BY <1>1, <1>2 DEF PlaybackInv, TypeOK
  <1>4. CommandOrder' /\ RequestKept' /\ LeavesForReason'
    BY <1>1 DEF PlaybackInv, CommandOrder, RequestKept, LeavesForReason, Terminal
  <1>5. WorkerOwns' /\ PlayedSoFar'
    BY <1>1, <1>2 DEF PlaybackInv, WorkerOwns, PlayedSoFar
  <1>6. FailureKnown' /\ EndedMeansPlayed'
    BY <1>1, <1>2 DEF PlaybackInv, FailureKnown, EndedMeansPlayed
  <1>7. QED
    BY <1>3, <1>4, <1>5, <1>6 DEF PlaybackInv

(***************************************************************************)
(* The invariant, and what follows from it.                                *)
(***************************************************************************)

LEMMA PlaybackStarts == Init => PlaybackInv
  <1>1. SUFFICES ASSUME Init PROVE PlaybackInv
    OBVIOUS
  <1>2. TypeOK
    <2>1. 0 \in Frames
      BY PlaybackAssumption DEF Frames
    <2>2. mon \in Monitor
      BY <1>1 DEF Init, Monitor, States
    <2>3. w \in Worker
      BY <1>1, <2>1 DEF Init, Worker, WorkerPCs
    <2>4. QED
      BY <1>1, <2>1, <2>2, <2>3 DEF Init, TypeOK
  <1>3. CommandOrder /\ RequestKept /\ LeavesForReason
    BY <1>1 DEF Init, CommandOrder, RequestKept, LeavesForReason, Terminal, Leaving
  <1>4. WorkerOwns /\ PlayedSoFar
    BY <1>1 DEF Init, WorkerOwns, PlayedSoFar, Leaving
  <1>5. FailureKnown /\ EndedMeansPlayed
    BY <1>1 DEF Init, FailureKnown, EndedMeansPlayed, Leaving
  <1>6. QED
    BY <1>2, <1>3, <1>4, <1>5 DEF PlaybackInv

LEMMA PlaybackStutters ==
  ASSUME PlaybackInv, UNCHANGED vars
  PROVE  PlaybackInv'
  <1>1. UNCHANGED <<mon, segment, cancellable, sources, opened, line, w, ui, canceller,
                    faults, uncleaned>>
    BY DEF vars
  <1>2. TypeOK'
    BY <1>1 DEF PlaybackInv, TypeOK
  <1>3. CommandOrder' /\ RequestKept' /\ LeavesForReason'
    BY <1>1 DEF PlaybackInv, CommandOrder, RequestKept, LeavesForReason
  <1>4. WorkerOwns' /\ PlayedSoFar'
    BY <1>1 DEF PlaybackInv, WorkerOwns, PlayedSoFar
  <1>5. FailureKnown' /\ EndedMeansPlayed'
    BY <1>1 DEF PlaybackInv, FailureKnown, EndedMeansPlayed
  <1>6. QED
    BY <1>2, <1>3, <1>4, <1>5 DEF PlaybackInv

LEMMA PlaybackSteps == PlaybackInv /\ [Next]_vars => PlaybackInv'
  <1>1. SUFFICES ASSUME PlaybackInv, [Next]_vars PROVE PlaybackInv'
    OBVIOUS
  <1>2. CASE Command
    BY <1>1, <1>2, StartKeepsInv, SetPauseKeepsInv, SeekKeepsInv, RequestCloseKeepsInv
       DEF Command
  <1>3. CASE WorkerMoves
    BY <1>1, <1>3, TakeRequestKeepsInv, PublishSourceKeepsInv, AbandonSourceKeepsInv,
       TopOfLoopKeepsInv, CloseOldSourceKeepsInv, StopForPauseKeepsInv, WaitKeepsInv,
       CountWrittenKeepsInv, AtEndKeepsInv, DrainLineKeepsInv, AfterDrainKeepsInv, CloseInputKeepsInv,
       CloseLineKeepsInv, SettleKeepsInv
       DEF WorkerMoves
  <1>4. CASE WorkerCalls
    BY <1>1, <1>4, OpenSourceKeepsInv, SkipFramesKeepsInv, LineControlFailsKeepsInv,
       ReadSourceKeepsInv, WriteLineKeepsInv
       DEF WorkerCalls
  <1>5. CASE Closing
    BY <1>1, <1>5, StopLineKeepsInv, CancelSourceKeepsInv, JoinKeepsInv, ClosedKeepsInv
       DEF Closing
  <1>6. CASE CancellerCloses
    BY <1>1, <1>6, CancellerClosesKeepsInv
  <1>7. CASE DevicePlays
    BY <1>1, <1>7, DevicePlaysKeepsInv
  <1>8. CASE Done \/ UNCHANGED vars
    BY <1>1, <1>8, PlaybackStutters DEF Done
  <1>9. QED
    BY <1>1, <1>2, <1>3, <1>4, <1>5, <1>6, <1>7, <1>8 DEF Next

\* The inductive invariant of playback: the order of the commands under the
\* monitor, who owns the open source, why the worker left its loop, what the
\* line was given, and where a failed cleanup is remembered.
THEOREM PlaybackInvariantHolds == Spec => []PlaybackInv
  BY PlaybackStarts, PlaybackSteps, PTL DEF Spec


\* ENDED is published only when source and line are released and the line has
\* played every frame from the last seek to the end, whatever was commanded and
\* whatever failed meanwhile.
THEOREM EndIsWholeTrack == Spec => []EndedMeansPlayed
  <1>1. PlaybackInv => EndedMeansPlayed
    BY DEF PlaybackInv
  <1>2. QED
    BY <1>1, PlaybackInvariantHolds, PTL

\* There is never a second open source, and the finally block of runPlayback
\* leaves neither a source nor a line open nor the session unsettled.
THEOREM NothingIsLeftOpen == Spec => []WorkerLeavesNothing
  <1>1. PlaybackInv => WorkerLeavesNothing
    BY DEF PlaybackInv, WorkerLeavesNothing, WorkerOwns, LeavesForReason
  <1>2. QED
    BY <1>1, PlaybackInvariantHolds, PTL

\* A closed session whose source or line could not be released holds a failure,
\* whichever of the three threads met it, and also when a join ran out of time.
THEOREM FailuresAreReported == Spec => []CleanupFailuresReported
  <1>1. PlaybackInv => CleanupFailuresReported
    BY DEF PlaybackInv, CleanupFailuresReported, FailureKnown
  <1>2. QED
    BY <1>1, PlaybackInvariantHolds, PTL

\* The IllegalStateException of openLatestRequestedInput is never thrown: the
\* worker comes back for a request only when there is one; and no step of the worker
\* hides a seek that arrived meanwhile behind the state of the old position.
THEOREM WorkerFindsRequest == Spec => []RequestIsPending
  <1>1. PlaybackInv => RequestIsPending
    BY DEF PlaybackInv, RequestIsPending, RequestKept
  <1>2. QED
    BY <1>1, PlaybackInvariantHolds, PTL

=============================================================================
