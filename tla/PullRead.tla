------------------------------ MODULE PullRead ------------------------------
(* readPullDecoderInterleaved: Java pulls PCM in buffers of its own size     *)
(* while libFLAC decodes in blocks of the stream's.  A block is stored whole *)
(* as pending PCM and drained into one read after another.  A pull session   *)
(* is one DecodeContract operation: the reads hand over the whole stream,    *)
(* and -1 tells that all of it was handed over.                              *)
EXTENDS Integers

CONSTANTS MaxLength,        \* bound on a stream's frames
          MaxBlock,         \* bound on the frames of one libFLAC block
          MaxRequest        \* bound on maxFrames of one read

ASSUME PullAssumption ==
  MaxLength \in Nat /\ MaxBlock \in Nat \ {0} /\ MaxRequest \in Nat \ {0}

VARIABLES source,           \* declared total (0: unknown) and real length
          dec,              \* the FLAC__StreamDecoder
          pending,          \* pull_pending_samples: frames from, up to (excluded)
          emitted,          \* emitted_frames, over the whole session
          saw_error, eos,   \* saw_error, pull_end_of_stream
          exc,              \* is a Java exception pending
          read,             \* pull_requested_frames, pull_written_frames
          pc, ok, result,   \* control, libFLAC's answer, the value returned
          taken             \* what Java holds: frames taken, and whether intact

vars == <<source, dec, pending, emitted, saw_error, eos, exc, read,
          pc, ok, result, taken>>

Sources ==
  {s \in [declared : 0 .. MaxLength, actual : 0 .. MaxLength, java : BOOLEAN] :
     s.declared = 0 \/ s.actual <= s.declared}

NoPending == [from |-> 0, to |-> 0]

Empty(p) == p.from >= p.to

\* open_pull_decoder_internal has read STREAMINFO and published the session.
Init ==
  /\ source \in Sources
  /\ dec = [state |-> "sync", pos |-> 0, corrupt |-> FALSE]
  /\ pending = NoPending
  /\ emitted = 0 /\ saw_error = FALSE /\ eos = FALSE /\ exc = FALSE
  /\ read = [requested |-> 0, written |-> 0]
  /\ pc = "idle" /\ ok = TRUE /\ result = 0
  /\ taken = [count |-> 0, intact |-> TRUE]

\* mutant: the offset into the block is not advanced
DrainAgain(p, wants) ==
  LET available == p.to - p.from
      copied == IF available < wants THEN available ELSE wants
  IN /\ pending' = IF available = copied THEN NoPending ELSE p
     /\ emitted' = emitted + copied
     /\ taken' = [count |-> taken.count + copied,
                  intact |-> taken.intact /\ (copied > 0 => p.from = taken.count)]

(***************************************************************************)
(* drain_decode_pull_pending, on pending frames p: as many of them as the  *)
(* read still wants, and an emptied buffer is freed.                       *)
(***************************************************************************)
Drain(p, wants) ==
  LET available == p.to - p.from
      copied == IF available < wants THEN available ELSE wants
  IN /\ pending' = IF available = copied THEN NoPending
                   ELSE [p EXCEPT !.from = @ + copied]
     /\ emitted' = emitted + copied
     /\ taken' = [count |-> taken.count + copied,
                  intact |-> taken.intact /\ (copied > 0 => p.from = taken.count)]

\* A read starts by draining; pc' = "loop" tests the loop's condition.
BeginRead(n) ==
  /\ pc = "idle" /\ ~exc
  /\ IF n = 0
       THEN /\ result' = 0
            /\ UNCHANGED <<pending, emitted, saw_error, read, pc, taken>>
       ELSE /\ saw_error' = FALSE
            /\ Drain(pending, n)
            /\ read' = [requested |-> n, written |-> emitted' - emitted]
            /\ pc' = "loop"
            /\ UNCHANGED result
  /\ UNCHANGED <<source, dec, eos, exc, ok>>

Loop ==
  /\ pc = "loop"
  /\ IF read.written < read.requested /\ ~eos
       THEN pc' = "lib" /\ UNCHANGED result
       ELSE /\ pc' = "idle"
            /\ result' = IF read.written > 0 THEN read.written
                         ELSE IF eos THEN -1 ELSE 0
  /\ UNCHANGED <<source, dec, pending, emitted, saw_error, eos, exc, read,
                 ok, taken>>

(***************************************************************************)
(* libFLAC, in process_single.                                             *)
(***************************************************************************)
LibReturns(answer) == ok' = answer /\ pc' = "called"

\* decode_pull_write_callback on the frames [start, start + n).
WriteCallback(start, n) ==
  IF exc \/ saw_error THEN
    /\ dec' = [dec EXCEPT !.state = "aborted"]
    /\ LibReturns(FALSE)
    /\ UNCHANGED <<pending, emitted, exc, read, taken>>
  ELSE IF ~Empty(pending) THEN
    /\ exc' = TRUE
    /\ dec' = [dec EXCEPT !.state = "aborted"]
    /\ LibReturns(FALSE)
    /\ UNCHANGED <<pending, emitted, read, taken>>
  ELSE
    /\ Drain([from |-> start, to |-> start + n], read.requested - read.written)
    /\ read' = [read EXCEPT !.written = @ + (emitted' - emitted)]
    /\ dec' = [dec EXCEPT !.pos = @ + n]
    /\ LibReturns(TRUE)
    /\ UNCHANGED exc

Decoding == pc = "lib" /\ dec.state = "sync"

DecodeFrame(n) ==
  /\ Decoding /\ n <= source.actual - dec.pos
  /\ WriteCallback(dec.pos, n)
  /\ UNCHANGED <<source, saw_error, eos, result>>

\* decode_error_callback; frames may be lost.
ReportError ==
  /\ Decoding /\ ~dec.corrupt
  /\ saw_error' = TRUE
  /\ \E p \in dec.pos .. source.actual :
       dec' = [dec EXCEPT !.corrupt = TRUE, !.pos = p]
  /\ UNCHANGED <<source, pending, emitted, eos, exc, read, pc, ok, result, taken>>

DropFrame ==
  /\ Decoding /\ dec.corrupt
  /\ LibReturns(TRUE)
  /\ UNCHANGED <<source, dec, pending, emitted, saw_error, eos, exc, read,
                 result, taken>>

\* A read callback aborts; between frames libFLAC still returns TRUE.
ReadAborts(answer) ==
  /\ Decoding
  /\ dec' = [dec EXCEPT !.state = "aborted"]
  /\ exc' = (exc \/ source.java)
  /\ LibReturns(answer)
  /\ UNCHANGED <<source, pending, emitted, saw_error, eos, read, result, taken>>

EndOfStream ==
  /\ Decoding /\ dec.pos = source.actual
  /\ dec' = [dec EXCEPT !.state = "eos"]
  /\ LibReturns(TRUE)
  /\ UNCHANGED <<source, pending, emitted, saw_error, eos, exc, read, result, taken>>

\* validate_physical_eof_sample_count, with first_sample zero.
CountAccepted == source.declared = 0 \/ emitted >= source.declared

\* The tests after process_single: a pending exception, a failure or a stream
\* error, the physical end, an abort.  Every failure throws.
AfterProcess ==
  /\ pc = "called"
  /\ LET failed == exc \/ ~ok \/ saw_error \/ dec.state = "aborted"
                     \/ (dec.state = "eos" /\ ~CountAccepted)
     IN IF failed THEN exc' = TRUE /\ pc' = "idle" /\ UNCHANGED eos
        ELSE /\ eos' = (dec.state = "eos")
             /\ pc' = "loop"
             /\ UNCHANGED exc
  /\ UNCHANGED <<source, dec, pending, emitted, saw_error, read, ok, result, taken>>

\* The Kotlin session fails on the exception: there is no later read.
Failed ==
  /\ pc = "idle" /\ exc
  /\ UNCHANGED vars

Reader == \/ \E n \in 0 .. MaxRequest : BeginRead(n)
          \/ Failed

LibFLAC ==
  \/ \E n \in 1 .. MaxBlock : DecodeFrame(n)
  \/ ReportError
  \/ DropFrame
  \/ \E answer \in BOOLEAN : ReadAborts(answer)
  \/ EndOfStream

Next == Reader \/ Loop \/ LibFLAC \/ AfterProcess

Spec == Init /\ [][Next]_vars

(***************************************************************************)
(* Properties.                                                             *)
(***************************************************************************)
Length == IF source.declared > 0 THEN source.declared ELSE source.actual

TypeOK ==
  /\ source \in Sources
  /\ dec \in [state : {"sync", "eos", "aborted"}, pos : Nat, corrupt : BOOLEAN]
  /\ pending \in [from : Nat, to : Nat]
  /\ emitted \in Nat
  /\ saw_error \in BOOLEAN /\ eos \in BOOLEAN /\ exc \in BOOLEAN /\ ok \in BOOLEAN
  /\ read \in [requested : Nat, written : Nat]
  /\ pc \in {"idle", "loop", "lib", "called"}
  /\ taken \in [count : Nat, intact : BOOLEAN]

\* What was emitted and what is pending together are what libFLAC decoded, and
\* Java holds exactly what was emitted.
Conserved ==
  /\ taken = [count |-> emitted, intact |-> TRUE]
  /\ emitted <= dec.pos /\ dec.pos <= source.actual
  /\ IF Empty(pending)
       THEN pending = NoPending /\ (~dec.corrupt => emitted = dec.pos)
       ELSE pending.from = emitted /\ pending.to = dec.pos

\* Lost frames are behind a reported error, and an error behind an exception,
\* before Java can read on.
ErrorsSurface ==
  /\ dec.corrupt => saw_error \/ exc
  /\ saw_error => exc \/ pc \in {"lib", "called"}
  /\ dec.state = "aborted" => exc \/ pc = "called"
  /\ exc => pc \in {"called", "idle"}

\* The end is believed only when all was handed over.
EndIsReal ==
  /\ dec.state = "eos" => eos \/ exc \/ pc = "called"
  /\ dec.state = "eos" /\ pc = "called" => Empty(pending) /\ dec.pos = source.actual
  /\ eos => /\ ~exc /\ pc \in {"idle", "loop"}
            /\ Empty(pending) /\ emitted = Length

\* libFLAC is asked for a block only when nothing is pending, and a read that
\* returns is full unless the stream ended.
ReadsFill ==
  /\ read.written <= read.requested
  /\ pc # "idle" /\ read.written < read.requested => Empty(pending)
  /\ pc = "lib" => read.written < read.requested
  /\ pc = "idle" /\ ~exc => eos \/ read.written = read.requested
  /\ read.requested = 0 => pc = "idle" /\ ~exc /\ ~eos /\ emitted = 0 /\ Empty(pending)

\* The conjunction TLC checks and the proofs show inductive: PCM is conserved
\* between libFLAC, the pending block and Java, and neither an error nor the end
\* is passed over.
PullInv ==
  TypeOK /\ Conserved /\ ErrorsSurface /\ EndIsReal /\ ReadsFill

\* A read that returns fewer frames than it was asked for means the stream
\* ended, and every frame STREAMINFO declares was handed over by then.
ShortReadMeansEnd ==
  pc = "idle" /\ ~exc /\ read.requested > read.written =>
    eos /\ Empty(pending) /\ taken.count = Length

\* The refinement mapping.  The session is idle until its first read.
Unread == pc = "idle" /\ read.requested = 0

Promised == IF Unread THEN 0 ELSE Length

Received == IF taken.intact THEN taken.count ELSE -1

Outcome ==
  IF exc /\ pc = "idle" THEN "thrown"
  ELSE IF eos THEN "complete"
  ELSE IF Unread THEN "idle"
  ELSE "running"

Contract ==
  INSTANCE DecodeContract WITH
    MaxWanted <- MaxLength, wanted <- Promised, received <- Received,
    outcome <- Outcome

\* The reads hand over the stream's frames in order and once, whatever their
\* sizes and libFLAC's blocks, and the end is noticed only after the last of them.
ImplementsContract == Contract!Spec
=============================================================================
