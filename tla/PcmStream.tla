------------------------------ MODULE PcmStream ------------------------------
(***************************************************************************)
(* The Java Sound side of pull decoding.  FlacPcmInputStream fetches PCM   *)
(* from a pull session in chunks of frames (PullRead) and hands it out in  *)
(* bytes; FlacAudioFileWriter, the other client here, reads such a stream  *)
(* through the JDK's AudioInputStream and PcmSampleReader and encodes it.  *)
(* FlacPcmInputStream has no lock of its own, and may be closed by another *)
(* thread in the middle of a read; the pull session's monitor orders only  *)
(* the native reads and the release of the decoder.                        *)
(*                                                                         *)
(* Bytes are abstracted to their offsets in the decoded stream.            *)
(***************************************************************************)
EXTENDS PullRead

CONSTANTS FrameBytes,    \* channels * bytesPerSample
          ChunkFrames,   \* DEFAULT_CHUNK_FRAMES and the writer's BUFFER_FRAMES
          MaxRead        \* bound on the length of one read of bytes

ASSUME PcmAssumption ==
  /\ FrameBytes \in Nat \ {0} /\ MaxRead \in Nat \ {0}
  /\ ChunkFrames \in 1 .. MaxRequest

VARIABLES buffer,        \* byteBuffer: offsets from bytePosition up to byteLimit
          eof, closed,   \* the fields of these names
          closing,       \* the thread in close(): which part it is at
          active,        \* the pull session has not been closed
          step, call,    \* the read at hand: its place, length and copied
          answer,        \* how the last read ended
          got,           \* what returned reads handed out: bytes, and whether a prefix
          writer         \* FlacAudioFileWriter.write

stream == <<buffer, eof, closed, closing, active, step, call, answer, got>>
pcmVars == <<vars, stream, writer>>

Least(a, b) == IF a < b THEN a ELSE b
EmptyBuffer == [from |-> 0, to |-> 0]

\* The stream is read by an application, or by a write() whose encoder is open.
PcmInit ==
  /\ Init
  /\ buffer = EmptyBuffer /\ eof = FALSE /\ closed = FALSE
  /\ closing = "none" /\ active = TRUE
  /\ step = "idle" /\ call = [length |-> 0, copied |-> 0] /\ answer = "none"
  /\ got = [count |-> 0, intact |-> TRUE]
  /\ \E stage \in {"absent", "asking"} :
       writer = [stage |-> stage, bytes |-> 0, encoded |-> 0, encoder |-> "active", failed |-> FALSE]

-----------------------------------------------------------------------------
(* FlacPcmInputStream.read.                                                *)

Throw == step' = "idle" /\ answer' = "threw"

BeginReadBytes(n) ==
  /\ step = "idle"
  /\ call' = [length |-> n, copied |-> 0]
  /\ IF closed THEN Throw ELSE step' = "copy" /\ answer' = "none"
  /\ UNCHANGED <<vars, buffer, eof, closed, closing, active, got>>

\* The loop is over: the caller gets what was copied, or -1 for nothing.
ReadReturns ==
  /\ step' = "idle"
  /\ answer' = IF call.copied = 0 THEN "end" ELSE "bytes"
  /\ got' = [got EXCEPT !.count = @ + call.copied]
  /\ UNCHANGED <<vars, buffer, eof, closed, closing, active, call, writer>>

\* One turn of the loop: copy from the buffer, or leave, or fill it first.
CopyBytes ==
  LET bytesToCopy == Least(call.length - call.copied, buffer.to - buffer.from)
  IN  /\ step = "copy"
      /\ \/ /\ call.copied = call.length \/ (buffer.from = buffer.to /\ eof)
            /\ ReadReturns
         \/ /\ call.copied < call.length /\ buffer.from = buffer.to /\ ~eof
            /\ step' = "fill"
            /\ UNCHANGED <<vars, buffer, eof, closed, closing, active, call, answer, got, writer>>
         \/ /\ call.copied < call.length /\ buffer.from < buffer.to
            /\ buffer' = [buffer EXCEPT !.from = @ + bytesToCopy]
            /\ call' = [call EXCEPT !.copied = @ + bytesToCopy]
            /\ got' = [got EXCEPT !.intact = @ /\ buffer.from = got.count + call.copied]
            /\ UNCHANGED <<vars, eof, closed, closing, active, step, answer, writer>>

\* fillByteBuffer enters readInterleaved, whose monitor is free between native
\* reads.  A session that was closed, or that failed before, refuses.
BeginFill ==
  /\ step = "fill" /\ pc = "idle"
  /\ IF active /\ ~exc
       THEN BeginRead(ChunkFrames) /\ step' = "decoding" /\ UNCHANGED answer
       ELSE Throw /\ UNCHANGED vars
  /\ UNCHANGED <<buffer, eof, closed, closing, active, call, got, writer>>

FailureIsEnd == eof' = TRUE /\ step' = "copy" /\ UNCHANGED answer     \* mutant: the catch reports an end
FillFails == Throw /\ UNCHANGED eof

\* The frames of this native read, in bytes.
Filled(frames) == [from |-> FrameBytes * (taken.count - frames), to |-> FrameBytes * taken.count]

\* readInterleaved is back.  What an exception has copied before is not returned.
EndFill ==
  /\ step = "decoding" /\ pc = "idle"
  /\ \/ exc /\ FillFails /\ UNCHANGED buffer
     \/ /\ ~exc /\ result = -1
        /\ eof' = TRUE /\ step' = "copy"
        /\ UNCHANGED <<buffer, answer>>
     \/ /\ ~exc /\ result > 0
        /\ buffer' = Filled(result) /\ step' = "copy"
        /\ UNCHANGED <<eof, answer>>
  /\ UNCHANGED <<vars, closed, closing, active, call, got, writer>>

Decode == (Loop \/ LibFLAC \/ AfterProcess) /\ UNCHANGED <<stream, writer>>

-----------------------------------------------------------------------------
(* FlacPcmInputStream.close, on any thread.                                *)

BeginClose ==
  /\ ~closed
  /\ closed' = TRUE /\ closing' = "session"
  /\ UNCHANGED <<vars, buffer, eof, active, step, call, answer, got, writer>>

\* session.close waits for the monitor; sourceToClose follows, and whatever
\* fails is thrown at the end.
CloseStep ==
  /\ \/ /\ closing = "session" /\ pc = "idle"
        /\ active' = FALSE /\ closing' = "source"
     \/ /\ closing = "source"
        /\ closing' = "done"
        /\ UNCHANGED active
  /\ UNCHANGED <<vars, buffer, eof, closed, step, call, answer, got, writer>>

-----------------------------------------------------------------------------
(* FlacAudioFileWriter.write over PcmSampleReader.                         *)

Wanted == ChunkFrames * FrameBytes

\* AudioInputStream ends at the frame length of its format without asking.
Remaining == IF source.declared = 0 THEN Wanted ELSE source.declared * FrameBytes - got.count

\* readBytesForFrames.
AskForPcm ==
  /\ writer.stage = "asking" /\ Remaining > 0
  /\ BeginReadBytes(Least(Wanted - writer.bytes, Remaining))
  /\ writer' = [writer EXCEPT !.stage = "reading"]

To(stage) == writer' = [writer EXCEPT !.stage = stage]

SwallowFailure == To("closing")              \* mutant: the exception is not rethrown
Fail == writer' = [writer EXCEPT !.stage = "closing", !.failed = TRUE]

\* The source has nothing more: -1, or what was read so far.
PcmEnds == To(IF writer.bytes = 0 THEN "closing" ELSE "encoding")

TakePcm ==
  LET bytes == writer.bytes + call.copied
  IN  /\ \/ /\ writer.stage = "asking" /\ Remaining <= 0
            /\ PcmEnds
         \/ /\ writer.stage = "reading" /\ step = "idle"
            /\ \/ answer = "threw" /\ Fail
               \/ answer = "end" /\ PcmEnds
               \/ /\ answer = "bytes"
                  /\ writer' = [writer EXCEPT !.bytes = bytes,
                                              !.stage = IF bytes < Wanted THEN "asking" ELSE "encoding"]
      /\ UNCHANGED <<vars, stream>>

\* A final partial frame is refused; otherwise writeInterleaved, which may throw.
EncodePcm ==
  /\ writer.stage = "encoding"
  /\ \/ /\ writer.bytes % FrameBytes = 0
        /\ writer' = [writer EXCEPT !.stage = "asking", !.bytes = 0,
                                    !.encoded = @ + writer.bytes \div FrameBytes]
     \/ writer.bytes % FrameBytes # 0 /\ Fail
     \/ /\ writer.bytes % FrameBytes = 0
        /\ writer' = [writer EXCEPT !.stage = "closing", !.failed = TRUE, !.encoder = "failed"]
  /\ UNCHANGED <<vars, stream>>

\* The try-with-resources closes the session, after a failure too: output is
\* finalised unless the encoder itself has failed, and this may throw as well.
CloseEncoder ==
  /\ writer.stage = "closing"
  /\ \/ writer' = [writer EXCEPT !.stage = "done", !.encoder = IF @ = "active" THEN "finished" ELSE @]
     \/ writer' = [writer EXCEPT !.stage = "done", !.encoder = "failed", !.failed = TRUE]
  /\ UNCHANGED <<vars, stream>>

-----------------------------------------------------------------------------
\* An application reads on after an end or an exception, as it likes.
ApplicationReads ==
  /\ writer.stage = "absent"
  /\ \E n \in 1 .. MaxRead : BeginReadBytes(n)
  /\ UNCHANGED writer

Written == writer.stage = "done" /\ closing = "done" /\ UNCHANGED pcmVars

PcmNext ==
  \/ ApplicationReads \/ CopyBytes \/ BeginFill \/ EndFill \/ Decode
  \/ BeginClose \/ CloseStep
  \/ AskForPcm \/ TakePcm \/ EncodePcm \/ CloseEncoder
  \/ Written

PcmSpec == PcmInit /\ [][PcmNext]_pcmVars

-----------------------------------------------------------------------------
(* Properties.                                                             *)

\* What reads have returned is a prefix of the decoded stream, without a gap.  A
\* read that throws hides the bytes it had copied, so nothing may be returned
\* after it, neither bytes nor the end; and -1 comes only when all the frames
\* STREAMINFO declares were handed out.  A concurrent close() changes none of it.
PcmInOrder ==
  /\ got.intact
  /\ answer = "end" => got.count = FrameBytes * Length
  /\ answer = "bytes" /\ call.copied < call.length => got.count = FrameBytes * Length

\* write() returns normally only when the encoder has finished an output with
\* every frame of the source.  After a source that failed, closing finalises an
\* output that plays and is too short: only the exception tells.
WriteMeansWhole ==
  writer.stage = "done" /\ ~writer.failed =>
    writer.encoder = "finished" /\ writer.encoded = Length
-----------------------------------------------------------------------------
(* The inductive invariant behind them, beside PullInv.                    *)

StreamTypeOK ==
  /\ buffer \in [from : Nat, to : Nat] /\ eof \in BOOLEAN
  /\ closed \in BOOLEAN /\ active \in BOOLEAN /\ closing \in {"none", "session", "source", "done"}
  /\ step \in {"idle", "copy", "fill", "decoding"}
  /\ call \in [length : Nat, copied : Nat] /\ answer \in {"none", "threw", "end", "bytes"}
  /\ got \in [count : Nat, intact : BOOLEAN]

\* A native read runs inside a read of bytes, which has no answer yet and goes
\* on only while it lacks bytes.
ReadInProgress ==
  /\ pc # "idle" => step = "decoding"
  /\ step # "idle" => answer = "none" /\ call.length > 0
  /\ call.copied <= call.length /\ buffer.from <= buffer.to
  /\ step \in {"fill", "decoding"} => buffer.from = buffer.to /\ ~eof /\ call.copied < call.length

\* The buffer ends where the native reads have come to, or will when the one in
\* progress is back; that one reports the frames it has written.
BufferFollowsReads ==
  /\ step # "decoding" /\ ~exc => buffer.to = FrameBytes * taken.count
  /\ step = "decoding" =>
       /\ buffer.to = FrameBytes * (taken.count - read.written)
       /\ read.requested = ChunkFrames
       /\ pc = "idle" /\ ~exc => result = IF read.written > 0 THEN read.written ELSE -1

\* A read threw, and hid what it had copied.
Lost == answer = "threw" \/ (exc /\ step \in {"copy", "fill"})

\* The buffer starts where the reads have come to; once they have lost their
\* place, the stream is closed or its session has failed, and none gets a byte.
PlaceIsKept ==
  /\ ~Lost => buffer.from = got.count + (IF step = "idle" THEN 0 ELSE call.copied)
  /\ answer = "threw" => closed \/ exc
  /\ closing # "none" \/ ~active => closed
  /\ exc => buffer.from = buffer.to /\ ~eof
  /\ exc /\ step = "idle" => answer = "threw"
  /\ exc /\ step \in {"copy", "fill"} => call.copied = 0

\* The end is noticed from a native read that found it, and told when the buffer
\* is used up.
EndIsTold ==
  /\ eof => eos /\ ~exc
  /\ answer = "end" \/ (answer = "bytes" /\ call.copied < call.length) =>
       eof /\ buffer.from = buffer.to

StreamInv ==
  /\ PullInv /\ StreamTypeOK /\ got.intact
  /\ ReadInProgress /\ BufferFollowsReads /\ PlaceIsKept /\ EndIsTold

\* Bytes of the last read that the writer has not counted yet.
Uncounted ==
  IF writer.stage = "reading" /\ step = "idle" /\ answer = "bytes" THEN call.copied ELSE 0

\* The writer drives the reads, and every byte they returned is encoded, or in
\* its buffer; it closes the encoder without an exception only at the end.
WriterInv ==
  /\ writer \in [stage : {"absent", "asking", "reading", "encoding", "closing", "done"},
                 bytes : Nat, encoded : Nat, encoder : {"active", "failed", "finished"},
                 failed : BOOLEAN]
  /\ writer.stage \notin {"absent", "reading"} => step = "idle"
  /\ writer.stage \in {"asking", "reading"} => writer.bytes < Wanted
  /\ writer.stage \in {"asking", "encoding"} => answer # "threw"
  /\ writer.stage \in {"asking", "reading", "encoding"} =>
       /\ ~writer.failed /\ writer.encoder = "active"
       /\ got.count = FrameBytes * writer.encoded + writer.bytes + Uncounted
  /\ writer.stage = "closing" /\ ~writer.failed => writer.encoder = "active" /\ writer.encoded = Length
  /\ WriteMeansWhole
=============================================================================
