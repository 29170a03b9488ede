---------------------------- MODULE DecodeEngine ----------------------------
(* One decode operation of the native bridge, from the JNI entry point to    *)
(* its return: the one-shot entry points over a file or over Java callbacks  *)
(* (decode_file_internal, decode_stream_internal, decode_channel_internal)   *)
(* and the two operations of a reusable session (decodeDecoderFrom,          *)
(* decodeDecoderRange).  libFLAC is external: while it runs (pc = "lib") it  *)
(* invokes the callbacks in any order its state allows, then returns.  An    *)
(* Ogg stream may be a chain of links, each with its own STREAMINFO.         *)
EXTENDS Integers, Sequences

CONSTANTS MaxLong,          \* the largest Java long, LLONG_MAX
          MaxLength,        \* bound on a stream's frames
          MaxLinks,         \* bound on the links of a chain
          MaxBlock,         \* bound on the frames of one libFLAC block
          MaxOps,           \* bound on the operations of one reusable session
          FileReadErrors    \* whether libFLAC's own file reads may fail

ASSUME EngineAssumption ==
  /\ MaxLong \in Nat /\ MaxLength \in 2 .. MaxLong
  /\ MaxLinks \in Nat /\ MaxBlock \in Nat \ {0} /\ MaxOps \in Nat \ {0}
  /\ FileReadErrors \in BOOLEAN

VARIABLES source,           \* what is decoded, and through what
          req,              \* the arguments of the current operation
          ctx,              \* DecodeContext
          dec,              \* the FLAC__StreamDecoder
          exc,              \* origin of the pending Java exception, or "none"
          pc, call, ok,     \* control: where, in which libFLAC call, its result
          heard,            \* what the consumer was told in this operation
          ops,              \* operations begun
          fault             \* history: something in this operation went wrong

vars == <<source, req, ctx, dec, exc, pc, call, ok, heard, ops, fault>>

(***************************************************************************)
(* Sources and requests.  Of each link, declared is STREAMINFO's total,    *)
(* zero when it is unknown; actual is what the bytes really hold; shape    *)
(* is its rate, channels and depth; signed, whether its MD5 is right.      *)
(* Unchained, libFLAC stops at a declared total, so actual never exceeds   *)
(* it; a link of a chain may hold more than it declares.                   *)
(***************************************************************************)
Links(longest, shapes) ==
  [declared : 0 .. longest, actual : 0 .. longest, shape : shapes, signed : BOOLEAN]

Single == {l \in Links(MaxLength, {1}) : l.declared = 0 \/ l.actual <= l.declared}

Chain(n) == {links \in [1 .. n -> Links(MaxLength \div n, {1, 2})] : links[1].shape = 1}

Sources ==
  [links : {<<l>> : l \in Single}, java : BOOLEAN, reusable : BOOLEAN]
    \cup [links : UNION {Chain(n) : n \in 2 .. MaxLinks}, java : BOOLEAN, reusable : {FALSE}]

First(s) == s.links[1]
Last(s) == s.links[Len(s.links)]

\* The frames in the links up to k.
LinkEnd(s) ==
  LET end[k \in 0 .. Len(s.links)] ==
        IF k = 0 THEN 0 ELSE end[k - 1] + s.links[k].actual
  IN end

Numbers == -1 .. MaxLong

\* Chained decoding is for whole streams; md5 is an option of the same calls.
Requests(s) ==
  LET chaining == IF Len(s.links) > 1 THEN {TRUE} ELSE BOOLEAN
      whole == [kind : {"full"}, first : {0}, max : {0}, md5 : BOOLEAN, chained : chaining]
      from == [kind : {"from"}, first : Numbers, max : {0}, md5 : {FALSE}, chained : {FALSE}]
      range == [kind : {"range"}, first : Numbers, max : Numbers, md5 : {FALSE},
                chained : {FALSE}]
  IN IF Len(s.links) > 1 THEN whole
     ELSE from \cup range \cup (IF s.reusable THEN {} ELSE whole)

Limited(r) == r.kind = "range"

\* validate_decode_request: negative arguments and an end past MaxLong.
ValidRequest(r) ==
  /\ r.first >= 0
  /\ Limited(r) => r.max >= 0 /\ r.max <= MaxLong - r.first

(***************************************************************************)
(* DecodeContext: prepare_decode_context resets the fields of one          *)
(* operation and keeps what STREAMINFO said; configure_decode_range sets   *)
(* the window.                                                             *)
(***************************************************************************)
FreshContext ==
  [saw_error |-> FALSE, saw_stream_info |-> FALSE, total |-> 0,
   limited |-> FALSE, max |-> 0, first |-> 0, emitted |-> 0,
   complete |-> FALSE, consumer |-> FALSE,
   shape |-> 0, link_count |-> 0, link_total |-> 0, link_start |-> 0,
   link_md5_failed |-> FALSE]

\* mutant: the window of the previous operation stays
PreparedKeepingRange(c) ==
  [c EXCEPT !.saw_error = FALSE, !.first = 0, !.emitted = 0, !.complete = FALSE,
            !.consumer = TRUE]

Prepared(c) ==
  [c EXCEPT !.saw_error = FALSE, !.limited = FALSE, !.max = 0, !.first = 0,
            !.emitted = 0, !.complete = FALSE, !.consumer = TRUE]

Configured(c, r) ==
  [c EXCEPT !.limited = Limited(r), !.max = r.max, !.first = r.first,
            !.emitted = 0, !.complete = Limited(r) /\ r.max = 0]

KnownTotal(c) == c.saw_stream_info /\ c.total > 0

StartsAfterStream(c, r) == KnownTotal(c) /\ r.first > c.total
StartsAtStreamEnd(c, r) == KnownTotal(c) /\ r.first = c.total

\* validate_physical_eof_sample_count, without a pending exception.
CountAccepted(c) ==
  ~KnownTotal(c) \/ c.first >= c.total \/ c.emitted >= c.total - c.first

\* validate_chained_link_sample_count
LinkCountAccepted(c) ==
  c.link_total = 0 \/ c.emitted - c.link_start = c.link_total

Quiet == [infos |-> 0, count |-> 0, next |-> 0, damaged |-> FALSE, completed |-> FALSE]

Init ==
  /\ source \in Sources
  /\ req = [kind |-> "full", first |-> 0, max |-> 0, md5 |-> FALSE,
            chained |-> FALSE]
  \* openDecoderFile and openDecoderChannel read STREAMINFO before they publish.
  /\ ctx = IF source.reusable
             THEN [FreshContext EXCEPT !.saw_stream_info = TRUE,
                                       !.total = First(source).declared]
             ELSE FreshContext
  /\ dec = [state |-> IF source.reusable THEN "sync" ELSE "none",
            link |-> 1, pos |-> 0, corrupt |-> FALSE]
  /\ exc = "none" /\ pc = "idle" /\ call = "none" /\ ok = TRUE
  /\ heard = Quiet /\ ops = 0 /\ fault = FALSE

\* The JNI call returns with e pending; a one-shot call has deleted its
\* decoder and a session has dropped the consumer's local reference.
Return(e) ==
  /\ exc' = e
  /\ pc' = "returned"
  /\ dec' = IF source.reusable THEN dec ELSE [dec EXCEPT !.state = "none"]
  /\ ctx' = [ctx EXCEPT !.consumer = FALSE]

\* onComplete, which may throw.
Completes ==
  /\ heard' = [heard EXCEPT !.completed = TRUE]
  /\ \/ Return(exc) /\ UNCHANGED fault
     \/ Return("user") /\ fault' = TRUE

EnterLib(c) ==
  /\ pc' = "lib"
  /\ call' = c

(***************************************************************************)
(* Entry points.                                                           *)
(***************************************************************************)
MayBegin ==
  \/ pc = "idle"
  \/ pc = "returned" /\ source.reusable /\ exc = "none" /\ ops < MaxOps

BeginOp(r) ==
  /\ MayBegin
  /\ req' = r
  /\ ops' = ops + 1
  /\ heard' = [Quiet EXCEPT !.next = r.first]

RejectRequest(r) ==
  /\ BeginOp(r)
  /\ ~ValidRequest(r)
  /\ exc' = "argument"
  /\ pc' = "returned"
  /\ UNCHANGED <<source, ctx, dec, call, ok, fault>>

InitFails(r) ==
  /\ BeginOp(r)
  /\ ValidRequest(r) /\ ~source.reusable
  /\ exc' = "decode"
  /\ pc' = "returned"
  /\ fault' = TRUE
  /\ UNCHANGED <<source, ctx, dec, call, ok>>

BeginOneShot(r) ==
  /\ BeginOp(r)
  /\ ValidRequest(r) /\ ~source.reusable
  /\ ctx' = Configured(Prepared(ctx), r)
  /\ dec' = [dec EXCEPT !.state = "metadata"]
  /\ IF r.kind = "full" THEN pc' = "process" /\ UNCHANGED call
                        ELSE EnterLib("metadata")
  /\ UNCHANGED <<source, exc, ok, fault>>

\* seek_absolute: libFLAC refuses a target at or past a known total.
Seek(first) ==
  IF First(source).declared > 0 /\ first >= First(source).declared
    THEN /\ pc' = "sought" /\ call' = "seek" /\ ok' = FALSE
         /\ UNCHANGED dec
    ELSE /\ EnterLib("seek")
         /\ dec' = [dec EXCEPT !.state = "sync", !.pos = first]
         /\ UNCHANGED ok

\* decodeDecoderFrom
BeginSessionFrom(r) ==
  /\ BeginOp(r)
  /\ ValidRequest(r) /\ source.reusable /\ r.kind = "from"
  /\ ctx' = [Prepared(ctx) EXCEPT !.first = r.first]
  /\ Seek(r.first)
  /\ UNCHANGED <<source, exc, fault>>

\* decodeDecoderRange decides empty and past-the-end ranges before it seeks.
BeginSessionRange(r) ==
  LET c == Configured(Prepared(ctx), r) IN
  /\ BeginOp(r)
  /\ ValidRequest(r) /\ source.reusable /\ r.kind = "range"
  /\ ctx' = c
  /\ IF StartsAfterStream(c, r) \/ c.complete \/ StartsAtStreamEnd(c, r)
       THEN pc' = "ranged" /\ UNCHANGED <<dec, call, ok>>
       ELSE Seek(r.first)
  /\ UNCHANGED <<source, exc, fault>>

SettleSessionRange ==
  /\ pc = "ranged"
  /\ IF StartsAfterStream(ctx, req)
       THEN Return("decode") /\ UNCHANGED <<heard, fault>>
       ELSE Completes
  /\ UNCHANGED <<source, req, call, ok, ops>>

(***************************************************************************)
(* libFLAC, and the callbacks it makes.                                    *)
(***************************************************************************)
After ==
  [metadata |-> "metadata_read", seek |-> "sought",
   until_end |-> "called", until_link |-> "called", single |-> "called"]

LibReturns(result) ==
  /\ ok' = result
  /\ pc' = After[call]

LibContinues == UNCHANGED <<ok, pc>>

\* decode_metadata_callback: the first STREAMINFO reaches a one-shot consumer,
\* which may throw; later links of a chain must have its shape.
ReadStreamInfo ==
  LET l == source.links[dec.link]
      c == IF req.chained
             THEN [ctx EXCEPT !.link_total = l.declared, !.link_start = ctx.emitted,
                              !.link_count = @ + 1]
             ELSE ctx
  IN /\ pc = "lib" /\ dec.state = "metadata"
     /\ dec' = [dec EXCEPT !.state = "sync"]
     /\ IF ctx.link_count > 0 THEN
             /\ ctx' = IF l.shape = ctx.shape THEN c ELSE [c EXCEPT !.link_count = @ - 1]
             /\ exc' = IF l.shape = ctx.shape THEN exc ELSE "decode"
             /\ UNCHANGED <<heard, fault>>
        ELSE /\ ctx' = [c EXCEPT !.saw_stream_info = TRUE, !.total = l.declared,
                                 !.shape = l.shape]
             /\ heard' = [heard EXCEPT !.infos = @ + 1]
             /\ \/ UNCHANGED <<exc, fault>>
                \/ exc' = "user" /\ fault' = TRUE
     /\ IF call = "metadata" THEN LibReturns(TRUE) ELSE LibContinues
     /\ UNCHANGED <<source, req, call, ops>>

\* decode_write_callback on the frames [start, start + n).
WriteCallback(start, n, genuine) ==
  LET out == IF ctx.limited /\ ctx.max - ctx.emitted < n
               THEN ctx.max - ctx.emitted ELSE n
      told == [heard EXCEPT !.count = @ + out, !.next = start + out,
                 !.damaged = @ \/ ~genuine \/ start # heard.next]
      aborted == [dec EXCEPT !.pos = start,
                    !.state = IF call = "seek" THEN "seek_error" ELSE "aborted"]
  IN \/ /\ exc # "none" \/ ctx.saw_error
        /\ dec' = aborted
        /\ LibReturns(FALSE)
        /\ UNCHANGED <<ctx, exc, heard, fault>>
     \/ /\ exc = "none" /\ ~ctx.saw_error
        /\ heard' = told
        /\ exc' = "user" /\ fault' = TRUE
        /\ dec' = aborted
        /\ LibReturns(FALSE)
        /\ UNCHANGED ctx
     \/ /\ exc = "none" /\ ~ctx.saw_error
        /\ heard' = told
        /\ ctx' = [ctx EXCEPT !.emitted = @ + out,
                     !.complete = @ \/ (ctx.limited /\ ctx.emitted + out >= ctx.max)]
        /\ dec' = [dec EXCEPT !.pos = start + n]
        /\ IF call \in {"until_end", "until_link"} THEN LibContinues
                                                    ELSE LibReturns(TRUE)
        /\ UNCHANGED <<exc, fault>>

Decoding == pc = "lib" /\ dec.state = "sync"

DecodeFrame(n) ==
  /\ Decoding
  /\ n <= LinkEnd(source)[dec.link] - dec.pos
  /\ WriteCallback(dec.pos, n, TRUE)
  /\ UNCHANGED <<source, req, call, ops>>

\* After an error libFLAC may fill the frames it lost with silence.
InsertSilence(n) ==
  /\ Decoding /\ dec.corrupt /\ dec.pos + n <= MaxLength
  /\ WriteCallback(dec.pos, n, FALSE)
  /\ UNCHANGED <<source, req, call, ops>>

\* decode_error_callback records and returns; frames may be lost.
ReportError ==
  /\ pc = "lib" /\ dec.state \in {"metadata", "sync"} /\ ~dec.corrupt
  /\ ctx' = [ctx EXCEPT !.saw_error = TRUE]
  /\ \E p \in dec.pos .. MaxLength :
       /\ p = dec.pos \/ (p <= LinkEnd(source)[dec.link] /\ dec.state = "sync")
       /\ dec' = [dec EXCEPT !.corrupt = TRUE, !.pos = p]
  /\ fault' = TRUE
  /\ UNCHANGED <<source, req, exc, pc, call, ok, heard, ops>>

\* A frame libFLAC dropped ends process_single with TRUE and no block.
DropFrame ==
  /\ Decoding /\ dec.corrupt /\ call = "single"
  /\ LibReturns(TRUE)
  /\ UNCHANGED <<source, req, ctx, dec, exc, call, heard, ops, fault>>

\* A read callback that aborts, over Java with an exception pending.  Between
\* frames libFLAC returns TRUE and leaves the abort to its state.
ReadAborts ==
  /\ pc = "lib" /\ dec.state \in {"metadata", "sync"}
  /\ source.java \/ FileReadErrors
  /\ exc' = IF source.java /\ exc = "none" THEN "transport" ELSE exc
  /\ dec' = [dec EXCEPT !.state = IF call = "seek" THEN "seek_error" ELSE "aborted"]
  /\ \E result \in BOOLEAN :
       /\ result => dec.state = "sync" /\ call \notin {"metadata", "seek"}
       /\ LibReturns(result)
  /\ fault' = TRUE
  /\ UNCHANGED <<source, req, ctx, call, heard, ops>>

\* Out of frames: at the end of a link of a chain, or of the stream.
EndOfLink ==
  /\ Decoding /\ dec.pos >= LinkEnd(source)[dec.link]
  /\ dec' = [dec EXCEPT !.state = IF call = "seek" THEN "seek_error"
                                  ELSE IF dec.link < Len(source.links) THEN "eol" ELSE "eos"]
  /\ LibReturns(call # "seek")
  /\ UNCHANGED <<source, req, ctx, exc, call, heard, ops, fault>>

\* A decoder that is not between frames returns at once: with FALSE after a
\* failed seek, with TRUE at its end or after an abort.
LibRefuses ==
  /\ pc = "lib" /\ dec.state \in {"seek_error", "eos", "aborted"}
  /\ LibReturns(dec.state # "seek_error")
  /\ UNCHANGED <<source, req, ctx, dec, exc, call, heard, ops, fault>>

(***************************************************************************)
(* The entry points again, after each libFLAC call.                        *)
(***************************************************************************)
AfterMetadata ==
  /\ pc = "metadata_read"
  /\ IF exc # "none" THEN
          Return(exc) /\ UNCHANGED <<call, ok, heard, fault>>
     ELSE IF ~ok \/ ctx.saw_error \/ StartsAfterStream(ctx, req) THEN
          Return("decode") /\ UNCHANGED <<call, ok, heard, fault>>
     ELSE IF ctx.complete \/ StartsAtStreamEnd(ctx, req) THEN
          Completes /\ UNCHANGED <<call, ok>>
     ELSE IF req.first = 0 THEN
          pc' = "process" /\ UNCHANGED <<ctx, dec, exc, call, ok, heard, fault>>
     ELSE Seek(req.first) /\ UNCHANGED <<ctx, exc, heard, fault>>
  /\ UNCHANGED <<source, req, ops>>

\* mutant: a failed seek reports itself over the exception that made it fail
SeekErrorFirst ==
  /\ pc = "sought"
  /\ IF ~ok \/ ctx.saw_error THEN Return("decode")
     ELSE IF exc # "none" /\ ~source.reusable THEN Return(exc)
     ELSE pc' = "process" /\ UNCHANGED <<ctx, dec, exc>>
  /\ UNCHANGED <<source, req, call, ok, heard, ops, fault>>

\* Only the one-shot paths stop here on a pending exception; a session goes on
\* into process_decode_stream, which sees it.
AfterSeek ==
  /\ pc = "sought"
  /\ IF exc = "none" /\ (~ok \/ ctx.saw_error) THEN Return("decode")
     ELSE IF exc # "none" /\ ~source.reusable THEN Return(exc)
     ELSE pc' = "process" /\ UNCHANGED <<ctx, dec, exc>>
  /\ UNCHANGED <<source, req, call, ok, heard, ops, fault>>

\* process_decode_stream
Decide(result) ==
  /\ pc' = "finish"
  /\ ok' = result
  /\ UNCHANGED <<exc, call>>

AtPhysicalEnd ==
  IF CountAccepted(ctx) THEN Decide(TRUE)
  ELSE exc' = "decode" /\ pc' = "finish" /\ ok' = FALSE /\ UNCHANGED call

Process ==
  /\ pc = "process"
  /\ IF ~ctx.limited THEN EnterLib(IF req.chained THEN "until_link" ELSE "until_end")
                           /\ UNCHANGED <<ok, exc>>
     ELSE IF ctx.complete THEN Decide(TRUE)
     ELSE IF exc # "none" THEN Decide(FALSE)
     ELSE EnterLib("single") /\ UNCHANGED <<ok, exc>>
  /\ UNCHANGED <<source, req, ctx, dec, heard, ops, fault>>

AfterUntilEnd ==
  /\ pc = "called" /\ call = "until_end"
  /\ IF ~ok \/ ctx.saw_error \/ exc # "none" THEN Decide(FALSE)
     ELSE IF dec.state # "eos" THEN Decide(TRUE)
     ELSE AtPhysicalEnd
  /\ UNCHANGED <<source, req, ctx, dec, heard, ops, fault>>

\* A chain goes link by link, so that finish_link's MD5 verdict is not lost.
AfterLink ==
  /\ pc = "called" /\ call = "until_link"
  /\ IF ~ok \/ ctx.saw_error \/ exc # "none" \/ dec.state \notin {"eol", "eos"} THEN
          Decide(FALSE) /\ UNCHANGED <<ctx, dec>>
     ELSE IF ~LinkCountAccepted(ctx) THEN
          exc' = "decode" /\ pc' = "finish" /\ ok' = FALSE /\ UNCHANGED <<ctx, dec, call>>
     ELSE IF dec.state = "eos" THEN
          Decide(TRUE) /\ UNCHANGED <<ctx, dec>>
     ELSE IF req.md5 /\ ~source.links[dec.link].signed THEN
          Decide(FALSE) /\ ctx' = [ctx EXCEPT !.link_md5_failed = TRUE] /\ UNCHANGED dec
     ELSE /\ dec' = [dec EXCEPT !.state = "metadata", !.link = @ + 1]
          /\ pc' = "process"
          /\ UNCHANGED <<ctx, exc, ok, call>>
  /\ UNCHANGED <<source, req, heard, ops, fault>>

\* mutant: a reported stream error is forgotten when the call succeeded
TrustSingle ==
  /\ pc = "called" /\ call = "single"
  /\ IF ~ok \/ exc # "none" THEN Decide(FALSE)
     ELSE IF dec.state = "eos" THEN AtPhysicalEnd
     ELSE IF dec.state = "aborted" THEN Decide(FALSE)
     ELSE pc' = "process" /\ UNCHANGED <<ok, exc, call>>
  /\ UNCHANGED <<source, req, ctx, dec, heard, ops, fault>>

\* mutant: only the end of the range ends the loop
NoPhysicalEnd ==
  /\ pc = "called" /\ call = "single"
  /\ IF ~ok \/ ctx.saw_error \/ exc # "none" \/ dec.state = "aborted"
       THEN Decide(FALSE)
       ELSE pc' = "process" /\ UNCHANGED <<ok, exc, call>>
  /\ UNCHANGED <<source, req, ctx, dec, heard, ops, fault>>

AfterSingle ==
  /\ pc = "called" /\ call = "single"
  /\ IF ~ok \/ ctx.saw_error \/ exc # "none" THEN Decide(FALSE)
     ELSE IF dec.state = "eos" THEN AtPhysicalEnd
     ELSE IF dec.state = "aborted" THEN Decide(FALSE)
     ELSE pc' = "process" /\ UNCHANGED <<ok, exc, call>>
  /\ UNCHANGED <<source, req, ctx, dec, heard, ops, fault>>

\* A one-shot decode finishes its decoder, which compares the last MD5 signature
\* when the caller asked for it; a pending Java exception wins.
Finish ==
  /\ pc = "finish"
  /\ IF exc # "none" THEN Return(exc) /\ UNCHANGED <<heard, fault>>
     ELSE IF \/ req.md5 /\ ctx.link_md5_failed
             \/ ~ok
             \/ req.md5 /\ ~Last(source).signed
       THEN Return("decode") /\ UNCHANGED <<heard, fault>>
     ELSE Completes
  /\ UNCHANGED <<source, req, call, ok, ops>>

Idle ==
  /\ pc = "returned" /\ ~MayBegin
  /\ UNCHANGED vars

Begin ==
  \E r \in Requests(source) :
    \/ RejectRequest(r)
    \/ InitFails(r)
    \/ BeginOneShot(r)
    \/ BeginSessionFrom(r)
    \/ BeginSessionRange(r)

LibFLAC ==
  \/ ReadStreamInfo
  \/ \E n \in 1 .. MaxBlock : DecodeFrame(n) \/ InsertSilence(n)
  \/ ReportError
  \/ DropFrame
  \/ ReadAborts
  \/ EndOfLink
  \/ LibRefuses

Entry ==
  \/ SettleSessionRange
  \/ AfterMetadata
  \/ AfterSeek
  \/ Process
  \/ AfterUntilEnd
  \/ AfterLink
  \/ AfterSingle
  \/ Finish

Next == Begin \/ LibFLAC \/ Entry \/ Idle

\* The operation runs on the caller's thread: it goes on as long as the JVM
\* schedules the thread and the transport and the consumer return.
Spec == Init /\ [][Next]_vars /\ WF_vars(LibFLAC \/ Entry)

(***************************************************************************)
(* Properties.                                                             *)
(***************************************************************************)
Length ==
  IF ~req.chained /\ First(source).declared > 0
    THEN First(source).declared
    ELSE LinkEnd(source)[Len(source.links)]

\* The frames the current request stands for, -1 when it names no range.
Wanted ==
  IF ~ValidRequest(req) THEN -1
  ELSE IF Limited(req) /\ req.max = 0
       /\ (First(source).declared = 0 \/ req.first <= Length) THEN 0
  ELSE IF req.first > Length THEN -1
  ELSE IF Limited(req) /\ req.max < Length - req.first THEN req.max
  ELSE Length - req.first

Outcome ==
  CASE pc = "idle" -> "idle"
    [] pc = "returned" -> IF exc = "none" THEN "complete" ELSE "thrown"
    [] OTHER -> "running"

Contract ==
  INSTANCE DecodeContract WITH
    MaxWanted <- MaxLength,
    wanted <- IF pc = "idle" THEN 0 ELSE Wanted,
    received <- IF heard.damaged THEN -1 ELSE heard.count,
    outcome <- Outcome

\* The native callbacks and the process loop hand over the request's samples in
\* order, once, none of them synthetic, and onComplete comes after the last.
ImplementsContract == Contract!Spec

\* "Java exceptions raised by callbacks must win over synthetic native errors":
\* once pending, an exception is the one the operation throws.
FirstExceptionWins ==
  [][exc # "none" => exc' = exc]_vars

\* What a whole-stream decode must notice in the bytes: a stream shorter than it
\* declares, a link of another length or shape, a signature that differs.
Truncated == First(source).declared > First(source).actual

Defective ==
  \/ req.chained /\ \E k \in 1 .. Len(source.links) :
       LET l == source.links[k] IN
         \/ l.declared \notin {0, l.actual}
         \/ l.shape # First(source).shape
         \/ req.md5 /\ ~l.signed
  \/ ~req.chained /\ req.kind = "full" /\ (Truncated \/ (req.md5 /\ ~First(source).signed))

\* No fault is silent: an operation during which libFLAC reported an error, the
\* transport or the consumer threw, or a whole-stream decode of defective bytes,
\* throws.  And none is invented: a range inside a sound source fails only then.
FaultsDecideTheOutcome ==
  pc = "returned" =>
    /\ fault \/ (ValidRequest(req) /\ Defective) => exc # "none"
    /\ exc # "none" =>
         \/ fault \/ Defective
         \/ ~ValidRequest(req)
         \/ req.kind # "full" /\ (Truncated \/ req.first >= First(source).actual)

\* Every operation returns, whatever mix of errors and frames libFLAC reports.
OperationsReturn == (pc = "lib") ~> (pc = "returned")

\* onComplete of a whole-stream decode means libFLAC reached the end of it.
CompleteMeansEndOfStream ==
  pc = "returned" /\ req.kind = "full" /\ heard.completed =>
    heard.count = Length

(***************************************************************************)
(* What makes these properties inductive.                                  *)
(***************************************************************************)
Origins == {"none", "argument", "decode", "transport", "user"}
DecoderStates == {"none", "metadata", "sync", "eol", "eos", "aborted", "seek_error"}
Places == {"idle", "ranged", "process", "lib", "metadata_read", "sought", "called",
           "finish", "returned"}

Contexts ==
  [saw_error : BOOLEAN, saw_stream_info : BOOLEAN, total : Nat, limited : BOOLEAN,
   max : Int, first : Int, emitted : Nat, complete : BOOLEAN, consumer : BOOLEAN,
   shape : Nat, link_count : Nat, link_total : Nat, link_start : Nat,
   link_md5_failed : BOOLEAN]

Decoders == [state : DecoderStates, link : Nat \ {0}, pos : Nat, corrupt : BOOLEAN]

Hearings ==
  [infos : Nat, count : Nat, next : Int, damaged : BOOLEAN, completed : BOOLEAN]

EngineTypeOK ==
  /\ source \in Sources
  /\ req \in [kind : {"full", "from", "range"}, first : Numbers, max : Numbers,
              md5 : BOOLEAN, chained : BOOLEAN]
  /\ ctx \in Contexts /\ dec \in Decoders /\ heard \in Hearings
  /\ exc \in Origins /\ pc \in Places /\ call \in DOMAIN After \cup {"none"}
  /\ ok \in BOOLEAN /\ ops \in Nat /\ fault \in BOOLEAN

Running == pc \notin {"idle", "returned"}

\* No libFLAC call begins in a place where an exception could be overwritten.
QuietPlaces ==
  /\ pc \in {"idle", "ranged"} => exc = "none"
  /\ dec.state = "metadata" => exc = "none" /\ ~source.reusable /\ Running /\ pc # "ranged"

\* The operation works on its own request, and the context on its window.
WindowKept ==
  /\ pc # "idle" => req \in Requests(source)
  /\ pc = "idle" => ~req.chained /\ dec.pos = 0
  /\ Running =>
       /\ ValidRequest(req)
       /\ ctx.limited = Limited(req) /\ ctx.max = req.max /\ ctx.first = req.first
       /\ ctx.limited => ctx.emitted <= ctx.max
       /\ ctx.complete <=> ctx.limited /\ ctx.emitted >= ctx.max

\* What the context knows of the stream is what the first STREAMINFO said.
InfoKept ==
  /\ ctx.saw_stream_info => ctx.total = First(source).declared
  /\ source.reusable \/ ctx.link_count > 0 => ctx.saw_stream_info
  /\ dec.state \in {"sync", "eol", "eos"} => ctx.saw_stream_info
  /\ dec.link <= Len(source.links) /\ (dec.state = "eol" => dec.link < Len(source.links))
  /\ ~req.chained => dec.link = 1 /\ ctx.link_count = 0
  /\ dec.state = "metadata" => ctx.link_count = dec.link - 1
  /\ req.chained /\ exc = "none" /\ dec.state \in {"sync", "eol", "eos"} =>
       ctx.link_count = dec.link

\* Which libFLAC call serves which request.
CallFits ==
  /\ pc \in {"metadata_read", "sought"} => req.kind # "full"
  /\ pc = "ranged" => Limited(req) /\ source.reusable
  /\ pc = "lib" /\ call = "metadata" => dec.state = "metadata"
  /\ pc = "metadata_read" /\ ok => ctx.saw_stream_info
  /\ pc \in {"lib", "called"} =>
       /\ call # "none"
       /\ call \in {"metadata", "seek"} => req.kind # "full" /\ pc = "lib"
       /\ call = "single" => ctx.limited
       /\ call = "until_end" => ~ctx.limited /\ ~req.chained
       /\ call = "until_link" => req.chained

\* These hold whatever libFLAC's own file reads do.
ControlInv == EngineTypeOK /\ QuietPlaces /\ WindowKept /\ InfoKept /\ CallFits

\* A fault is an exception or, until the entry point has looked, saw_error.
FaultsAreNoticed ==
  /\ ctx.saw_error /\ Running => fault
  /\ dec.corrupt => fault
  /\ fault /\ exc = "none" =>
       /\ ctx.saw_error
       /\ pc \in {"lib", "metadata_read", "sought", "called", "finish"}
       /\ pc = "finish" => ~ok

\* The consumer was told what the context counts, and nothing out of order.
HeardInOrder ==
  /\ ~heard.damaged
  /\ heard.next = req.first + heard.count
  /\ Running /\ exc = "none" => heard.count = ctx.emitted

\* The frames before link k.
Before(k) == IF k = 1 THEN 0 ELSE LinkEnd(source)[k - 1]

\* While nothing went wrong, libFLAC stands where the context has counted to, or
\* past it when a block overshot the range, and inside the current link.
Exact ==
  /\ dec.pos <= LinkEnd(source)[dec.link]
  /\ dec.pos >= req.first + ctx.emitted
  /\ ctx.complete \/ dec.pos = req.first + ctx.emitted

PositionKept ==
  ~fault /\ exc = "none" =>
    /\ pc = "ranged" =>
         ctx.emitted = 0 /\ (ctx.complete \/ (KnownTotal(ctx) /\ req.first >= ctx.total))
    /\ pc = "metadata_read" => ok /\ dec.state = "sync" /\ dec.pos = 0 /\ ctx.emitted = 0
    /\ pc = "lib" =>
         /\ call # "metadata" => ~ctx.complete
         /\ \/ dec.state = "metadata" /\ call # "seek"
            \/ dec.state = "sync" /\ call # "metadata"
         /\ call = "metadata" => ctx.emitted = 0 /\ dec.pos = 0
         /\ call = "seek" => ctx.emitted = 0 /\ dec.pos = req.first
         /\ call \notin {"metadata", "seek"} => Exact
    /\ pc = "sought" =>
         IF ok THEN Exact /\ dec.state = "sync" ELSE req.first >= First(source).actual
    /\ pc = "process" => Exact /\ dec.state \in {"metadata", "sync"}
    /\ dec.state = "metadata" => ctx.emitted = Before(dec.link)
    /\ pc = "called" =>
         /\ ok /\ Exact
         /\ \/ dec.state = "sync" /\ call = "single"
            \/ /\ dec.state = IF dec.link < Len(source.links) THEN "eol" ELSE "eos"
               /\ ~ctx.complete /\ dec.pos = LinkEnd(source)[dec.link]

\* The links behind the decoder are sound, and the context counts in this one.
SoundLink(k) ==
  LET l == source.links[k] IN
    /\ l.declared \in {0, l.actual}
    /\ l.shape = First(source).shape
    /\ req.md5 => l.signed

ChainKept ==
  ~fault /\ exc = "none" /\ req.chained /\ pc \in {"process", "lib", "called"} =>
    /\ \A k \in 1 .. dec.link - 1 : SoundLink(k)
    /\ ctx.link_count > 0 => ctx.shape = First(source).shape
    /\ dec.state # "metadata" =>
         /\ source.links[dec.link].shape = First(source).shape
         /\ ctx.link_total = source.links[dec.link].declared
         /\ ctx.link_start = Before(dec.link)

\* An exception has a cause in the request, in the bytes or in a fault.
Explained ==
  \/ fault \/ Defective
  \/ ~ValidRequest(req)
  \/ req.kind # "full" /\ (Truncated \/ req.first >= First(source).actual)

OutcomeExplained ==
  /\ exc # "none" => Explained
  /\ pc = "finish" /\ ~ok => Explained
  /\ ctx.link_md5_failed => ~source.reusable /\ pc # "idle" /\ Defective
  /\ pc = "finish" /\ ok /\ exc = "none" =>
       /\ ctx.emitted = Wanted
       /\ Defective => req.md5 /\ ~Last(source).signed
  /\ pc = "returned" /\ exc = "none" => ~Defective

EngineInv ==
  /\ ControlInv /\ FaultsAreNoticed /\ HeardInOrder /\ PositionKept /\ ChainKept
  /\ OutcomeExplained
=============================================================================
