--------------------------- MODULE PcmStreamProofs ---------------------------
(***************************************************************************)
(* Proofs about PullRead and, on top of it, PcmStream, for frames, blocks, *)
(* reads, buffers and streams of any size.                                 *)
(*                                                                         *)
(* PullRead: the inductive invariant PullInv, what a short read means, and *)
(* that the reads together implement one DecodeContract operation.         *)
(* PcmStream: what its reads return is the decoded stream without a gap,   *)
(* and a write that returns normally has encoded all of it.                *)
(***************************************************************************)
EXTENDS PcmStream, TLAPS

\* Frame counts are subtracted only downwards.
LEMMA Difference == \A a, b \in Nat : a <= b => b - a \in Nat
  OBVIOUS

\* What a drain does to frames p, when no frame before p is missing in Java.
LEMMA DrainCopies ==
  ASSUME emitted \in Nat, taken = [count |-> emitted, intact |-> TRUE],
         NEW p \in [from : Nat, to : Nat], p.from <= p.to,
         p.from < p.to => p.from = emitted,
         NEW wants \in Nat, Drain(p, wants)
  PROVE  /\ emitted' \in Nat /\ emitted <= emitted' /\ emitted' - emitted <= wants
         /\ taken' = [count |-> emitted', intact |-> TRUE]
         /\ emitted' - emitted <= p.to - p.from
         /\ emitted' - emitted = p.to - p.from => pending' = NoPending
         /\ emitted' - emitted # p.to - p.from =>
              /\ emitted' - emitted = wants
              /\ pending' = [from |-> emitted', to |-> p.to] /\ emitted' < p.to
  <1> DEFINE available == p.to - p.from
             copied == IF available < wants THEN available ELSE wants
  <1>1. available \in Nat /\ copied \in Nat /\ copied <= wants /\ copied <= available
    OBVIOUS
  <1>2. emitted' = emitted + copied
    BY DEF Drain
  <1>3. taken' = [count |-> emitted', intact |-> TRUE]
    <2>1. copied > 0 => p.from = taken.count
      OBVIOUS
    <2>2. taken' = [count |-> taken.count + copied, intact |-> TRUE]
      BY <2>1 DEF Drain
    <2> QED
      BY <1>2, <2>2
  <1>4. CASE copied = available
    <2>1. pending' = NoPending
      BY <1>4 DEF Drain
    <2> QED
      BY <1>1, <1>2, <1>3, <1>4, <2>1
  <1>5. CASE copied # available
    <2>1. pending' = [p EXCEPT !.from = @ + copied]
      BY <1>5 DEF Drain
    <2>2. copied = wants /\ p.from = emitted
      BY <1>1, <1>5
    <2>3. pending' = [from |-> emitted', to |-> p.to]
      BY <1>1, <1>2, <2>1, <2>2
    <2> QED
      BY <1>1, <1>2, <1>3, <1>5, <2>2, <2>3
  <1> QED
    BY <1>4, <1>5

-----------------------------------------------------------------------------
(* The inductive invariant.                                                *)

\* A freshly opened pull decoder has emitted nothing and owes nothing.
LEMMA InitInv == Init => PullInv
  <1> SUFFICES ASSUME Init PROVE PullInv
    OBVIOUS
  <1>1. TypeOK
    BY DEF Init, TypeOK, NoPending
  <1>2. source.actual \in Nat
    BY PullAssumption DEF Init, Sources
  <1>3. Conserved
    BY <1>2 DEF Init, Conserved, Empty, NoPending
  <1>4. ErrorsSurface /\ EndIsReal /\ ReadsFill
    BY DEF Init, ErrorsSurface, EndIsReal, ReadsFill, Empty, NoPending
  <1> QED
    BY <1>1, <1>3, <1>4 DEF PullInv

\* A read drains what an earlier one left; it begins on an error-free session.
LEMMA BeginReadKeepsInv ==
  ASSUME PullInv, NEW n \in 0 .. MaxRequest, BeginRead(n)
  PROVE  PullInv'
  <1> n \in Nat
    BY PullAssumption
  <1> USE DEF PullInv
  <1>1. CASE n = 0
    BY <1>1 DEF BeginRead, TypeOK, Conserved, ErrorsSurface, EndIsReal, ReadsFill, Empty,
        Length
  <1>2. CASE n # 0
    <2>1. /\ pc = "idle" /\ ~exc /\ saw_error' = FALSE /\ pc' = "loop"
          /\ Drain(pending, n)
          /\ read' = [requested |-> n, written |-> emitted' - emitted]
          /\ UNCHANGED <<source, dec, eos, exc, ok>>
      BY <1>2 DEF BeginRead
    <2>2. /\ pending \in [from : Nat, to : Nat] /\ emitted \in Nat
          /\ pending.from \in Nat /\ pending.to \in Nat
      BY DEF TypeOK
    <2>3. /\ taken = [count |-> emitted, intact |-> TRUE]
          /\ pending.from <= pending.to
          /\ pending.from < pending.to => pending.from = emitted /\ pending.to = dec.pos
      BY <2>2 DEF Conserved, Empty, NoPending
    <2>4. /\ emitted' \in Nat /\ emitted <= emitted' /\ emitted' - emitted <= n
          /\ taken' = [count |-> emitted', intact |-> TRUE]
          /\ emitted' - emitted <= pending.to - pending.from
          /\ emitted' - emitted = pending.to - pending.from => pending' = NoPending
          /\ emitted' - emitted # pending.to - pending.from =>
               /\ emitted' - emitted = n
               /\ pending' = [from |-> emitted', to |-> pending.to] /\ emitted' < pending.to
      BY <2>1, <2>2, <2>3, DrainCopies
    <2> DEFINE copied == emitted' - emitted
    <2>5. copied \in Nat /\ copied <= n
      BY <2>2, <2>4, Difference
    <2>6. /\ copied \in Nat /\ copied <= n
          /\ pending' \in [from : Nat, to : Nat]
      <3>1. CASE copied = pending.to - pending.from
        <4>1. pending' = NoPending
          BY <2>4, <3>1
        <4> QED
          BY <2>5, <4>1 DEF NoPending
      <3>2. CASE copied # pending.to - pending.from
        <4>1. pending' = [from |-> emitted', to |-> pending.to]
          BY <2>4, <3>2
        <4> QED
          BY <2>5, <2>2, <2>4, <4>1
      <3> QED
        BY <3>1, <3>2
    <2>7. /\ taken' \in [count : Nat, intact : BOOLEAN]
          /\ read' \in [requested : Nat, written : Nat]
          /\ read'.requested = n /\ read'.written = copied
      BY <2>1, <2>4, <2>6
    <2>8. \/ pending' = NoPending /\ copied = pending.to - pending.from
          \/ /\ copied = n /\ copied < pending.to - pending.from
             /\ pending' = [from |-> emitted', to |-> pending.to] /\ emitted' < pending.to
      <3>1. CASE copied = pending.to - pending.from
        BY <2>4, <3>1
      <3>2. CASE copied # pending.to - pending.from
        <4>1. copied < pending.to - pending.from
          BY <2>2, <2>4, <2>6, <3>2
        <4> QED
          BY <2>4, <3>2, <4>1
      <3> QED
        BY <3>1, <3>2
    <2>9. TypeOK'
      BY <2>1, <2>4, <2>6, <2>7 DEF TypeOK
    <2>10. Conserved'
      <3>1. CASE pending' = NoPending
        <4>1. Empty(pending')
          BY <3>1 DEF Empty, NoPending
        <4>2. copied = pending.to - pending.from
          <5>1. pending'.to = 0 /\ pending'.from = 0
            BY <3>1 DEF NoPending
          <5>2. emitted' \in Nat
            BY <2>4
          <5>3. ~(pending' = [from |-> emitted', to |-> pending.to] /\ emitted' < pending.to)
            BY <2>2, <5>1, <5>2
          <5> QED
            BY <2>8, <5>3
        <4>3. emitted' <= dec.pos /\ (~dec.corrupt => emitted' = dec.pos)
          <5>1. /\ emitted \in Nat /\ emitted' \in Nat /\ dec.pos \in Nat
                /\ emitted' - emitted = pending.to - pending.from
            BY <2>2, <2>4, <4>2 DEF TypeOK
          <5>2. CASE Empty(pending)
            <6>1. /\ pending.to - pending.from = 0
                  /\ emitted <= dec.pos /\ (~dec.corrupt => emitted = dec.pos)
              BY <5>2 DEF Conserved, NoPending
            <6> QED
              BY <5>1, <6>1
          <5>3. CASE ~Empty(pending)
            <6>1. pending.from = emitted /\ pending.to = dec.pos
              BY <5>3 DEF Conserved
            <6> QED
              BY <5>1, <6>1
          <5> QED
            BY <5>2, <5>3
        <4> QED
          BY <2>1, <2>4, <3>1, <4>1, <4>3 DEF Conserved, Empty
      <3>2. CASE pending' # NoPending
        <4>1. /\ pending' = [from |-> emitted', to |-> pending.to] /\ emitted' < pending.to
              /\ pending.to = dec.pos
          BY <2>2, <2>3, <2>8, <3>2
        <4> QED
          BY <2>1, <2>2, <2>4, <4>1 DEF TypeOK, Conserved, Empty
      <3> QED
        BY <3>1, <3>2
    <2>11. ErrorsSurface'
      BY <2>1 DEF TypeOK, ErrorsSurface
    <2>12. EndIsReal'
      BY <2>1, <2>2, <2>3, <2>4 DEF TypeOK, EndIsReal, Conserved, Empty, NoPending, Length
    <2>13. ReadsFill'
      BY <1>2, <2>1, <2>6, <2>7, <2>8 DEF ReadsFill, Empty, NoPending
    <2> QED
      BY <2>9, <2>10, <2>11, <2>12, <2>13
  <1> QED
    BY <1>1, <1>2

\* The loop ends with the read full or the stream ended.
LEMMA LoopKeepsInv ==
  ASSUME PullInv, Loop
  PROVE  PullInv'
  BY DEF PullInv, Loop, TypeOK, Conserved, ErrorsSurface, EndIsReal, ReadsFill, Empty,
         Length

\* libFLAC runs only with nothing pending, so a block is drained from its start.
LEMMA DecodeFrameKeepsInv ==
  ASSUME PullInv, NEW n \in 1 .. MaxBlock, DecodeFrame(n)
  PROVE  PullInv'
  <1> n \in Nat /\ n > 0
    BY PullAssumption
  <1> USE DEF PullInv
  <1>1. /\ pc = "lib" /\ dec.state = "sync" /\ n <= source.actual - dec.pos
        /\ WriteCallback(dec.pos, n)
        /\ UNCHANGED <<source, saw_error, eos, result>>
    BY DEF DecodeFrame, Decoding
  <1>2. Empty(pending) /\ ~exc /\ ~eos
    BY <1>1 DEF ReadsFill, ErrorsSurface, EndIsReal
  <1>3. source.actual \in Nat /\ source.declared \in Nat
    BY PullAssumption DEF TypeOK, Sources
  <1>4. CASE saw_error
    <2>1. /\ dec' = [dec EXCEPT !.state = "aborted"] /\ ok' = FALSE /\ pc' = "called"
          /\ UNCHANGED <<pending, emitted, exc, read, taken>>
      BY <1>1, <1>4 DEF WriteCallback, LibReturns
    <2> QED
      BY <1>1, <1>2, <1>4, <2>1
      DEF TypeOK, Conserved, ErrorsSurface, EndIsReal, ReadsFill, Empty, Length
  <1>5. CASE ~saw_error
    <2> DEFINE block == [from |-> dec.pos, to |-> dec.pos + n]
               wants == read.requested - read.written
    <2>1. /\ Drain(block, wants)
          /\ read' = [read EXCEPT !.written = @ + (emitted' - emitted)]
          /\ dec' = [dec EXCEPT !.pos = @ + n]
          /\ ok' = TRUE /\ pc' = "called" /\ exc' = exc
      BY <1>1, <1>2, <1>5 DEF WriteCallback, LibReturns
    <2>2. /\ emitted \in Nat /\ dec.pos \in Nat /\ wants \in Nat /\ wants > 0
          /\ block \in [from : Nat, to : Nat]
      BY <1>1 DEF TypeOK, ReadsFill
    <2>3. emitted = dec.pos /\ ~dec.corrupt /\ taken = [count |-> emitted, intact |-> TRUE]
      BY <1>2, <1>5 DEF Conserved, ErrorsSurface
    <2>4. /\ emitted' \in Nat /\ emitted <= emitted' /\ emitted' - emitted <= wants
          /\ taken' = [count |-> emitted', intact |-> TRUE]
          /\ emitted' - emitted <= n
          /\ emitted' - emitted = n => pending' = NoPending
          /\ emitted' - emitted # n =>
               /\ emitted' - emitted = wants
               /\ pending' = [from |-> emitted', to |-> dec.pos + n]
               /\ emitted' < dec.pos + n
      <3>1. block.from = dec.pos /\ block.to = dec.pos + n /\ block.to - block.from = n
        BY <2>2
      <3> HIDE DEF block, wants
      <3> QED
        BY <2>1, <2>2, <2>3, <3>1, DrainCopies
    <2>5. TypeOK'
      BY <1>1, <2>1, <2>2, <2>4 DEF TypeOK, NoPending
    <2>6. Conserved'
      BY <1>1, <1>3, <2>1, <2>2, <2>3, <2>4 DEF TypeOK, Conserved, Empty, NoPending
    <2>7. ErrorsSurface'
      BY <1>1, <1>2, <1>5, <2>1, <2>3 DEF TypeOK, ErrorsSurface
    <2>8. EndIsReal'
      BY <1>1, <1>2, <2>1 DEF TypeOK, EndIsReal
    <2>9. ReadsFill'
      BY <1>1, <1>2, <2>1, <2>2, <2>4 DEF TypeOK, ReadsFill, Empty, NoPending
    <2> QED
      BY <2>5, <2>6, <2>7, <2>8, <2>9
  <1> QED
    BY <1>4, <1>5 DEF TypeOK

\* An error is recorded before any frame it lost could be missed.
LEMMA ReportErrorKeepsInv ==
  ASSUME PullInv, ReportError
  PROVE  PullInv'
  <1>1. PICK p \in dec.pos .. source.actual :
          dec' = [dec EXCEPT !.corrupt = TRUE, !.pos = p]
    BY DEF ReportError
  <1>2. source.actual \in Nat /\ dec.pos \in Nat
    BY PullAssumption DEF PullInv, TypeOK, Sources
  <1>3. /\ pc = "lib" /\ dec.state = "sync" /\ saw_error' = TRUE
        /\ dec'.pos = p /\ dec'.state = "sync" /\ dec'.corrupt = TRUE
        /\ p \in Nat /\ dec.pos <= p /\ p <= source.actual
        /\ UNCHANGED <<source, pending, emitted, eos, exc, read, pc, ok, result, taken>>
    <2>1. /\ pc = "lib" /\ dec.state = "sync" /\ saw_error' = TRUE
          /\ UNCHANGED <<source, pending, emitted, eos, exc, read, pc, ok, result, taken>>
      BY DEF ReportError, Decoding
    <2>2. dec \in [state : {"sync", "eos", "aborted"}, pos : Nat, corrupt : BOOLEAN]
      BY DEF PullInv, TypeOK
    <2>3. dec'.pos = p /\ dec'.state = dec.state /\ dec'.corrupt = TRUE
      BY <1>1, <2>2
    <2> QED
      BY <1>2, <2>1, <2>3
  <1>4. TypeOK'
    BY <1>1, <1>3 DEF PullInv, TypeOK
  <1>5. Conserved'
    <2>1. Empty(pending)
      BY <1>3 DEF PullInv, ReadsFill
    <2> QED
      BY <1>2, <1>3, <2>1 DEF PullInv, TypeOK, Conserved, Empty
  <1>6. ErrorsSurface' /\ EndIsReal' /\ ReadsFill'
    BY <1>3 DEF PullInv, ErrorsSurface, EndIsReal, ReadsFill, Empty, Length
  <1> QED
    BY <1>4, <1>5, <1>6 DEF PullInv

\* What else libFLAC does between a call and its return.
LEMMA LibReturnsKeepsInv ==
  ASSUME PullInv,
         DropFrame \/ (\E reply \in BOOLEAN : ReadAborts(reply)) \/ EndOfStream
  PROVE  PullInv'
  <1> USE DEF PullInv, Decoding, LibReturns
  <1>1. CASE DropFrame
    BY <1>1 DEF DropFrame, TypeOK, Conserved, ErrorsSurface, EndIsReal, ReadsFill, Empty,
                Length
  <1>2. CASE \E reply \in BOOLEAN : ReadAborts(reply)
    BY <1>2 DEF ReadAborts, Sources, TypeOK, Conserved, ErrorsSurface, EndIsReal, ReadsFill,
                Empty, Length
  <1>3. CASE EndOfStream
    BY <1>3 DEF EndOfStream, TypeOK, Conserved, ErrorsSurface, EndIsReal, ReadsFill, Empty,
                Length
  <1> QED
    BY <1>1, <1>2, <1>3

\* The end is accepted after as many frames as STREAMINFO declares.
LEMMA AfterProcessKeepsInv ==
  ASSUME PullInv, AfterProcess
  PROVE  PullInv'
  <1> DEFINE failed == exc \/ ~ok \/ saw_error \/ dec.state = "aborted"
                         \/ (dec.state = "eos" /\ ~CountAccepted)
  <1> USE DEF PullInv
  <1>1. /\ pc = "called"
        /\ UNCHANGED <<source, dec, pending, emitted, saw_error, read, ok, result, taken>>
    BY DEF AfterProcess
  <1>2. CASE failed
    <2>1. exc' = TRUE /\ pc' = "idle" /\ eos' = eos
      BY <1>2 DEF AfterProcess
    <2> QED
      BY <1>1, <2>1 DEF TypeOK, Conserved, ErrorsSurface, EndIsReal, ReadsFill, Empty, Length
  <1>3. CASE ~failed
    <2>1. (eos' <=> dec.state = "eos") /\ eos' \in BOOLEAN /\ pc' = "loop" /\ exc' = exc
      BY <1>3 DEF AfterProcess
    <2>2. ~exc /\ ~saw_error /\ dec.state # "aborted" /\ ~dec.corrupt
      BY <1>3 DEF TypeOK, ErrorsSurface
    <2>3. dec.state = "eos" => Empty(pending) /\ emitted = Length
      <3> SUFFICES ASSUME dec.state = "eos" PROVE Empty(pending) /\ emitted = Length
        OBVIOUS
      <3>1. Empty(pending) /\ emitted = source.actual
        BY <1>1, <2>2 DEF EndIsReal, Conserved
      <3>2. source.declared = 0 \/ emitted >= source.declared
        BY <1>3 DEF CountAccepted
      <3>3. /\ source.declared \in Nat /\ source.actual \in Nat
            /\ source.declared = 0 \/ source.actual <= source.declared
        BY PullAssumption DEF TypeOK, Sources
      <3> QED
        BY <3>1, <3>2, <3>3 DEF Length
    <2>4. TypeOK' /\ Conserved'
      BY <1>1, <2>1 DEF TypeOK, Conserved, Empty
    <2>5. ErrorsSurface'
      BY <1>1, <2>1, <2>2 DEF ErrorsSurface
    <2>6. EndIsReal'
      BY <1>1, <2>1, <2>2, <2>3 DEF EndIsReal, Empty, Length
    <2>7. ReadsFill'
      BY <1>1, <2>1 DEF ReadsFill, Empty
    <2> QED
      BY <2>4, <2>5, <2>6, <2>7
  <1> QED
    BY <1>2, <1>3

\* Every step of a read or of libFLAC keeps the invariant.
LEMMA NextKeepsInv ==
  ASSUME PullInv, [Next]_vars
  PROVE  PullInv'
  <1>1. CASE Failed \/ UNCHANGED vars
    <2>1. UNCHANGED <<source, dec, pending, emitted, saw_error, eos, exc, read, pc, ok, taken>>
      BY <1>1 DEF Failed, vars
    <2>2. TypeOK' /\ Conserved'
      BY <2>1 DEF PullInv, TypeOK, Conserved, Empty
    <2>3. ErrorsSurface' /\ EndIsReal' /\ ReadsFill'
      BY <2>1 DEF PullInv, ErrorsSurface, EndIsReal, ReadsFill, Empty, Length
    <2> QED
      BY <2>2, <2>3 DEF PullInv
  <1> QED
    BY <1>1, BeginReadKeepsInv, LoopKeepsInv, DecodeFrameKeepsInv, ReportErrorKeepsInv,
       LibReturnsKeepsInv, AfterProcessKeepsInv
    DEF Next, Reader, LibFLAC

\* PCM is conserved between libFLAC, the pending block and Java, and neither an
\* error nor the end of the stream is passed over.
THEOREM InvariantHolds == Spec => []PullInv
  BY InitInv, NextKeepsInv, PTL DEF Spec

\* A read that returns less than was asked for has reached the end of the stream,
\* with every declared frame handed over before it.
THEOREM ShortReadsEnd == Spec => []ShortReadMeansEnd
  <1>1. PullInv => ShortReadMeansEnd
    BY DEF PullInv, TypeOK, Conserved, EndIsReal, ReadsFill, ShortReadMeansEnd, Empty
  <1> QED
    BY <1>1, InvariantHolds, PTL

-----------------------------------------------------------------------------
(* The refinement of DecodeContract.                                       *)

\* What the contract sees of a state of the invariant.
View ==
  /\ Received = emitted /\ emitted \in Nat
  /\ Length \in 0 .. MaxLength /\ emitted <= Length
  /\ Unread => ~exc /\ ~eos /\ emitted = 0
  /\ ~Unread => Promised = Length
  /\ pc # "idle" => ~Unread

\* Java never holds more frames than the stream has.
LEMMA Mapped == PullInv => View
  <1> SUFFICES ASSUME PullInv PROVE View
    OBVIOUS
  <1>1. /\ source.declared \in Nat /\ source.actual \in Nat
        /\ source.declared <= MaxLength /\ source.actual <= MaxLength
        /\ source.declared = 0 \/ source.actual <= source.declared
    BY PullAssumption DEF PullInv, TypeOK, Sources
  <1>2. /\ emitted \in Nat /\ dec.pos \in Nat
        /\ emitted <= dec.pos /\ dec.pos <= source.actual
    BY DEF PullInv, TypeOK, Conserved
  <1>3. Length \in Nat /\ Length <= MaxLength /\ emitted <= Length
    BY <1>1, <1>2 DEF Length
  <1>4. Length \in 0 .. MaxLength
    BY <1>3, PullAssumption
  <1>5. Received = emitted
    BY DEF PullInv, Conserved, Received
  <1> QED
    BY <1>2, <1>3, <1>4, <1>5 DEF PullInv, ReadsFill, Unread, Promised, View

\* The same of the state after a step.
LEMMA MappedPrime == PullInv' => View'
  BY Mapped, PTL

\* A step that keeps the promise and the outcome delivers frames, or nothing.
LEMMA Delivers ==
  ASSUME View, View', ~Unread, ~Unread', Length' = Length,
         Outcome' = Outcome, emitted <= emitted',
         emitted # emitted' => Outcome = "running"
  PROVE  [Contract!Next]_Contract!vars
  <1>1. /\ Received = emitted /\ Received' = emitted'
        /\ Promised = Length /\ Promised' = Length
        /\ emitted \in Nat /\ emitted' \in Nat /\ emitted' <= Length /\ Length \in Nat
    BY DEF View
  <1>2. CASE emitted' = emitted
    BY <1>1, <1>2 DEF Contract!vars
  <1>3. CASE emitted' # emitted
    <2>1. Received' \in (Received + 1) .. Promised
      BY <1>1, <1>3
    <2> QED
      BY <1>1, <1>3, <2>1 DEF Contract!Next, Contract!Deliver
  <1> QED
    BY <1>2, <1>3

\* Before the first read nothing was promised or received.
LEMMA InitMaps == Init => Contract!Init
  BY DEF Init, Contract!Init, Unread, Promised, Received, Outcome

\* The first read begins the operation; a later one hands over what is pending.
LEMMA BeginReadMaps ==
  ASSUME PullInv, PullInv', NEW n \in 0 .. MaxRequest, BeginRead(n)
  PROVE  [Contract!Next]_Contract!vars
  <1>1. View /\ View'
    BY Mapped, MappedPrime
  <1>2. CASE n = 0
    BY <1>2 DEF BeginRead, Contract!vars, Promised, Received, Outcome, Unread, Length
  <1>3. CASE n # 0
    <2>1. /\ pc = "idle" /\ ~exc /\ pc' = "loop" /\ Drain(pending, n)
          /\ UNCHANGED <<source, dec, eos, exc>>
      BY <1>3 DEF BeginRead
    <2>2. Length' = Length /\ ~Unread'
      BY <2>1 DEF Length, Unread
    <2>3. CASE Unread
      <3>1. Empty(pending) /\ emitted = 0 /\ pending = NoPending
        BY <2>3 DEF PullInv, ReadsFill, Unread, Conserved
      <3>2. n \in Nat
        BY PullAssumption
      <3>3. emitted' = 0
        <4>1. pending.to - pending.from = 0
          BY <3>1 DEF NoPending
        <4> QED
          BY <2>1, <3>1, <3>2, <4>1 DEF Drain
      <3>4. Outcome = "idle" /\ Outcome' = "running"
        BY <1>1, <2>1, <2>2, <2>3 DEF Outcome, View
      <3>5. Promised' \in -1 .. MaxLength /\ Received' = 0
        BY <1>1, <2>2, <3>3, PullAssumption DEF View
      <3> QED
        BY <3>4, <3>5 DEF Contract!Next, Contract!Begin
    <2>4. CASE ~Unread
      <3>1. Outcome' = Outcome
        BY <2>1, <2>2, <2>4 DEF Outcome
      <3>2. emitted \in Nat /\ emitted' \in Nat /\ n \in Nat
        BY <1>1, PullAssumption DEF View
      <3>3. emitted <= emitted' /\ (eos => emitted' = emitted)
        <4>1. /\ taken = [count |-> emitted, intact |-> TRUE]
              /\ pending \in [from : Nat, to : Nat] /\ pending.from <= pending.to
              /\ pending.from < pending.to => pending.from = emitted
              /\ eos => pending.to - pending.from = 0
          BY DEF PullInv, TypeOK, Conserved, EndIsReal, Empty, NoPending
        <4>2. /\ emitted <= emitted' /\ emitted' - emitted <= pending.to - pending.from
          BY <2>1, <3>2, <4>1, DrainCopies
        <4> QED
          BY <3>2, <4>1, <4>2
      <3>4. emitted # emitted' => Outcome = "running"
        BY <2>1, <2>4, <3>3 DEF Outcome
      <3> QED
        BY <1>1, <2>2, <2>4, <3>1, <3>3, <3>4, Delivers
    <2> QED
      BY <2>3, <2>4
  <1> QED
    BY <1>2, <1>3

\* A decoded block is delivered as far as the read wants it.
LEMMA DecodeFrameMaps ==
  ASSUME PullInv, PullInv', NEW n \in 1 .. MaxBlock, DecodeFrame(n)
  PROVE  [Contract!Next]_Contract!vars
  <1>1. View /\ View'
    BY Mapped, MappedPrime
  <1>2. /\ pc = "lib" /\ pc' = "called" /\ UNCHANGED <<source, eos>>
        /\ Empty(pending) /\ ~eos
    BY DEF PullInv, DecodeFrame, Decoding, WriteCallback, LibReturns, ReadsFill, EndIsReal
  <1>3. ~Unread /\ ~Unread' /\ Length' = Length
    BY <1>1, <1>2 DEF View, Unread, Length
  <1>4. Outcome = "running" /\ Outcome' = "running"
    BY <1>2, <1>3 DEF Outcome
  <1>5. emitted <= emitted'
    <2>1. emitted \in Nat /\ dec.pos \in Nat /\ n \in Nat /\ n > 0
      BY PullAssumption DEF PullInv, TypeOK
    <2>2. CASE exc \/ saw_error
      <3>1. emitted' = emitted
        BY <2>2 DEF DecodeFrame, WriteCallback
      <3> QED
        BY <2>1, <3>1
    <2>3. CASE ~(exc \/ saw_error)
      <3> DEFINE block == [from |-> dec.pos, to |-> dec.pos + n]
                 wants == read.requested - read.written
      <3>1. Drain(block, wants)
        BY <1>2, <2>3 DEF DecodeFrame, WriteCallback
      <3>2. wants \in Nat /\ block \in [from : Nat, to : Nat] /\ block.from = dec.pos
        BY <1>2, <2>1 DEF PullInv, TypeOK, ReadsFill
      <3>3. block.from <= block.to
        BY <2>1
      <3>4. taken = [count |-> emitted, intact |-> TRUE] /\ emitted = dec.pos
        BY <1>2, <2>3 DEF PullInv, Conserved, ErrorsSurface
      <3> HIDE DEF block, wants
      <3> QED
        BY <2>1, <3>1, <3>2, <3>3, <3>4, DrainCopies
    <2> QED
      BY <2>2, <2>3
  <1> QED
    BY <1>1, <1>3, <1>4, <1>5, Delivers

\* The tests after process_single complete the operation, fail it, or go on.
LEMMA AfterProcessMaps ==
  ASSUME PullInv, PullInv', AfterProcess
  PROVE  [Contract!Next]_Contract!vars
  <1>1. View /\ View'
    BY Mapped, MappedPrime
  <1>2. /\ pc = "called" /\ pc' \in {"idle", "loop"} /\ ~eos
        /\ UNCHANGED <<source, read, emitted, taken>>
    BY DEF PullInv, AfterProcess, EndIsReal
  <1>3. ~Unread /\ ~Unread' /\ Length' = Length
    BY <1>1, <1>2 DEF View, Unread, Length, PullInv, ReadsFill
  <1>4. Promised = Length /\ Promised' = Length /\ Received' = Received
    BY <1>1, <1>2, <1>3 DEF View
  <1>5. Outcome = "running"
    BY <1>2, <1>3 DEF Outcome
  <1>6. CASE Outcome' = "running"
    BY <1>4, <1>5, <1>6 DEF Contract!vars
  <1>7. CASE Outcome' = "thrown"
    BY <1>4, <1>5, <1>7 DEF Contract!Next, Contract!Throw
  <1>8. CASE Outcome' = "complete"
    <2>1. eos'
      BY <1>3, <1>8 DEF Outcome
    <2>2. Received = Promised
      BY <1>1, <1>2, <1>3, <1>4, <2>1 DEF PullInv, EndIsReal, View
    <2> QED
      BY <1>4, <1>5, <1>8, <2>2 DEF Contract!Next, Contract!Complete
  <1> QED
    BY <1>3, <1>6, <1>7, <1>8 DEF Outcome

\* No other step delivers or decides anything.
LEMMA OthersMap ==
  ASSUME PullInv, PullInv',
         \/ Loop \/ ReportError \/ DropFrame \/ EndOfStream \/ Failed \/ UNCHANGED vars
         \/ \E reply \in BOOLEAN : ReadAborts(reply)
  PROVE  [Contract!Next]_Contract!vars
  <1>1. View /\ View'
    BY Mapped, MappedPrime
  <1>2. UNCHANGED <<source, eos, read, emitted, taken>>
    BY DEF Loop, ReportError, DropFrame, EndOfStream, Failed, vars, ReadAborts
  <1>3. \/ UNCHANGED <<exc, pc>>
        \/ pc # "idle" /\ pc' # "idle"
        \/ pc = "loop" /\ pc' = "idle" /\ exc' = exc /\ ~exc
    BY DEF Loop, ReportError, DropFrame, EndOfStream, Failed, vars, ReadAborts, LibReturns,
           Decoding, PullInv, ErrorsSurface
  <1>4. Length' = Length
    BY <1>2 DEF Length
  <1>5. (Unread' <=> Unread) /\ Outcome' = Outcome
    BY <1>1, <1>2, <1>3 DEF Unread, Outcome, View, PullInv, ReadsFill
  <1>6. Promised' = Promised /\ Received' = Received
    BY <1>2, <1>4, <1>5 DEF Promised, Received
  <1> QED
    BY <1>5, <1>6 DEF Contract!vars

\* Every step of a read or of libFLAC is a step of the contract or none.
LEMMA NextMaps ==
  ASSUME PullInv, PullInv', [Next]_vars
  PROVE  [Contract!Next]_Contract!vars
  BY BeginReadMaps, DecodeFrameMaps, AfterProcessMaps, OthersMap DEF Next, Reader, LibFLAC

\* For streams, blocks and reads of any size the reads hand over the stream in
\* order and once, and end it only after its last frame.
THEOREM ReadsImplementContract == Spec => ImplementsContract
  BY InitMaps, NextMaps, InvariantHolds, PTL DEF Spec, ImplementsContract, Contract!Spec

(***************************************************************************)
(* PcmStream over the pull reads.                                          *)
(***************************************************************************)

(***************************************************************************)
(* Bytes and frames.                                                       *)
(***************************************************************************)

LEMMA Times ==
  ASSUME NEW f \in Nat \ {0}, NEW a \in Nat, NEW b \in Nat
  PROVE  /\ f * a \in Nat
         /\ a <= b => f * a <= f * b
         /\ f * a = f * b => a = b
         /\ f * (a + b) = f * a + f * b
  <1>1. f * a \in Nat /\ f * (a + b) = f * a + f * b
    OBVIOUS
  <1>2. \A c \in Nat \ {0} : f * c >= 1
    OBVIOUS
  <1>3. ASSUME NEW x \in Nat, NEW y \in Nat, x <= y
        PROVE  f * x <= f * y
    <2>1. y - x \in Nat /\ f * y = f * x + f * (y - x) /\ f * x \in Nat /\ f * (y - x) \in Nat
      BY <1>3
    <2>2. QED
      BY <2>1
  <1>4. ASSUME NEW x \in Nat, NEW y \in Nat, x < y
        PROVE  f * x # f * y
    <2>1. y - x \in Nat \ {0} /\ f * y = f * x + f * (y - x) /\ f * x \in Nat
      BY <1>4
    <2>2. QED
      BY <2>1, <1>2
  <1>5. QED
    BY <1>1, <1>3, <1>4

LEMMA WholeFrames ==
  ASSUME NEW f \in Nat \ {0}, NEW b \in Nat, b % f = 0
  PROVE  b \div f \in Nat /\ f * (b \div f) = b
  OBVIOUS

(***************************************************************************)
(* The native reads under the stream.                                      *)
(***************************************************************************)

\* The stream uses the pull decoder as a reader of PullRead may.
LEMMA StreamStepIsReadStep == PcmNext => [Next]_vars
  <1> SUFFICES ASSUME PcmNext PROVE [Next]_vars
    OBVIOUS
  <1>1. CASE ApplicationReads \/ AskForPcm
    BY <1>1 DEF ApplicationReads, AskForPcm, BeginReadBytes
  <1>2. CASE CopyBytes
    BY <1>2 DEF CopyBytes, ReadReturns
  <1>3. CASE BeginFill
    <2>1. ChunkFrames \in 0 .. MaxRequest
      BY PcmAssumption, PullAssumption
    <2>2. BeginRead(ChunkFrames) \/ UNCHANGED vars
      BY <1>3 DEF BeginFill
    <2>3. QED
      BY <2>1, <2>2 DEF Next, Reader
  <1>4. CASE EndFill \/ BeginClose \/ CloseStep
    BY <1>4 DEF EndFill, BeginClose, CloseStep
  <1>5. CASE Decode
    BY <1>5 DEF Decode, Next
  <1>6. CASE TakePcm \/ EncodePcm \/ CloseEncoder
    BY <1>6 DEF TakePcm, EncodePcm, CloseEncoder
  <1>7. CASE Written
    BY <1>7 DEF Written, pcmVars
  <1>8. QED
    BY <1>1, <1>2, <1>3, <1>4, <1>5, <1>6, <1>7 DEF PcmNext

\* So the theorems about the pull decoder hold under the stream.
THEOREM StreamReads == PcmSpec => Spec
  <1>1. PcmInit => Init
    BY DEF PcmInit
  <1>2. [PcmNext]_pcmVars => [Next]_vars
    BY StreamStepIsReadStep DEF pcmVars
  <1>3. QED
    BY <1>1, <1>2, PTL DEF PcmSpec, Spec

\* A drain hands the read at hand as many frames as it takes.
LEMMA DrainCounts ==
  ASSUME PullInv, NEW p \in [from : Nat, to : Nat], NEW wants \in Int, Drain(p, wants)
  PROVE  /\ emitted' \in Int /\ taken'.count - (emitted' - emitted) = taken.count
  <1> DEFINE available == p.to - p.from
             copied == IF available < wants THEN available ELSE wants
  <1>1. copied \in Int /\ emitted \in Nat /\ taken.count \in Nat
    BY DEF PullInv, TypeOK
  <1>2. emitted' = emitted + copied /\ taken'.count = taken.count + copied
    BY DEF Drain
  <1>3. QED
    BY <1>1, <1>2

\* While a native read runs, what it has written is what Java holds more than
\* before; when it returns it reports that, or the end.
LEMMA DecodeCounts ==
  ASSUME PullInv, PullInv', Loop \/ LibFLAC \/ AfterProcess
  PROVE  /\ pc # "idle"
         /\ taken'.count - read'.written = taken.count - read.written
         /\ read'.requested = read.requested
         /\ pc' = "idle" /\ ~exc' => result' = IF read'.written > 0 THEN read'.written ELSE -1
  <1>1. read.written \in Nat /\ read.requested \in Nat /\ taken.count \in Nat /\ emitted \in Nat
        /\ dec.pos \in Nat
    BY DEF PullInv, TypeOK
  <1>2. CASE Loop
    <2>1. read.requested > 0
      BY <1>1, <1>2 DEF PullInv, ReadsFill, Loop
    <2>2. QED
      BY <1>1, <1>2, <2>1 DEF Loop
  <1>3. ASSUME NEW n \in 1 .. MaxBlock, DecodeFrame(n)
        PROVE  /\ pc = "lib" /\ pc' = "called" /\ read'.requested = read.requested
               /\ taken'.count - read'.written = taken.count - read.written
    <2>1. pc = "lib" /\ WriteCallback(dec.pos, n)
      BY <1>3 DEF DecodeFrame, Decoding
    <2>2. pc' = "called"
      BY <2>1 DEF WriteCallback, LibReturns
    <2>3. CASE UNCHANGED <<read, taken>>
      BY <2>1, <2>2, <2>3
    <2>4. CASE /\ Drain([from |-> dec.pos, to |-> dec.pos + n], read.requested - read.written)
               /\ read' = [read EXCEPT !.written = @ + (emitted' - emitted)]
      <3>1. [from |-> dec.pos, to |-> dec.pos + n] \in [from : Nat, to : Nat]
        BY <1>1, PullAssumption
      <3>2. emitted' \in Int /\ taken'.count - (emitted' - emitted) = taken.count
        BY <2>4, <3>1, <1>1, DrainCounts
      <3>3. read'.written = read.written + (emitted' - emitted) /\ read'.requested = read.requested
        BY <2>4 DEF PullInv, TypeOK
      <3>4. taken'.count \in Nat
        BY DEF PullInv, TypeOK
      <3>5. QED
        BY <1>1, <2>1, <2>2, <3>2, <3>3, <3>4
    <2>5. QED
      BY <2>1, <2>3, <2>4 DEF WriteCallback
  <1>4. CASE ReportError \/ DropFrame \/ (\E a \in BOOLEAN : ReadAborts(a)) \/ EndOfStream
    BY <1>4 DEF ReportError, DropFrame, ReadAborts, EndOfStream, Decoding, LibReturns
  <1>5. CASE AfterProcess
    BY <1>5 DEF AfterProcess
  <1>6. QED
    BY <1>2, <1>3, <1>4, <1>5 DEF LibFLAC

(***************************************************************************)
(* The stream's own steps preserve StreamInv.                              *)
(***************************************************************************)

\* StreamInv speaks of the pull decoder and of the stream, not of the writer.
LEMMA StreamUnchanged ==
  ASSUME StreamInv, UNCHANGED <<vars, stream>>
  PROVE  StreamInv'
  <1>1. PullInv'
    BY DEF StreamInv, PullInv, TypeOK, Conserved, ErrorsSurface, EndIsReal, ReadsFill, Length,
       CountAccepted, vars, Empty
  <1>2. StreamTypeOK' /\ got'.intact /\ ReadInProgress'
    BY DEF StreamInv, StreamTypeOK, ReadInProgress, vars, stream
  <1>3. BufferFollowsReads'
    BY DEF StreamInv, BufferFollowsReads, vars, stream
  <1>4. PlaceIsKept' /\ EndIsTold'
    BY DEF StreamInv, PlaceIsKept, EndIsTold, Lost, vars, stream
  <1>5. QED
    BY <1>1, <1>2, <1>3, <1>4 DEF StreamInv

LEMMA BeginReadBytesKeeps ==
  ASSUME StreamInv, PullInv', NEW n \in Nat \ {0}, BeginReadBytes(n)
  PROVE  StreamInv'
  <1>1. /\ step = "idle" /\ call' = [length |-> n, copied |-> 0]
        /\ UNCHANGED <<vars, buffer, eof, closed, closing, active, got>>
    BY DEF BeginReadBytes
  <1>2. \/ closed /\ step' = "idle" /\ answer' = "threw"
        \/ ~closed /\ step' = "copy" /\ answer' = "none"
    BY DEF BeginReadBytes, Throw
  <1>3. StreamTypeOK' /\ got'.intact
    BY <1>1, <1>2 DEF StreamInv, StreamTypeOK
  <1>4. ReadInProgress'
    BY <1>1, <1>2 DEF StreamInv, ReadInProgress, vars
  <1>5. BufferFollowsReads'
    BY <1>1, <1>2 DEF StreamInv, BufferFollowsReads, vars
  <1>6. PlaceIsKept'
    BY <1>1, <1>2 DEF StreamInv, StreamTypeOK, PlaceIsKept, Lost, vars
  <1>7. EndIsTold'
    BY <1>1, <1>2 DEF StreamInv, EndIsTold, vars
  <1>8. QED
    BY <1>3, <1>4, <1>5, <1>6, <1>7 DEF StreamInv

LEMMA CopyBytesKeeps ==
  ASSUME StreamInv, PullInv', CopyBytes
  PROVE  StreamInv'
  <1> DEFINE n == Least(call.length - call.copied, buffer.to - buffer.from)
  <1>1. /\ step = "copy" /\ UNCHANGED <<vars, eof, closed, closing, active>>
        /\ answer = "none" /\ call.length > 0
        /\ call.copied <= call.length /\ buffer.from <= buffer.to
    BY DEF CopyBytes, ReadReturns, StreamInv, ReadInProgress
  <1>2. /\ call.length \in Nat /\ call.copied \in Nat /\ buffer.from \in Nat /\ buffer.to \in Nat
        /\ got.count \in Nat /\ got.intact = TRUE
    BY DEF StreamInv, StreamTypeOK
  <1>3. exc => buffer.from = buffer.to /\ ~eof /\ call.copied = 0
    BY <1>1 DEF StreamInv, PlaceIsKept
  <1>4. ~exc => buffer.from = got.count + call.copied /\ buffer.to = FrameBytes * taken.count
    BY <1>1 DEF StreamInv, PlaceIsKept, Lost, BufferFollowsReads
  <1>5. (closing # "none" \/ ~active => closed) /\ (eof => eos /\ ~exc) /\ pc = "idle"
    BY <1>1 DEF StreamInv, PlaceIsKept, EndIsTold, ReadInProgress
  <1>6. CASE ReadReturns /\ (call.copied = call.length \/ (buffer.from = buffer.to /\ eof))
    <2>1. /\ step' = "idle" /\ UNCHANGED <<buffer, call>>
          /\ answer' = IF call.copied = 0 THEN "end" ELSE "bytes"
          /\ got' = [got EXCEPT !.count = @ + call.copied]
      BY <1>6 DEF ReadReturns
    <2>2. got'.count = got.count + call.copied /\ got'.intact = TRUE
          /\ got' \in [count : Nat, intact : BOOLEAN]
      BY <1>2, <2>1 DEF StreamInv, StreamTypeOK
    <2>3. ~exc
      BY <1>1, <1>2, <1>3, <1>6
    <2>4. StreamTypeOK'
      BY <1>1, <2>1, <2>2 DEF StreamInv, StreamTypeOK
    <2>5. ReadInProgress'
      BY <1>1, <1>5, <2>1 DEF ReadInProgress, vars
    <2>6. BufferFollowsReads'
      BY <1>1, <1>4, <2>1, <2>3 DEF BufferFollowsReads, vars
    <2>7. PlaceIsKept'
      BY <1>1, <1>2, <1>4, <1>5, <2>1, <2>2, <2>3 DEF PlaceIsKept, Lost, vars
    <2>8. EndIsTold'
      BY <1>1, <1>2, <1>5, <1>6, <2>1 DEF EndIsTold, vars
    <2>9. QED
      BY <2>2, <2>4, <2>5, <2>6, <2>7, <2>8 DEF StreamInv
  <1>7. CASE /\ call.copied < call.length /\ buffer.from = buffer.to /\ ~eof
             /\ step' = "fill" /\ UNCHANGED <<buffer, call, answer, got>>
    <2>1. StreamTypeOK' /\ got'.intact
      BY <1>1, <1>7 DEF StreamInv, StreamTypeOK
    <2>2. ReadInProgress'
      BY <1>1, <1>5, <1>7 DEF ReadInProgress, vars
    <2>3. BufferFollowsReads'
      BY <1>1, <1>4, <1>7 DEF BufferFollowsReads, vars
    <2>4. PlaceIsKept' /\ EndIsTold'
      BY <1>1, <1>3, <1>4, <1>5, <1>7 DEF PlaceIsKept, EndIsTold, Lost, vars
    <2>5. QED
      BY <2>1, <2>2, <2>3, <2>4 DEF StreamInv
  <1>8. CASE /\ call.copied < call.length /\ buffer.from < buffer.to
             /\ buffer' = [buffer EXCEPT !.from = @ + n]
             /\ call' = [call EXCEPT !.copied = @ + n]
             /\ got' = [got EXCEPT !.intact = @ /\ buffer.from = got.count + call.copied]
             /\ UNCHANGED <<step, answer>>
    <2>1. n \in Nat /\ n <= call.length - call.copied /\ n <= buffer.to - buffer.from
      BY <1>2, <1>8 DEF Least
    <2>2. ~exc
      BY <1>2, <1>3, <1>8
    <2>3. /\ buffer'.from = buffer.from + n /\ buffer'.to = buffer.to
          /\ call'.copied = call.copied + n /\ call'.length = call.length
      BY <1>2, <1>8, <2>1 DEF StreamInv, StreamTypeOK
    <2>4. got'.intact = TRUE /\ got'.count = got.count
      BY <1>2, <1>4, <1>8, <2>2 DEF StreamInv, StreamTypeOK
    <2>5. StreamTypeOK'
      <3>1. buffer' \in [from : Nat, to : Nat] /\ call' \in [length : Nat, copied : Nat]
        BY <1>2, <1>8, <2>1 DEF StreamInv, StreamTypeOK
      <3>2. got' = [got EXCEPT !.intact = TRUE]
        BY <1>2, <1>4, <1>8, <2>2
      <3>3. got' \in [count : Nat, intact : BOOLEAN]
        BY <3>2 DEF StreamInv, StreamTypeOK
      <3>4. QED
        BY <1>1, <1>8, <3>1, <3>3 DEF StreamInv, StreamTypeOK
    <2>6. ReadInProgress'
      BY <1>1, <1>2, <1>5, <1>8, <2>1, <2>3 DEF ReadInProgress, vars
    <2>7. BufferFollowsReads'
      BY <1>1, <1>4, <1>8, <2>2, <2>3 DEF BufferFollowsReads, vars
    <2>8. PlaceIsKept' /\ EndIsTold'
      BY <1>1, <1>2, <1>4, <1>5, <1>8, <2>1, <2>2, <2>3, <2>4 DEF PlaceIsKept, EndIsTold, Lost, vars
    <2>9. QED
      BY <2>4, <2>5, <2>6, <2>7, <2>8 DEF StreamInv
  <1>9. QED
    BY <1>6, <1>7, <1>8 DEF CopyBytes

LEMMA BeginFillKeeps ==
  ASSUME StreamInv, PullInv', BeginFill
  PROVE  StreamInv'
  <1>1. /\ step = "fill" /\ pc = "idle" /\ UNCHANGED <<buffer, eof, closed, closing, active, call, got>>
        /\ answer = "none" /\ call.length > 0 /\ call.copied < call.length
        /\ buffer.from = buffer.to /\ ~eof
    BY DEF BeginFill, StreamInv, ReadInProgress
  <1>2. /\ call.length \in Nat /\ call.copied \in Nat /\ buffer.from \in Nat /\ got.count \in Nat
        /\ call.copied <= call.length
    BY <1>1 DEF StreamInv, StreamTypeOK
  <1>3. CASE active /\ ~exc
    <2>1. BeginRead(ChunkFrames) /\ step' = "decoding" /\ answer' = answer
      BY <1>3 DEF BeginFill
    <2>2. ChunkFrames \in Nat /\ ChunkFrames # 0
      BY PcmAssumption, PullAssumption
    <2>3. /\ exc' = exc /\ pc' = "loop" /\ Drain(pending, ChunkFrames)
          /\ read' = [requested |-> ChunkFrames, written |-> emitted' - emitted]
      BY <2>1, <2>2 DEF BeginRead
    <2>4. taken'.count - read'.written = taken.count /\ read'.requested = ChunkFrames
      <3>1. pending \in [from : Nat, to : Nat]
        BY DEF StreamInv, PullInv, TypeOK
      <3>2. taken'.count - (emitted' - emitted) = taken.count
        BY <2>2, <2>3, <3>1, DrainCounts DEF StreamInv
      <3>3. QED
        BY <2>3, <3>2
    <2>5. /\ buffer.to = FrameBytes * taken.count /\ buffer.from = got.count + call.copied
      BY <1>1, <1>3 DEF StreamInv, BufferFollowsReads, PlaceIsKept, Lost
    <2>6. StreamTypeOK' /\ got'.intact
      BY <1>1, <2>1 DEF StreamInv, StreamTypeOK
    <2>7. ReadInProgress'
      BY <1>1, <1>2, <2>1 DEF ReadInProgress
    <2>8. BufferFollowsReads'
      BY <1>1, <2>1, <2>3, <2>4, <2>5 DEF BufferFollowsReads
    <2>9. PlaceIsKept' /\ EndIsTold'
      BY <1>1, <1>3, <2>1, <2>3, <2>5 DEF StreamInv, PlaceIsKept, EndIsTold, Lost
    <2>10. QED
      BY <2>6, <2>7, <2>8, <2>9 DEF StreamInv
  <1>4. CASE ~(active /\ ~exc)
    <2>1. step' = "idle" /\ answer' = "threw" /\ UNCHANGED vars
      BY <1>4 DEF BeginFill, Throw
    <2>2. closed \/ exc
      BY <1>4 DEF StreamInv, PlaceIsKept
    <2>3. StreamTypeOK' /\ got'.intact
      BY <1>1, <2>1 DEF StreamInv, StreamTypeOK
    <2>4. ReadInProgress'
      BY <1>1, <1>2, <2>1 DEF ReadInProgress, vars
    <2>5. BufferFollowsReads'
      BY <1>1, <2>1 DEF StreamInv, BufferFollowsReads, vars
    <2>6. PlaceIsKept' /\ EndIsTold'
      BY <1>1, <2>1, <2>2 DEF StreamInv, PlaceIsKept, EndIsTold, Lost, vars
    <2>7. QED
      BY <2>3, <2>4, <2>5, <2>6 DEF StreamInv
  <1>5. QED
    BY <1>3, <1>4

LEMMA EndFillKeeps ==
  ASSUME StreamInv, PullInv', EndFill
  PROVE  StreamInv'
  <1>1. /\ step = "decoding" /\ pc = "idle" /\ UNCHANGED <<vars, closed, closing, active, call, got>>
        /\ answer = "none" /\ call.length > 0 /\ call.copied < call.length
        /\ buffer.from = buffer.to /\ ~eof
    BY DEF EndFill, StreamInv, ReadInProgress
  <1>2. /\ call.length \in Nat /\ call.copied \in Nat /\ buffer.from \in Nat /\ got.count \in Nat
        /\ taken.count \in Nat /\ read.written \in Nat /\ FrameBytes \in Nat \ {0}
    BY PcmAssumption DEF StreamInv, StreamTypeOK, PullInv, TypeOK
  <1>3. /\ buffer.from = got.count + call.copied
        /\ buffer.to = FrameBytes * (taken.count - read.written)
        /\ read.requested = ChunkFrames /\ ChunkFrames > 0 /\ (closing # "none" \/ ~active => closed)
        /\ ~exc => result = IF read.written > 0 THEN read.written ELSE -1
    BY <1>1, PcmAssumption, PullAssumption DEF StreamInv, PlaceIsKept, Lost, BufferFollowsReads
  <1>4. CASE exc /\ FillFails /\ UNCHANGED buffer
    <2>1. step' = "idle" /\ answer' = "threw" /\ eof' = eof
      BY <1>4 DEF FillFails, Throw
    <2>2. StreamTypeOK' /\ got'.intact
      BY <1>1, <1>4, <2>1 DEF StreamInv, StreamTypeOK
    <2>3. ReadInProgress'
      BY <1>1, <1>2, <1>4, <2>1 DEF ReadInProgress, vars
    <2>4. BufferFollowsReads'
      BY <1>1, <1>4, <2>1 DEF BufferFollowsReads, vars
    <2>5. PlaceIsKept' /\ EndIsTold'
      BY <1>1, <1>3, <1>4, <2>1 DEF PlaceIsKept, EndIsTold, Lost, vars
    <2>6. QED
      BY <2>2, <2>3, <2>4, <2>5 DEF StreamInv
  <1>5. CASE /\ ~exc /\ result = -1 /\ eof' = TRUE /\ step' = "copy" /\ UNCHANGED <<buffer, answer>>
    <2>1. read.written = 0 /\ eos
      BY <1>1, <1>2, <1>3, <1>5 DEF StreamInv, PullInv, ReadsFill
    <2>2. taken.count - read.written = taken.count
      BY <1>2, <2>1
    <2>3. StreamTypeOK' /\ got'.intact
      BY <1>1, <1>5 DEF StreamInv, StreamTypeOK
    <2>4. ReadInProgress'
      BY <1>1, <1>2, <1>5 DEF ReadInProgress, vars
    <2>5. BufferFollowsReads'
      BY <1>1, <1>3, <1>5, <2>2 DEF BufferFollowsReads, vars
    <2>6. PlaceIsKept' /\ EndIsTold'
      BY <1>1, <1>3, <1>5, <2>1 DEF PlaceIsKept, EndIsTold, Lost, vars
    <2>7. QED
      BY <2>3, <2>4, <2>5, <2>6 DEF StreamInv
  <1>6. CASE /\ ~exc /\ result > 0 /\ buffer' = Filled(result) /\ step' = "copy"
             /\ UNCHANGED <<eof, answer>>
    <2>1. result = read.written
      BY <1>2, <1>3, <1>6
    <2>2. buffer'.from = buffer.from /\ buffer'.to = FrameBytes * taken.count
      BY <1>1, <1>3, <1>6, <2>1 DEF Filled
    <2>3. buffer'.to \in Nat /\ buffer'.from <= buffer'.to
      <3>1. read.written <= taken.count
        <4>1. SUFFICES ASSUME taken.count < read.written PROVE FALSE
          BY <1>2
        <4>2. read.written - taken.count \in Nat \ {0}
          BY <1>2, <4>1
        <4>3. FrameBytes * (read.written - taken.count) >= 1
          BY <1>2, <4>2
        <4>4. FrameBytes * (taken.count - read.written) = 0 - FrameBytes * (read.written - taken.count)
          BY <1>2
        <4>5. FrameBytes * (taken.count - read.written) \in Nat
          <5>1. buffer.to \in Nat
            BY <1>1, <1>2
          <5>2. buffer.to = FrameBytes * (taken.count - read.written)
            BY <1>3
          <5>3. QED
            BY <5>1, <5>2
        <4>6. QED
          BY <1>2, <4>2, <4>3, <4>4, <4>5
      <3>2. taken.count - read.written \in Nat /\ taken.count - read.written <= taken.count
        BY <1>2, <3>1
      <3>3. QED
        <4>1. /\ FrameBytes * taken.count \in Nat
              /\ FrameBytes * (taken.count - read.written) <= FrameBytes * taken.count
          BY <1>2, <3>2, Times
        <4>2. buffer'.from = FrameBytes * (taken.count - read.written)
          BY <1>1, <1>3, <2>2
        <4>3. QED
          BY <2>2, <4>1, <4>2
    <2>4. StreamTypeOK' /\ got'.intact
      BY <1>1, <1>2, <1>6, <2>2, <2>3 DEF StreamInv, StreamTypeOK, Filled
    <2>5. ReadInProgress'
      BY <1>1, <1>2, <1>6, <2>3 DEF ReadInProgress, vars
    <2>6. BufferFollowsReads'
      BY <1>1, <1>6, <2>2 DEF BufferFollowsReads, vars
    <2>7. PlaceIsKept' /\ EndIsTold'
      BY <1>1, <1>3, <1>6, <2>2 DEF PlaceIsKept, EndIsTold, Lost, vars
    <2>8. QED
      BY <2>4, <2>5, <2>6, <2>7 DEF StreamInv
  <1>7. QED
    BY <1>4, <1>5, <1>6 DEF EndFill

LEMMA DecodeKeeps ==
  ASSUME StreamInv, PullInv', Decode
  PROVE  StreamInv'
  <1>1. /\ pc # "idle"
        /\ taken'.count - read'.written = taken.count - read.written
        /\ read'.requested = read.requested
        /\ pc' = "idle" /\ ~exc' => result' = IF read'.written > 0 THEN read'.written ELSE -1
    BY DecodeCounts DEF Decode, StreamInv
  <1>2. UNCHANGED <<buffer, eof, closed, closing, active, step, call, answer, got>> /\ step = "decoding"
    BY <1>1 DEF Decode, stream, StreamInv, ReadInProgress
  <1>3. StreamTypeOK' /\ got'.intact
    BY <1>2 DEF StreamInv, StreamTypeOK
  <1>4. ReadInProgress'
    BY <1>2 DEF StreamInv, ReadInProgress
  <1>5. BufferFollowsReads'
    BY <1>1, <1>2 DEF StreamInv, BufferFollowsReads
  <1>6. PlaceIsKept' /\ EndIsTold'
    BY <1>2 DEF StreamInv, PlaceIsKept, EndIsTold, ReadInProgress, Lost
  <1>7. QED
    BY <1>3, <1>4, <1>5, <1>6 DEF StreamInv

LEMMA CloseKeeps ==
  ASSUME StreamInv, PullInv', BeginClose \/ CloseStep
  PROVE  StreamInv'
  <1>1. /\ UNCHANGED <<vars, buffer, eof, step, call, answer, got>>
        /\ closed' \in BOOLEAN /\ active' \in BOOLEAN
        /\ closing' \in {"none", "session", "source", "done"}
        /\ closed => closed'
    BY DEF BeginClose, CloseStep, StreamInv, StreamTypeOK
  <1>2. closed'
    BY DEF BeginClose, CloseStep, StreamInv, StreamTypeOK, PlaceIsKept
  <1>3. StreamTypeOK' /\ got'.intact /\ ReadInProgress'
    BY <1>1 DEF StreamInv, StreamTypeOK, ReadInProgress, vars
  <1>4. BufferFollowsReads'
    BY <1>1 DEF StreamInv, BufferFollowsReads, vars
  <1>5. PlaceIsKept' /\ EndIsTold'
    BY <1>1, <1>2 DEF StreamInv, PlaceIsKept, EndIsTold, Lost, vars
  <1>6. QED
    BY <1>3, <1>4, <1>5 DEF StreamInv

(***************************************************************************)
(* What the stream's reads return.                                         *)
(***************************************************************************)

LEMMA StreamInvImpliesOrder == StreamInv => PcmInOrder
  <1> SUFFICES ASSUME StreamInv, answer = "end" \/ (answer = "bytes" /\ call.copied < call.length)
               PROVE  got.count = FrameBytes * Length
    BY DEF StreamInv, PcmInOrder
  <1>1. eof /\ eos /\ ~exc /\ buffer.from = buffer.to
    BY DEF StreamInv, EndIsTold
  <1>2. step = "idle"
    BY DEF StreamInv, ReadInProgress
  <1>3. buffer.from = got.count /\ buffer.to = FrameBytes * taken.count
    BY <1>1, <1>2 DEF StreamInv, PlaceIsKept, Lost, BufferFollowsReads, StreamTypeOK
  <1>4. taken.count = Length
    BY <1>1 DEF StreamInv, PullInv, EndIsReal, Conserved
  <1>5. QED
    BY <1>1, <1>3, <1>4

\* AudioInputStream stops at the declared frame length: then too all was read.
LEMMA NothingRemains ==
  ASSUME StreamInv, step = "idle", answer # "threw", Remaining <= 0
  PROVE  got.count = FrameBytes * Length
  <1>1. /\ source.declared \in Nat /\ source.actual \in Nat
        /\ source.declared = 0 \/ source.actual <= source.declared
    BY PullAssumption DEF StreamInv, PullInv, TypeOK, Sources
  <1>2. FrameBytes \in Nat \ {0} /\ ChunkFrames \in Nat \ {0}
    BY PcmAssumption, PullAssumption
  <1>3. Wanted > 0
    <2>1. ChunkFrames * FrameBytes > 0
      BY <1>2
    <2>2. QED
      BY <2>1 DEF Wanted
  <1>4. /\ source.declared # 0 /\ Length = source.declared
        /\ source.declared * FrameBytes - got.count <= 0
    <2>1. Remaining = IF source.declared = 0 THEN Wanted ELSE source.declared * FrameBytes - got.count
      BY DEF Remaining
    <2>2. Wanted \in Nat
      BY <1>2 DEF Wanted
    <2>3. source.declared # 0
      BY <1>3, <2>1, <2>2
    <2>4. Remaining = source.declared * FrameBytes - got.count
      BY <2>1, <2>3
    <2>5. Length = source.declared
      BY <1>1, <2>3 DEF Length
    <2>6. QED
      BY <2>3, <2>4, <2>5
  <1>5. ~exc /\ buffer.from = got.count /\ buffer.from <= buffer.to /\ buffer.to = FrameBytes * taken.count
    BY DEF StreamInv, PlaceIsKept, Lost, BufferFollowsReads, ReadInProgress, StreamTypeOK
  <1>6. taken.count \in Nat /\ taken.count <= source.declared /\ got.count \in Nat /\ buffer.to \in Nat
    BY <1>1, <1>4 DEF StreamInv, StreamTypeOK, PullInv, TypeOK, Conserved
  <1>7. FrameBytes * taken.count <= FrameBytes * source.declared
        /\ FrameBytes * source.declared \in Nat
    BY <1>1, <1>2, <1>6, Times
  <1>8. source.declared * FrameBytes = FrameBytes * source.declared
    BY <1>1, <1>2
  <1>9. QED
    BY <1>4, <1>5, <1>6, <1>7, <1>8

(***************************************************************************)
(* The writer's steps preserve WriterInv.                                  *)
(***************************************************************************)

\* A step inside a read: the writer, if there is one, waits for it.
LEMMA ReadKeepsWriter ==
  ASSUME StreamInv, WriterInv, step # "idle", UNCHANGED writer,
         \/ got'.count = got.count /\ ~(step' = "idle" /\ answer' = "bytes")
         \/ /\ got'.count = got.count + call.copied /\ call' = call /\ step' = "idle"
            /\ answer' = IF call.copied = 0 THEN "end" ELSE "bytes"
  PROVE  WriterInv'
  <1>1. writer.stage \in {"absent", "reading"}
    BY DEF WriterInv
  <1>2. got.count \in Nat /\ call.copied \in Nat
    BY DEF StreamInv, StreamTypeOK
  <1>3. writer.stage = "reading" => got.count = FrameBytes * writer.encoded + writer.bytes
    <2>1. Uncounted = 0
      BY DEF Uncounted
    <2>2. /\ FrameBytes * writer.encoded \in Nat /\ writer.bytes \in Nat
      BY Times, PcmAssumption DEF WriterInv
    <2>3. QED
      BY <2>1, <2>2 DEF WriterInv
  <1>4. writer.stage = "reading" => got'.count = FrameBytes * writer.encoded + writer.bytes + Uncounted'
    <2>1. FrameBytes * writer.encoded \in Nat /\ writer.bytes \in Nat
      BY Times, PcmAssumption DEF WriterInv
    <2>2. CASE got'.count = got.count /\ ~(step' = "idle" /\ answer' = "bytes")
      <3>1. Uncounted' = 0
        BY <2>2 DEF Uncounted
      <3>2. QED
        BY <2>1, <2>2, <3>1, <1>3
    <2>3. CASE /\ got'.count = got.count + call.copied /\ call' = call /\ step' = "idle"
               /\ answer' = IF call.copied = 0 THEN "end" ELSE "bytes"
      <3>1. writer.stage = "reading" => Uncounted' = call.copied
        BY <2>3, <1>2 DEF Uncounted
      <3>2. QED
        BY <2>1, <2>3, <3>1, <1>2, <1>3
    <2>4. QED
      BY <2>2, <2>3
  <1>5. QED
    BY <1>1, <1>4 DEF WriterInv, WriteMeansWhole, Wanted

\* How much the writer asks for.
LEMMA AskedLength ==
  ASSUME StreamInv, WriterInv, writer.stage = "asking", Remaining > 0
  PROVE  Least(Wanted - writer.bytes, Remaining) \in Nat \ {0}
  <1>1. writer.bytes \in Nat /\ writer.bytes < Wanted
    BY DEF WriterInv
  <1>2. Wanted \in Nat
    <2>1. ChunkFrames * FrameBytes \in Nat
      BY PcmAssumption, PullAssumption
    <2>2. QED
      BY <2>1 DEF Wanted
  <1>3. Remaining \in Int
    <2>1. source.declared \in Nat /\ got.count \in Nat /\ FrameBytes \in Nat
      BY PcmAssumption, PullAssumption DEF StreamInv, StreamTypeOK, PullInv, TypeOK, Sources
    <2>2. source.declared * FrameBytes \in Nat
      BY <2>1
    <2>3. QED
      BY <1>2, <2>1, <2>2 DEF Remaining
  <1>4. QED
    BY <1>1, <1>2, <1>3 DEF Least

LEMMA AskKeepsWriter ==
  ASSUME StreamInv, WriterInv, AskForPcm
  PROVE  WriterInv'
  <1>1. /\ writer.stage = "asking" /\ writer' = [writer EXCEPT !.stage = "reading"]
        /\ got' = got /\ answer' # "bytes"
    BY DEF AskForPcm, BeginReadBytes, Throw
  <1>2. /\ writer'.stage = "reading" /\ writer'.bytes = writer.bytes /\ writer'.encoded = writer.encoded
        /\ writer'.failed = writer.failed /\ writer'.encoder = writer.encoder
    BY <1>1 DEF WriterInv
  <1>3. Uncounted = 0 /\ Uncounted' = 0
    BY <1>1 DEF Uncounted
  <1>4. QED
    BY <1>1, <1>2, <1>3 DEF WriterInv, WriteMeansWhole, Wanted

\* What was read, all of it, is what has been encoded when the buffer is empty.
LEMMA EncodedAll ==
  ASSUME WriterInv, writer.stage \in {"asking", "reading"}, writer.bytes = 0,
         Uncounted = 0, got.count = FrameBytes * Length, Length \in Nat
  PROVE  writer.encoded = Length
  <1>1. writer.encoded \in Nat /\ FrameBytes \in Nat \ {0}
    BY PcmAssumption DEF WriterInv
  <1>2. FrameBytes * writer.encoded = FrameBytes * Length
    <2>1. FrameBytes * writer.encoded \in Nat
      BY <1>1, Times
    <2>2. QED
      BY <2>1 DEF WriterInv
  <1>3. QED
    BY <1>1, <1>2, Times

\* The source has come to its end.
LEMMA EndKeepsWriter ==
  ASSUME StreamInv, WriterInv, writer.stage \in {"asking", "reading"}, step = "idle",
         answer # "threw", Uncounted = 0,
         got.count = FrameBytes * Length, PcmEnds, UNCHANGED <<vars, stream>>
  PROVE  WriterInv'
  <1>1. UNCHANGED <<source, step, answer, got, call>>
    BY DEF vars, stream
  <1>2. Length' = Length /\ Length \in Nat
    BY <1>1, PullAssumption DEF Length, StreamInv, PullInv, TypeOK, Sources
  <1>3. CASE writer.bytes = 0
    <2>1. writer' = [writer EXCEPT !.stage = "closing"]
      BY <1>3 DEF PcmEnds, To
    <2>2. writer.encoded = Length
      BY <1>2, <1>3, EncodedAll
    <2>3. writer'.stage = "closing" /\ writer'.encoded = Length /\ writer'.encoder = "active"
      BY <2>1, <2>2 DEF WriterInv
    <2>4. QED
      BY <1>1, <1>2, <2>1, <2>3 DEF WriterInv, WriteMeansWhole
  <1>4. CASE writer.bytes # 0
    <2>1. writer' = [writer EXCEPT !.stage = "encoding"]
      BY <1>4 DEF PcmEnds, To
    <2>2. /\ writer'.stage = "encoding" /\ writer'.encoded = writer.encoded /\ writer'.bytes = writer.bytes
          /\ writer'.encoder = writer.encoder /\ writer'.failed = writer.failed
      BY <2>1 DEF WriterInv
    <2>3. Uncounted' = 0
      BY <2>2 DEF Uncounted
    <2>4. QED
      BY <1>1, <2>1, <2>2, <2>3 DEF WriterInv, WriteMeansWhole
  <1>5. QED
    BY <1>3, <1>4

LEMMA FailKeepsWriter ==
  ASSUME WriterInv, writer.stage \in {"reading", "encoding"}, step = "idle", step' = "idle",
         \/ Fail
         \/ writer' = [writer EXCEPT !.stage = "closing", !.failed = TRUE, !.encoder = "failed"]
  PROVE  WriterInv'
  <1>1. writer'.stage = "closing" /\ writer'.failed = TRUE
    BY DEF WriterInv, Fail
  <1>2. QED
    BY <1>1 DEF WriterInv, WriteMeansWhole, Fail

LEMMA TakeKeepsWriter ==
  ASSUME StreamInv, WriterInv, TakePcm
  PROVE  WriterInv'
  <1>1. UNCHANGED <<vars, stream>> /\ UNCHANGED <<source, step, answer, got, call>>
    BY DEF TakePcm, vars, stream
  <1>2. CASE writer.stage = "asking" /\ Remaining <= 0 /\ PcmEnds
    <2>1. step = "idle" /\ answer # "threw" /\ Uncounted = 0
      BY <1>2 DEF WriterInv, Uncounted
    <2>2. QED
      BY <1>1, <1>2, <2>1, NothingRemains, EndKeepsWriter
  <1>3. CASE writer.stage = "reading" /\ step = "idle" /\ answer = "threw" /\ Fail
    BY <1>1, <1>3, FailKeepsWriter
  <1>4. CASE writer.stage = "reading" /\ step = "idle" /\ answer = "end" /\ PcmEnds
    <2>1. got.count = FrameBytes * Length
      BY <1>4, StreamInvImpliesOrder DEF PcmInOrder
    <2>2. Uncounted = 0
      BY <1>4 DEF Uncounted
    <2>3. QED
      BY <1>1, <1>4, <2>1, <2>2, EndKeepsWriter
  <1>5. CASE /\ writer.stage = "reading" /\ step = "idle" /\ answer = "bytes"
             /\ writer' = [writer EXCEPT !.bytes = writer.bytes + call.copied,
                             !.stage = IF writer.bytes + call.copied < Wanted THEN "asking" ELSE "encoding"]
    <2>1. call.copied \in Nat /\ writer.bytes \in Nat /\ FrameBytes * writer.encoded \in Nat
      BY PcmAssumption, Times DEF StreamInv, StreamTypeOK, WriterInv
    <2>2. /\ writer'.bytes = writer.bytes + call.copied /\ writer'.encoded = writer.encoded
          /\ writer'.stage = IF writer.bytes + call.copied < Wanted THEN "asking" ELSE "encoding"
          /\ writer'.failed = writer.failed /\ writer'.encoder = writer.encoder
      BY <1>5 DEF WriterInv
    <2>3. Uncounted = call.copied /\ Uncounted' = 0
      BY <1>5, <2>2 DEF Uncounted
    <2>4. got.count = FrameBytes * writer.encoded + writer'.bytes + Uncounted'
      <3>1. got.count = FrameBytes * writer.encoded + writer.bytes + call.copied
        BY <1>5, <2>3 DEF WriterInv
      <3>2. QED
        BY <2>1, <2>2, <2>3, <3>1
    <2>5. writer' \in [stage : {"absent", "asking", "reading", "encoding", "closing", "done"},
                       bytes : Nat, encoded : Nat, encoder : {"active", "failed", "finished"},
                       failed : BOOLEAN]
      <3>1. writer.bytes + call.copied \in Nat
        BY <2>1
      <3>2. PICK stage \in {"asking", "encoding"} :
              writer' = [writer EXCEPT !.bytes = writer.bytes + call.copied, !.stage = stage]
        BY <1>5
      <3>3. QED
        BY <3>1, <3>2 DEF WriterInv
    <2>6. /\ writer'.stage = "asking" => writer'.bytes < Wanted
          /\ writer'.stage \in {"asking", "encoding"} /\ ~writer'.failed /\ writer'.encoder = "active"
      BY <1>5, <2>2 DEF WriterInv
    <2>7. QED
      BY <1>1, <1>5, <2>2, <2>4, <2>5, <2>6 DEF WriterInv, WriteMeansWhole, Wanted
  <1>6. QED
    BY <1>2, <1>3, <1>4, <1>5 DEF TakePcm

LEMMA EncodeKeepsWriter ==
  ASSUME StreamInv, WriterInv, EncodePcm
  PROVE  WriterInv'
  <1>1. /\ writer.stage = "encoding" /\ step = "idle"
        /\ UNCHANGED <<source, step, answer, got, call>>
    BY DEF EncodePcm, WriterInv, vars, stream
  <1>2. CASE /\ writer.bytes % FrameBytes = 0
             /\ writer' = [writer EXCEPT !.stage = "asking", !.bytes = 0,
                             !.encoded = @ + writer.bytes \div FrameBytes]
    <2>1. FrameBytes \in Nat \ {0} /\ writer.bytes \in Nat /\ writer.encoded \in Nat
      BY PcmAssumption DEF WriterInv
    <2>2. /\ writer.bytes \div FrameBytes \in Nat
          /\ FrameBytes * (writer.bytes \div FrameBytes) = writer.bytes
      BY <1>2, <2>1, WholeFrames
    <2>3. FrameBytes * (writer.encoded + writer.bytes \div FrameBytes)
            = FrameBytes * writer.encoded + writer.bytes
      BY <2>1, <2>2, Times
    <2>4. /\ writer'.stage = "asking" /\ writer'.bytes = 0
          /\ writer'.encoded = writer.encoded + writer.bytes \div FrameBytes
          /\ writer'.failed = writer.failed /\ writer'.encoder = writer.encoder
      BY <1>2 DEF WriterInv
    <2>5. Uncounted = 0 /\ Uncounted' = 0
      BY <1>1, <2>4 DEF Uncounted
    <2>6. got.count = FrameBytes * writer'.encoded + writer'.bytes + Uncounted'
      <3>1. FrameBytes * writer.encoded \in Nat
        BY <2>1, Times
      <3>2. got.count = FrameBytes * writer.encoded + writer.bytes
        BY <1>1, <2>1, <2>5, <3>1 DEF WriterInv
      <3>3. FrameBytes * writer'.encoded = got.count
        BY <2>3, <2>4, <3>2
      <3>4. QED
        BY <2>1, <2>4, <2>5, <3>1, <3>2, <3>3
    <2>7. 0 < Wanted
      <3>1. ChunkFrames * FrameBytes > 0
        BY PcmAssumption, PullAssumption
      <3>2. QED
        BY <3>1 DEF Wanted
    <2>8. writer' \in [stage : {"absent", "asking", "reading", "encoding", "closing", "done"},
                       bytes : Nat, encoded : Nat, encoder : {"active", "failed", "finished"},
                       failed : BOOLEAN]
      <3>1. writer.encoded + writer.bytes \div FrameBytes \in Nat
        BY <2>1, <2>2
      <3>2. writer' = [writer EXCEPT !.stage = "asking", !.bytes = 0,
                         !.encoded = writer.encoded + writer.bytes \div FrameBytes]
        BY <1>2
      <3>3. QED
        BY <3>1, <3>2 DEF WriterInv
    <2>9. /\ writer'.bytes < Wanted /\ answer' # "threw" /\ ~writer'.failed /\ writer'.encoder = "active"
      BY <1>1, <2>4, <2>7 DEF WriterInv
    <2>10. QED
      BY <1>1, <2>4, <2>6, <2>8, <2>9 DEF WriterInv, WriteMeansWhole, Wanted
  <1>3. CASE Fail \/ writer' = [writer EXCEPT !.stage = "closing", !.failed = TRUE, !.encoder = "failed"]
    BY <1>1, <1>3, FailKeepsWriter
  <1>4. QED
    BY <1>2, <1>3 DEF EncodePcm

LEMMA CloseKeepsWriter ==
  ASSUME StreamInv, WriterInv, CloseEncoder
  PROVE  WriterInv'
  <1>1. writer.stage = "closing" /\ UNCHANGED <<source, step, answer, got, call>> /\ step = "idle"
    BY DEF CloseEncoder, WriterInv, vars, stream
  <1>2. Length' = Length
    BY <1>1 DEF Length
  <1>3. CASE writer' = [writer EXCEPT !.stage = "done", !.encoder = IF @ = "active" THEN "finished" ELSE @]
    <2>1. /\ writer'.stage = "done" /\ writer'.failed = writer.failed /\ writer'.encoded = writer.encoded
          /\ writer'.encoder = IF writer.encoder = "active" THEN "finished" ELSE writer.encoder
      BY <1>3 DEF WriterInv
    <2>2. WriteMeansWhole'
      BY <1>1, <1>2, <2>1 DEF WriterInv, WriteMeansWhole
    <2>3. writer' \in [stage : {"absent", "asking", "reading", "encoding", "closing", "done"},
                       bytes : Nat, encoded : Nat, encoder : {"active", "failed", "finished"},
                       failed : BOOLEAN]
      BY <1>3 DEF WriterInv
    <2>4. QED
      BY <1>1, <2>1, <2>2, <2>3 DEF WriterInv
  <1>4. CASE writer' = [writer EXCEPT !.stage = "done", !.encoder = "failed", !.failed = TRUE]
    <2>1. writer'.stage = "done" /\ writer'.failed = TRUE
      BY <1>4 DEF WriterInv
    <2>2. QED
      BY <1>1, <1>4, <2>1 DEF WriterInv, WriteMeansWhole
  <1>5. QED
    BY <1>3, <1>4 DEF CloseEncoder

(***************************************************************************)
(* Theorems.                                                               *)
(***************************************************************************)

LEMMA StreamInit == PcmInit => StreamInv /\ WriterInv
  <1> SUFFICES ASSUME PcmInit PROVE StreamInv /\ WriterInv
    OBVIOUS
  <1>1. PullInv
    BY InitInv DEF PcmInit
  <1>2. StreamTypeOK /\ got.intact /\ ReadInProgress /\ PlaceIsKept /\ EndIsTold
    <2>1. /\ buffer.from = 0 /\ buffer.to = 0 /\ ~eof /\ ~exc /\ ~closed /\ active
          /\ closing = "none" /\ step = "idle" /\ answer = "none" /\ pc = "idle"
          /\ call.length = 0 /\ call.copied = 0 /\ got.count = 0 /\ got.intact
      BY DEF PcmInit, Init, EmptyBuffer
    <2>2. StreamTypeOK
      BY DEF PcmInit, StreamTypeOK, EmptyBuffer
    <2>3. ReadInProgress /\ EndIsTold
      BY <2>1 DEF ReadInProgress, EndIsTold
    <2>4. PlaceIsKept
      BY <2>1 DEF PlaceIsKept, Lost
    <2>5. QED
      BY <2>1, <2>2, <2>3, <2>4
  <1>3. BufferFollowsReads
    BY PcmAssumption DEF PcmInit, Init, BufferFollowsReads, EmptyBuffer
  <1>4. PICK s \in {"absent", "asking"} :
          writer = [stage |-> s, bytes |-> 0, encoded |-> 0, encoder |-> "active", failed |-> FALSE]
    BY DEF PcmInit
  <1>5. 0 < Wanted
    <2>1. ChunkFrames * FrameBytes > 0
      BY PcmAssumption, PullAssumption
    <2>2. QED
      BY <2>1 DEF Wanted
  <1>6. got.count = FrameBytes * writer.encoded + writer.bytes + Uncounted
    <2>1. Uncounted = 0 /\ got.count = 0
      BY <1>4 DEF Uncounted, PcmInit
    <2>2. FrameBytes * 0 = 0
      BY PcmAssumption
    <2>3. QED
      BY <1>4, <2>1, <2>2
  <1>7. WriterInv
    BY <1>4, <1>5, <1>6 DEF PcmInit, WriterInv, WriteMeansWhole
  <1>8. QED
    BY <1>1, <1>2, <1>3, <1>7 DEF StreamInv

LEMMA PcmNextKeeps ==
  ASSUME StreamInv, WriterInv, [PcmNext]_pcmVars
  PROVE  StreamInv' /\ WriterInv'
  <1>1. PullInv'
    BY NextKeepsInv, StreamStepIsReadStep DEF StreamInv, pcmVars
  <1>2. CASE ApplicationReads
    <2>1. PICK n \in 1 .. MaxRead : BeginReadBytes(n)
      BY <1>2 DEF ApplicationReads
    <2>2. n \in Nat \ {0}
      BY PcmAssumption
    <2>3. StreamInv'
      BY <1>1, <2>1, <2>2, BeginReadBytesKeeps
    <2>4. writer.stage = "absent" /\ writer' = writer
      BY <1>2 DEF ApplicationReads
    <2>5. QED
      BY <2>3, <2>4 DEF WriterInv, WriteMeansWhole
  <1>3. CASE CopyBytes
    <2>1. StreamInv'
      BY <1>1, <1>3, CopyBytesKeeps
    <2>2. step = "copy" /\ writer' = writer
      BY <1>3 DEF CopyBytes, ReadReturns
    <2>3. \/ got'.count = got.count /\ ~(step' = "idle" /\ answer' = "bytes")
          \/ /\ got'.count = got.count + call.copied /\ call' = call /\ step' = "idle"
             /\ answer' = IF call.copied = 0 THEN "end" ELSE "bytes"
      BY <1>3, <2>2 DEF CopyBytes, ReadReturns, StreamInv, StreamTypeOK
    <2>4. QED
      BY <2>1, <2>2, <2>3, ReadKeepsWriter
  <1>4. CASE BeginFill
    <2>1. StreamInv'
      BY <1>1, <1>4, BeginFillKeeps
    <2>2. step = "fill" /\ writer' = writer /\ got' = got /\ answer = "none"
      BY <1>4 DEF BeginFill, StreamInv, ReadInProgress
    <2>3. answer' # "bytes"
      BY <1>4, <2>2 DEF BeginFill, Throw
    <2>4. QED
      BY <2>1, <2>2, <2>3, ReadKeepsWriter
  <1>5. CASE EndFill
    <2>1. StreamInv'
      BY <1>1, <1>5, EndFillKeeps
    <2>2. step = "decoding" /\ writer' = writer /\ got' = got /\ answer = "none"
      BY <1>5 DEF EndFill, StreamInv, ReadInProgress
    <2>3. answer' # "bytes"
      BY <1>5, <2>2 DEF EndFill, FillFails, Throw
    <2>4. QED
      BY <2>1, <2>2, <2>3, ReadKeepsWriter
  <1>6. CASE Decode
    <2>1. StreamInv'
      BY <1>1, <1>6, DecodeKeeps
    <2>2. pc # "idle"
      BY <1>1, <1>6, DecodeCounts DEF Decode, StreamInv
    <2>3. step = "decoding" /\ writer' = writer /\ got' = got /\ answer' = "none"
      BY <1>6, <2>2 DEF Decode, stream, StreamInv, ReadInProgress
    <2>4. QED
      BY <2>1, <2>3, ReadKeepsWriter
  <1>7. CASE BeginClose \/ CloseStep
    <2>1. StreamInv'
      BY <1>1, <1>7, CloseKeeps
    <2>2. UNCHANGED <<vars, step, call, answer, got, writer>>
      BY <1>7 DEF BeginClose, CloseStep
    <2>3. QED
      BY <2>1, <2>2 DEF WriterInv, WriteMeansWhole, Uncounted, Length, Wanted, vars
  <1>8. CASE AskForPcm
    <2>1. BeginReadBytes(Least(Wanted - writer.bytes, Remaining))
      BY <1>8 DEF AskForPcm
    <2>2. Least(Wanted - writer.bytes, Remaining) \in Nat \ {0}
      BY <1>8, AskedLength DEF AskForPcm
    <2>3. QED
      BY <1>1, <1>8, <2>1, <2>2, BeginReadBytesKeeps, AskKeepsWriter
  <1>9. CASE TakePcm \/ EncodePcm \/ CloseEncoder
    <2>1. UNCHANGED <<vars, stream>>
      BY <1>9 DEF TakePcm, EncodePcm, CloseEncoder
    <2>2. QED
      BY <1>9, <2>1, StreamUnchanged, TakeKeepsWriter, EncodeKeepsWriter, CloseKeepsWriter
  <1>10. CASE UNCHANGED pcmVars
    <2>1. UNCHANGED <<vars, stream>> /\ UNCHANGED <<source, step, call, answer, got, writer>>
      BY <1>10 DEF pcmVars, vars, stream
    <2>2. QED
      BY <2>1, StreamUnchanged DEF WriterInv, WriteMeansWhole, Uncounted, Length, Wanted
  <1>11. QED
    BY <1>2, <1>3, <1>4, <1>5, <1>6, <1>7, <1>8, <1>9, <1>10 DEF PcmNext, Written

\* What ties the byte buffer, the native reads and the writer's counts together.
THEOREM StreamInvariantHolds == PcmSpec => [](StreamInv /\ WriterInv)
  <1>1. QED
    BY StreamInit, PcmNextKeeps, PTL DEF PcmSpec

\* FlacPcmInputStream.read returns the decoded stream without a gap and tells the
\* end only after the last byte, for buffers of any size and a close at any time.
THEOREM PcmIsInOrder == PcmSpec => []PcmInOrder
  <1>1. QED
    BY StreamInvariantHolds, StreamInvImpliesOrder, PTL

\* FlacAudioFileWriter.write returns normally only after it has encoded and
\* finished the whole stream.
THEOREM WriteIsWhole == PcmSpec => []WriteMeansWhole
  <1>1. WriterInv => WriteMeansWhole
    BY DEF WriterInv
  <1>2. QED
    BY <1>1, StreamInvariantHolds, PTL

\* The stream's native reads together are one operation of DecodeContract.
THEOREM StreamImplementsContract == PcmSpec => ImplementsContract
  <1>1. QED
    BY StreamReads, ReadsImplementContract, PTL
=============================================================================
