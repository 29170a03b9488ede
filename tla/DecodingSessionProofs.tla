----------------------- MODULE DecodingSessionProofs -----------------------
(***************************************************************************)
(* Proofs about DecodingSession, for any number of threads: the inductive  *)
(* invariant, the safety properties that follow from it, and the           *)
(* refinement of HandleOwnership, the single transferable token.           *)
(***************************************************************************)
EXTENDS DecodingSession, TLAPS

-----------------------------------------------------------------------------
(* The inductive invariant.                                                *)

\* At first the thread that opened the native decoder holds its handle.
LEMMA InitInv == Init => IInv
  <1> SUFFICES ASSUME Init PROVE IInv
    OBVIOUS
  <1>1. PICK t \in Threads :
          /\ pc = [u \in Threads |-> IF u = t THEN "opening" ELSE "idle"]
          /\ duty = [a \in Actors |-> a = t]
    BY DEF Init
  <1>2. /\ \A u \in Threads : pc[u] = IF u = t THEN "opening" ELSE "idle"
        /\ \A a \in Actors : duty[a] <=> a = t
    BY <1>1
  <1>3. TypeOK
    BY <1>1 DEF Init, TypeOK, CleanupTypeOK, PCs, Actors
  <1>4. SingleOwner /\ NothingStale /\ FallbackKept
    BY <1>2 DEF Init, SingleOwner, NothingStale, FallbackKept, Holders, Actors
  <1>5. DecodingState
    BY <1>2 DEF Init, DecodingState, InDecode
  <1>6. Duties
    BY <1>2, CleanerAssumption DEF Duties, Actors
  <1>7. Registration /\ Reachability
    BY <1>2 DEF Init, Registration, Reachability
  <1> QED
    BY <1>3, <1>4, <1>5, <1>6, <1>7 DEF IInv

\* The opener puts the handle into the cell and registers it: it was the sole holder.
LEMMA ConstructKeepsInv ==
  ASSUME IInv, NEW t \in Threads, Construct(t)
  PROVE  IInv'
  <1> USE CleanerAssumption DEF IInv, Construct, Restore, Goto
  <1>1. TypeOK'
    BY DEF TypeOK, CleanupTypeOK, PCs, InDecode, Actors
  <1>2. SingleOwner' /\ NothingStale'
    BY DEF SingleOwner, NothingStale, Holders, Actors, Duties, Registration, TypeOK,
           CleanupTypeOK
  <1>3. FallbackKept'
    BY DEF FallbackKept, SingleOwner, NothingStale, Holders, Actors, Duties, Registration,
           TypeOK, CleanupTypeOK
  <1>4. DecodingState'
    BY DEF DecodingState, InDecode, Registration, Reachability, Fenced, Duties,
           TypeOK, CleanupTypeOK
  <1>5. Duties'
    BY DEF Duties, SingleOwner, NothingStale, Holders, Actors, Registration, TypeOK,
           CleanupTypeOK
  <1>6. Registration'
    BY DEF Registration, Duties, SingleOwner, NothingStale, FallbackKept, Holders, Actors,
           DecodingState, InDecode, TypeOK, CleanupTypeOK
  <1>7. Reachability'
    BY DEF Reachability, Fenced, Duties, SingleOwner, NothingStale, Holders, Actors,
           DecodingState, InDecode, Registration, TypeOK, CleanupTypeOK
  <1> QED
    BY <1>1, <1>2, <1>3, <1>4, <1>5, <1>6, <1>7

\* The opener keeps the handle.
LEMMA ConstructFailsKeepsInv ==
  ASSUME IInv, NEW t \in Threads, ConstructFails(t)
  PROVE  IInv'
  <1> USE CleanerAssumption DEF IInv, ConstructFails, Goto, cleanupVars
  <1>1. TypeOK'
    BY DEF TypeOK, CleanupTypeOK, PCs, InDecode, Actors
  <1>2. SingleOwner' /\ NothingStale'
    BY DEF SingleOwner, NothingStale, Holders, Actors, Duties, Registration, TypeOK,
           CleanupTypeOK
  <1>3. FallbackKept'
    BY DEF FallbackKept, SingleOwner, NothingStale, Holders, Actors, Duties, Registration,
           TypeOK, CleanupTypeOK
  <1>4. DecodingState'
    BY DEF DecodingState, InDecode, Registration, Reachability, Fenced, Duties,
           TypeOK, CleanupTypeOK
  <1>5. Duties'
    BY DEF Duties, SingleOwner, NothingStale, Holders, Actors, Registration, TypeOK,
           CleanupTypeOK
  <1>6. Registration'
    BY DEF Registration, Duties, SingleOwner, NothingStale, FallbackKept, Holders, Actors,
           DecodingState, InDecode, TypeOK, CleanupTypeOK
  <1>7. Reachability'
    BY DEF Reachability, Fenced, Duties, SingleOwner, NothingStale, Holders, Actors,
           DecodingState, InDecode, Registration, TypeOK, CleanupTypeOK
  <1> QED
    BY <1>1, <1>2, <1>3, <1>4, <1>5, <1>6, <1>7

\* The opener drops its handle; nobody else ever had it.
LEMMA DisownKeepsInv ==
  ASSUME IInv, NEW t \in Threads, Disown(t)
  PROVE  IInv'
  <1> USE CleanerAssumption DEF IInv, Disown, ReleaseSucceeds, LastReleaseFails, Goto
  <1>1. TypeOK'
    BY DEF TypeOK, CleanupTypeOK, PCs, InDecode, Actors
  <1>2. SingleOwner' /\ NothingStale'
    BY DEF SingleOwner, NothingStale, Holders, Actors, Duties, Registration, TypeOK,
           CleanupTypeOK
  <1>3. FallbackKept'
    BY DEF FallbackKept, SingleOwner, NothingStale, Holders, Actors, Duties, Registration,
           TypeOK, CleanupTypeOK
  <1>4. DecodingState'
    BY DEF DecodingState, InDecode, Registration, Reachability, Fenced, Duties,
           TypeOK, CleanupTypeOK
  <1>5. Duties'
    BY DEF Duties, SingleOwner, NothingStale, Holders, Actors, Registration, TypeOK,
           CleanupTypeOK
  <1>6. Registration'
    BY DEF Registration, Duties, SingleOwner, NothingStale, FallbackKept, Holders, Actors,
           DecodingState, InDecode, TypeOK, CleanupTypeOK
  <1>7. Reachability'
    BY DEF Reachability, Fenced, Duties, SingleOwner, NothingStale, Holders, Actors,
           DecodingState, InDecode, Registration, TypeOK, CleanupTypeOK
  <1> QED
    BY <1>1, <1>2, <1>3, <1>4, <1>5, <1>6, <1>7

\* The session was ACTIVE, so no other decode runs, and it has its handle.
LEMMA BeginDecodeKeepsInv ==
  ASSUME IInv, NEW t \in Threads, BeginDecode(t)
  PROVE  IInv'
  <1> USE CleanerAssumption DEF IInv, BeginDecode, Goto, cleanupVars
  <1>1. TypeOK'
    BY DEF TypeOK, CleanupTypeOK, PCs, InDecode, Actors
  <1>2. SingleOwner' /\ NothingStale'
    BY DEF SingleOwner, NothingStale, Holders, Actors, Duties, Registration, TypeOK,
           CleanupTypeOK
  <1>3. FallbackKept'
    BY DEF FallbackKept, SingleOwner, NothingStale, Holders, Actors, Duties, Registration,
           TypeOK, CleanupTypeOK
  <1>4. DecodingState'
    BY DEF DecodingState, InDecode, Registration, Reachability, Fenced, Duties,
           TypeOK, CleanupTypeOK
  <1>5. Duties'
    BY DEF Duties, SingleOwner, NothingStale, Holders, Actors, Registration, TypeOK,
           CleanupTypeOK
  <1>6. Registration'
    BY DEF Registration, Duties, SingleOwner, NothingStale, FallbackKept, Holders, Actors,
           DecodingState, InDecode, TypeOK, CleanupTypeOK
  <1>7. Reachability'
    BY DEF Reachability, Fenced, Duties, SingleOwner, NothingStale, Holders, Actors,
           DecodingState, InDecode, Registration, TypeOK, CleanupTypeOK
  <1> QED
    BY <1>1, <1>2, <1>3, <1>4, <1>5, <1>6, <1>7

\* Only the thread's place changes, inside its decode.
LEMMA NativeDecodeKeepsInv ==
  ASSUME IInv, NEW t \in Threads, NativeDecode(t)
  PROVE  IInv'
  <1> USE CleanerAssumption DEF IInv, NativeDecode, Goto, cleanupVars
  <1>1. TypeOK'
    BY DEF TypeOK, CleanupTypeOK, PCs, InDecode, Actors
  <1>2. SingleOwner' /\ NothingStale'
    BY DEF SingleOwner, NothingStale, Holders, Actors, Duties, Registration, TypeOK,
           CleanupTypeOK
  <1>3. FallbackKept'
    BY DEF FallbackKept, SingleOwner, NothingStale, Holders, Actors, Duties, Registration,
           TypeOK, CleanupTypeOK
  <1>4. DecodingState'
    BY DEF DecodingState, InDecode, Registration, Reachability, Fenced, Duties,
           TypeOK, CleanupTypeOK
  <1>5. Duties'
    BY DEF Duties, SingleOwner, NothingStale, Holders, Actors, Registration, TypeOK,
           CleanupTypeOK
  <1>6. Registration'
    BY DEF Registration, Duties, SingleOwner, NothingStale, FallbackKept, Holders, Actors,
           DecodingState, InDecode, TypeOK, CleanupTypeOK
  <1>7. Reachability'
    BY DEF Reachability, Fenced, Duties, SingleOwner, NothingStale, Holders, Actors,
           DecodingState, InDecode, Registration, TypeOK, CleanupTypeOK
  <1> QED
    BY <1>1, <1>2, <1>3, <1>4, <1>5, <1>6, <1>7

\* Only the thread's place changes, inside its decode.
LEMMA NativeReturnsKeepsInv ==
  ASSUME IInv, NEW t \in Threads, NativeReturns(t)
  PROVE  IInv'
  <1> USE CleanerAssumption DEF IInv, NativeReturns, Goto, cleanupVars
  <1>1. TypeOK'
    BY DEF TypeOK, CleanupTypeOK, PCs, InDecode, Actors
  <1>2. SingleOwner' /\ NothingStale'
    BY DEF SingleOwner, NothingStale, Holders, Actors, Duties, Registration, TypeOK,
           CleanupTypeOK
  <1>3. FallbackKept'
    BY DEF FallbackKept, SingleOwner, NothingStale, Holders, Actors, Duties, Registration,
           TypeOK, CleanupTypeOK
  <1>4. DecodingState'
    BY DEF DecodingState, InDecode, Registration, Reachability, Fenced, Duties,
           TypeOK, CleanupTypeOK
  <1>5. Duties'
    BY DEF Duties, SingleOwner, NothingStale, Holders, Actors, Registration, TypeOK,
           CleanupTypeOK
  <1>6. Registration'
    BY DEF Registration, Duties, SingleOwner, NothingStale, FallbackKept, Holders, Actors,
           DecodingState, InDecode, TypeOK, CleanupTypeOK
  <1>7. Reachability'
    BY DEF Reachability, Fenced, Duties, SingleOwner, NothingStale, Holders, Actors,
           DecodingState, InDecode, Registration, TypeOK, CleanupTypeOK
  <1> QED
    BY <1>1, <1>2, <1>3, <1>4, <1>5, <1>6, <1>7

\* Only the thread's place changes, inside its decode.
LEMMA DecodeThrowsKeepsInv ==
  ASSUME IInv, NEW t \in Threads, DecodeThrows(t)
  PROVE  IInv'
  <1> USE CleanerAssumption DEF IInv, DecodeThrows, Goto, cleanupVars
  <1>1. TypeOK'
    BY DEF TypeOK, CleanupTypeOK, PCs, InDecode, Actors
  <1>2. SingleOwner' /\ NothingStale'
    BY DEF SingleOwner, NothingStale, Holders, Actors, Duties, Registration, TypeOK,
           CleanupTypeOK
  <1>3. FallbackKept'
    BY DEF FallbackKept, SingleOwner, NothingStale, Holders, Actors, Duties, Registration,
           TypeOK, CleanupTypeOK
  <1>4. DecodingState'
    BY DEF DecodingState, InDecode, Registration, Reachability, Fenced, Duties,
           TypeOK, CleanupTypeOK
  <1>5. Duties'
    BY DEF Duties, SingleOwner, NothingStale, Holders, Actors, Registration, TypeOK,
           CleanupTypeOK
  <1>6. Registration'
    BY DEF Registration, Duties, SingleOwner, NothingStale, FallbackKept, Holders, Actors,
           DecodingState, InDecode, TypeOK, CleanupTypeOK
  <1>7. Reachability'
    BY DEF Reachability, Fenced, Duties, SingleOwner, NothingStale, Holders, Actors,
           DecodingState, InDecode, Registration, TypeOK, CleanupTypeOK
  <1> QED
    BY <1>1, <1>2, <1>3, <1>4, <1>5, <1>6, <1>7

\* Either the handle stays in the cell or, with a close waiting, moves to the thread.
LEMMA FinishDecodeKeepsInv ==
  ASSUME IInv, NEW t \in Threads, FinishDecode(t)
  PROVE  IInv'
  <1> USE CleanerAssumption DEF IInv, FinishDecode, Leave, Claim, Goto
  <1>1. TypeOK'
    BY DEF TypeOK, CleanupTypeOK, PCs, InDecode, Actors
  <1>2. SingleOwner' /\ NothingStale'
    BY DEF SingleOwner, NothingStale, Holders, Actors, Duties, Registration, TypeOK,
           CleanupTypeOK
  <1>3. FallbackKept'
    BY DEF FallbackKept, SingleOwner, NothingStale, Holders, Actors, Duties, Registration,
           TypeOK, CleanupTypeOK
  <1>4. DecodingState'
    BY DEF DecodingState, InDecode, Registration, Reachability, Fenced, Duties,
           TypeOK, CleanupTypeOK
  <1>5. Duties'
    BY DEF Duties, SingleOwner, NothingStale, Holders, Actors, Registration, TypeOK,
           CleanupTypeOK
  <1>6. Registration'
    BY DEF Registration, Duties, SingleOwner, NothingStale, FallbackKept, Holders, Actors,
           DecodingState, InDecode, TypeOK, CleanupTypeOK
  <1>7. Reachability'
    BY DEF Reachability, Fenced, Duties, SingleOwner, NothingStale, Holders, Actors,
           DecodingState, InDecode, Registration, TypeOK, CleanupTypeOK
  <1> QED
    BY <1>1, <1>2, <1>3, <1>4, <1>5, <1>6, <1>7

\* The session was DECODING and reachable, so its handle is there to be claimed.
LEMMA FailDecodeKeepsInv ==
  ASSUME IInv, NEW t \in Threads, FailDecode(t)
  PROVE  IInv'
  <1> USE CleanerAssumption DEF IInv, FailDecode, Leave, Claim, Goto
  <1>1. TypeOK'
    BY DEF TypeOK, CleanupTypeOK, PCs, InDecode, Actors
  <1>2. SingleOwner' /\ NothingStale'
    BY DEF SingleOwner, NothingStale, Holders, Actors, Duties, Registration, TypeOK,
           CleanupTypeOK
  <1>3. FallbackKept'
    BY DEF FallbackKept, SingleOwner, NothingStale, Holders, Actors, Duties, Registration,
           TypeOK, CleanupTypeOK
  <1>4. DecodingState'
    BY DEF DecodingState, InDecode, Registration, Reachability, Fenced, Duties,
           TypeOK, CleanupTypeOK
  <1>5. Duties'
    BY DEF Duties, SingleOwner, NothingStale, Holders, Actors, Registration, TypeOK,
           CleanupTypeOK
  <1>6. Registration'
    BY DEF Registration, Duties, SingleOwner, NothingStale, FallbackKept, Holders, Actors,
           DecodingState, InDecode, TypeOK, CleanupTypeOK
  <1>7. Reachability'
    BY DEF Reachability, Fenced, Duties, SingleOwner, NothingStale, Holders, Actors,
           DecodingState, InDecode, Registration, TypeOK, CleanupTypeOK
  <1> QED
    BY <1>1, <1>2, <1>3, <1>4, <1>5, <1>6, <1>7

\* Whoever claims finds the cell full or gets nothing.
LEMMA CloseIdleKeepsInv ==
  ASSUME IInv, NEW t \in Threads, CloseIdle(t)
  PROVE  IInv'
  <1> USE CleanerAssumption DEF IInv, CloseIdle, CanCall, Leave, Claim, Goto
  <1>1. TypeOK'
    BY DEF TypeOK, CleanupTypeOK, PCs, InDecode, Actors
  <1>2. SingleOwner' /\ NothingStale'
    BY DEF SingleOwner, NothingStale, Holders, Actors, Duties, Registration, TypeOK,
           CleanupTypeOK
  <1>3. FallbackKept'
    BY DEF FallbackKept, SingleOwner, NothingStale, Holders, Actors, Duties, Registration,
           TypeOK, CleanupTypeOK
  <1>4. DecodingState'
    BY DEF DecodingState, InDecode, Registration, Reachability, Fenced, Duties,
           TypeOK, CleanupTypeOK
  <1>5. Duties'
    BY DEF Duties, SingleOwner, NothingStale, Holders, Actors, Registration, TypeOK,
           CleanupTypeOK
  <1>6. Registration'
    BY DEF Registration, Duties, SingleOwner, NothingStale, FallbackKept, Holders, Actors,
           DecodingState, InDecode, TypeOK, CleanupTypeOK
  <1>7. Reachability'
    BY DEF Reachability, Fenced, Duties, SingleOwner, NothingStale, Holders, Actors,
           DecodingState, InDecode, Registration, TypeOK, CleanupTypeOK
  <1> QED
    BY <1>1, <1>2, <1>3, <1>4, <1>5, <1>6, <1>7

\* The decode in progress will see the request.
LEMMA CloseDuringDecodeKeepsInv ==
  ASSUME IInv, NEW t \in Threads, CloseDuringDecode(t)
  PROVE  IInv'
  <1> USE CleanerAssumption DEF IInv, CloseDuringDecode, CanCall, cleanupVars
  <1>1. TypeOK'
    BY DEF TypeOK, CleanupTypeOK, PCs, InDecode, Actors
  <1>2. SingleOwner' /\ NothingStale'
    BY DEF SingleOwner, NothingStale, Holders, Actors, Duties, Registration, TypeOK,
           CleanupTypeOK
  <1>3. FallbackKept'
    BY DEF FallbackKept, SingleOwner, NothingStale, Holders, Actors, Duties, Registration,
           TypeOK, CleanupTypeOK
  <1>4. DecodingState'
    BY DEF DecodingState, InDecode, Registration, Reachability, Fenced, Duties,
           TypeOK, CleanupTypeOK
  <1>5. Duties'
    BY DEF Duties, SingleOwner, NothingStale, Holders, Actors, Registration, TypeOK,
           CleanupTypeOK
  <1>6. Registration'
    BY DEF Registration, Duties, SingleOwner, NothingStale, FallbackKept, Holders, Actors,
           DecodingState, InDecode, TypeOK, CleanupTypeOK
  <1>7. Reachability'
    BY DEF Reachability, Fenced, Duties, SingleOwner, NothingStale, Holders, Actors,
           DecodingState, InDecode, Registration, TypeOK, CleanupTypeOK
  <1> QED
    BY <1>1, <1>2, <1>3, <1>4, <1>5, <1>6, <1>7

\* The holder releases the native owner or gives the handle back to the cell.
LEMMA ReleaseKeepsInv ==
  ASSUME IInv, NEW t \in Threads, Release(t)
  PROVE  IInv'
  <1> USE CleanerAssumption DEF IInv, Release, ReleaseSucceeds, ReleaseFails, Restore, Goto
  <1>1. TypeOK'
    BY DEF TypeOK, CleanupTypeOK, PCs, InDecode, Actors
  <1>2. SingleOwner' /\ NothingStale'
    BY DEF SingleOwner, NothingStale, Holders, Actors, Duties, Registration, TypeOK,
           CleanupTypeOK
  <1>3. FallbackKept'
    BY DEF FallbackKept, SingleOwner, NothingStale, Holders, Actors, Duties, Registration,
           TypeOK, CleanupTypeOK
  <1>4. DecodingState'
    BY DEF DecodingState, InDecode, Registration, Reachability, Fenced, Duties,
           TypeOK, CleanupTypeOK
  <1>5. Duties'
    BY DEF Duties, SingleOwner, NothingStale, Holders, Actors, Registration, TypeOK,
           CleanupTypeOK
  <1>6. Registration'
    BY DEF Registration, Duties, SingleOwner, NothingStale, FallbackKept, Holders, Actors,
           DecodingState, InDecode, TypeOK, CleanupTypeOK
  <1>7. Reachability'
    BY DEF Reachability, Fenced, Duties, SingleOwner, NothingStale, Holders, Actors,
           DecodingState, InDecode, Registration, TypeOK, CleanupTypeOK
  <1> QED
    BY <1>1, <1>2, <1>3, <1>4, <1>5, <1>6, <1>7

\* After a release the cell is empty, so cleaning claims nothing.
LEMMA CleanAfterReleaseKeepsInv ==
  ASSUME IInv, NEW t \in Threads, CleanAfterRelease(t)
  PROVE  IInv'
  <1> USE CleanerAssumption DEF IInv, CleanAfterRelease, Clean, Claim, Goto, cleanupVars
  <1>1. TypeOK'
    BY DEF TypeOK, CleanupTypeOK, PCs, InDecode, Actors
  <1>2. SingleOwner' /\ NothingStale'
    BY DEF SingleOwner, NothingStale, Holders, Actors, Duties, Registration, TypeOK,
           CleanupTypeOK
  <1>3. FallbackKept'
    BY DEF FallbackKept, SingleOwner, NothingStale, Holders, Actors, Duties, Registration,
           TypeOK, CleanupTypeOK
  <1>4. DecodingState'
    BY DEF DecodingState, InDecode, Registration, Reachability, Fenced, Duties,
           TypeOK, CleanupTypeOK
  <1>5. Duties'
    BY DEF Duties, SingleOwner, NothingStale, Holders, Actors, Registration, TypeOK,
           CleanupTypeOK
  <1>6. Registration'
    BY DEF Registration, Duties, SingleOwner, NothingStale, FallbackKept, Holders, Actors,
           DecodingState, InDecode, TypeOK, CleanupTypeOK
  <1>7. Reachability'
    BY DEF Reachability, Fenced, Duties, SingleOwner, NothingStale, Holders, Actors,
           DecodingState, InDecode, Registration, TypeOK, CleanupTypeOK
  <1> QED
    BY <1>1, <1>2, <1>3, <1>4, <1>5, <1>6, <1>7

\* Every thread is out of the session: nothing of it changes but reachability.
LEMMA DropKeepsInv ==
  ASSUME IInv, Drop
  PROVE  IInv'
  <1> USE DEF IInv, Drop
  <1>1. TypeOK' /\ SingleOwner' /\ NothingStale' /\ FallbackKept' /\ DecodingState'
    BY DEF TypeOK, CleanupTypeOK, SingleOwner, NothingStale, FallbackKept, Holders, DecodingState
  <1>2. Duties' /\ Registration'
    BY DEF Duties, Registration
  <1>3. Reachability'
    BY DEF Reachability, Fenced
  <1> QED
    BY <1>1, <1>2, <1>3

\* The Cleaner claims the handle of a dropped session, and releases it.
LEMMA CleanerStepKeepsInv ==
  ASSUME IInv, CleanerStep
  PROVE  IInv'
  <1> USE CleanerAssumption DEF IInv, CleanerStep, CleanerRuns, CleanerReleases,
        Clean, Claim, ReleaseSucceeds, LastReleaseFails
  <1>0. \A t \in Threads : pc[t] = "idle" /\ ~duty[t]
    BY DEF Duties, Reachability, Fenced
  <1>1. TypeOK'
    BY DEF TypeOK, CleanupTypeOK, Actors
  <1>2. \A t \in Threads : ~duty'[t]
    BY <1>0 DEF Actors, TypeOK, CleanupTypeOK
  <1>3. SingleOwner' /\ NothingStale' /\ FallbackKept'
    <2>1. CASE CleanerRuns
      <3>1. ~cell' /\ UNCHANGED native /\ duty'[Cleaner] = cell
        BY <2>1 DEF Actors, TypeOK, CleanupTypeOK
      <3>2. native = "live" <=> cell \/ duty[Cleaner]
        BY <1>0 DEF SingleOwner, NothingStale, Holders, Actors
      <3>3. ~duty[Cleaner]
        BY <2>1 DEF Duties
      <3> QED
        BY <1>2, <3>1, <3>2, <3>3 DEF SingleOwner, NothingStale, FallbackKept, Holders, Actors
    <2>2. CASE CleanerReleases
      <3>1. ~cell' /\ native' # "live" /\ ~duty'[Cleaner]
        BY <2>2 DEF SingleOwner, NothingStale, Holders, Actors, TypeOK, CleanupTypeOK
      <3> QED
        BY <1>2, <3>1 DEF SingleOwner, NothingStale, FallbackKept, Holders, Actors
    <2> QED
      BY <2>1, <2>2
  <1>4. DecodingState'
    BY DEF DecodingState
  <1>5. Duties'
    BY DEF Duties, Reachability, Fenced, Actors, TypeOK, CleanupTypeOK
  <1>6. Registration'
    BY DEF Registration, Duties, Reachability, Fenced, SingleOwner, NothingStale, Holders, Actors,
           TypeOK, CleanupTypeOK
  <1>7. Reachability'
    BY DEF Reachability, Fenced, Duties
  <1> QED
    BY <1>1, <1>2, <1>3, <1>4, <1>5, <1>6, <1>7

LEMMA StutterKeepsInv ==
  ASSUME IInv, UNCHANGED vars
  PROVE  IInv'
  BY DEF IInv, vars, cleanupVars, TypeOK, CleanupTypeOK, SingleOwner,
         NothingStale, FallbackKept, Holders, DecodingState, Duties, Registration, Reachability, Fenced

LEMMA NextKeepsInv ==
  ASSUME IInv, [Next]_vars
  PROVE  IInv'
  <1>1. ASSUME NEW t \in Threads, ThreadStep(t) PROVE IInv'
    BY <1>1, ConstructKeepsInv, ConstructFailsKeepsInv, DisownKeepsInv,
       BeginDecodeKeepsInv, NativeDecodeKeepsInv, NativeReturnsKeepsInv,
       DecodeThrowsKeepsInv, FinishDecodeKeepsInv, FailDecodeKeepsInv,
       CloseIdleKeepsInv, CloseDuringDecodeKeepsInv, ReleaseKeepsInv,
       CleanAfterReleaseKeepsInv DEF ThreadStep
  <1>2. CASE Drop
    BY <1>2, DropKeepsInv
  <1>3. CASE CleanerStep
    BY <1>3, CleanerStepKeepsInv
  <1>4. CASE Terminated \/ UNCHANGED vars
    BY <1>4, StutterKeepsInv DEF Terminated
  <1> QED
    BY <1>1, <1>2, <1>3, <1>4 DEF Next

\* The conjunction is invariant, whatever the number of threads.
THEOREM InvariantHolds == Spec => []IInv
  BY InitInv, NextKeepsInv, PTL DEF Spec

-----------------------------------------------------------------------------
(* What follows from it.                                                   *)

\* Every variable keeps its type.
THEOREM TypeCorrect == Spec => []TypeOK
  BY InvariantHolds, PTL DEF IInv

\* The native decoder has one party responsible for it until it is released.
THEOREM OwnerIsSingle == Spec => []SingleOwner
  BY InvariantHolds, PTL DEF IInv

\* The Cleaner fallback of an unreleased decoder is never lost.
THEOREM FallbackIsKept == Spec => []FallbackKept
  BY InvariantHolds, PTL DEF IInv

\* The state follows the decode in progress, and no close request is left over.
THEOREM StateFollowsDecode == Spec => []DecodingState
  BY InvariantHolds, PTL DEF IInv

\* Nobody releases the handle a decode in progress is using: the session is
\* DECODING and reachable, so the handle is in the cell and no one holds it.
THEOREM DecodeKeepsItsHandle == Spec => []NoReleaseDuringDecode
  <1>1. IInv => NoReleaseDuringDecode
    BY DEF IInv, NoReleaseDuringDecode, DecodingState, InDecode, Reachability, Fenced,
           SingleOwner, NothingStale
  <1> QED
    BY <1>1, InvariantHolds, PTL

-----------------------------------------------------------------------------
(* The session implements the single transferable token.                   *)

\* With a single owner and no stale handle, Owner is what the variables say.
LEMMA OwnerIs ==
  ASSUME SingleOwner, NothingStale
  PROVE  /\ cell => Owner = "cleanup"
         /\ \A a \in Actors : duty[a] => Owner = a
         /\ native # "live" => Owner = native
  <1>1. ASSUME NEW a \in Actors, duty[a] PROVE Owner = a
    <2>1. ~cell /\ native = "live" /\ a \in Holders
      BY <1>1 DEF SingleOwner, NothingStale, Holders
    <2>2. (CHOOSE b \in Holders : TRUE) = a
      BY <2>1 DEF SingleOwner
    <2> QED
      BY <2>1, <2>2 DEF Owner
  <1> QED
    BY <1>1 DEF Owner, NothingStale

LEMMA OwnerIsPrime ==
  ASSUME SingleOwner', NothingStale'
  PROVE  /\ cell' => Owner' = "cleanup"
         /\ \A a \in Actors : duty'[a] => Owner' = a
         /\ native' # "live" => Owner' = native'
  <1>1. ASSUME NEW a \in Actors, duty'[a] PROVE Owner' = a
    <2>1. ~cell' /\ native' = "live" /\ a \in Holders'
      BY <1>1 DEF SingleOwner, NothingStale, Holders
    <2>2. (CHOOSE b \in Holders' : TRUE) = a
      BY <2>1 DEF SingleOwner
    <2> QED
      BY <2>1, <2>2 DEF Owner
  <1> QED
    BY <1>1 DEF Owner, NothingStale

LEMMA InitMaps == Init => Ownership!Init
  <1> SUFFICES ASSUME Init PROVE Owner \in Actors
    BY DEF Ownership!Init
  <1>1. PICK t \in Threads : duty[t]
    BY DEF Init, Actors
  <1>2. SingleOwner /\ NothingStale
    BY InitInv DEF IInv
  <1> QED
    BY <1>1, <1>2, OwnerIs DEF Actors

\* A step that leaves handle, duties and native owner alone is a stutter.
LEMMA StutterMaps ==
  ASSUME UNCHANGED <<cell, duty, native>>
  PROVE  UNCHANGED Owner
  BY DEF Owner, Holders

\* Claiming is Claim when the cell is full, and a stutter when it is empty.
LEMMA ClaimMaps ==
  ASSUME IInv, IInv', NEW a \in Actors, ~duty[a], Claim(a), UNCHANGED native
  PROVE  Ownership!Claim(a) \/ UNCHANGED Owner
  <1>1. duty \in [Actors -> BOOLEAN] /\ cell \in BOOLEAN
    BY DEF IInv, TypeOK, CleanupTypeOK
  <1>2. CASE cell
    <2>1. duty'[a]
      BY <1>1, <1>2 DEF Claim
    <2> QED
      BY <1>2, <2>1, OwnerIs, OwnerIsPrime DEF IInv, Ownership!Claim
  <1>3. CASE ~cell
    <2>1. duty' = duty /\ cell' = cell
      BY <1>1, <1>3 DEF Claim
    <2> QED
      BY <2>1, StutterMaps
  <1> QED
    BY <1>2, <1>3

\* A release is Release, Leak or GiveBack of the holder.
LEMMA ReleaseMaps ==
  ASSUME IInv, IInv', NEW a \in Actors,
         ReleaseSucceeds(a) \/ LastReleaseFails(a) \/ ReleaseFails(a)
  PROVE  Ownership!Next
  <1>1. duty \in [Actors -> BOOLEAN]
    BY DEF IInv, TypeOK, CleanupTypeOK
  <1>2. duty[a] /\ Owner = a
    BY OwnerIs DEF IInv, ReleaseSucceeds, LastReleaseFails, ReleaseFails
  <1>3. CASE ReleaseFails(a)
    <2>1. Owner' = "cleanup"
      BY <1>3, OwnerIsPrime DEF IInv, ReleaseFails, Restore
    <2> QED
      BY <1>2, <2>1 DEF Ownership!Next, Ownership!GiveBack
  <1>4. CASE ReleaseSucceeds(a) \/ LastReleaseFails(a)
    <2>1. native' \in {"released", "leaked"}
      BY <1>2, <1>4 DEF IInv, NothingStale, Holders, ReleaseSucceeds, LastReleaseFails
    <2>2. Owner' = native'
      BY <2>1, OwnerIsPrime DEF IInv
    <2> QED
      BY <1>2, <2>1, <2>2 DEF Ownership!Next, Ownership!Release, Ownership!Leak
  <1> QED
    BY <1>3, <1>4

\* Constructing the session gives the opener's handle to the cleanup object.
LEMMA ConstructMaps ==
  ASSUME IInv, IInv', NEW t \in Threads, Construct(t)
  PROVE  Ownership!Next
  <1>1. duty[t] /\ cell'
    BY DEF IInv, Duties, Construct, Restore
  <1>2. Owner = t /\ Owner' = "cleanup"
    BY <1>1, OwnerIs, OwnerIsPrime DEF IInv, Actors
  <1> QED
    BY <1>2 DEF Ownership!Next, Ownership!GiveBack, Actors

\* Every step of the session is a step of the token, or leaves it in place.
LEMMA NextMaps ==
  ASSUME IInv, IInv', [Next]_vars
  PROVE  [Ownership!Next]_Owner
  <1>1. ASSUME NEW t \in Threads, ThreadStep(t) PROVE [Ownership!Next]_Owner
    <2>1. t \in Actors
      BY DEF Actors
    <2>2. CASE Construct(t)
      BY <2>2, ConstructMaps
    <2>3. CASE \/ ConstructFails(t) \/ BeginDecode(t) \/ NativeDecode(t)
               \/ NativeReturns(t) \/ DecodeThrows(t) \/ CloseDuringDecode(t)
      BY <2>3, StutterMaps DEF ConstructFails, BeginDecode, NativeDecode, NativeReturns,
           DecodeThrows, CloseDuringDecode, cleanupVars
    <2>4. CASE Disown(t) \/ Release(t)
      BY <2>1, <2>4, ReleaseMaps DEF Disown, Release
    <2>5. CASE FinishDecode(t) \/ FailDecode(t) \/ CloseIdle(t)
      <3>1. ~duty[t]
        BY <2>5 DEF IInv, Duties, FinishDecode, FailDecode, CloseIdle, CanCall
      <3>2. UNCHANGED native /\ (Claim(t) \/ UNCHANGED <<cell, duty>>)
        BY <2>5 DEF FinishDecode, FailDecode, CloseIdle, Leave
      <3> QED
        BY <2>1, <3>1, <3>2, ClaimMaps, StutterMaps DEF Ownership!Next
    <2>6. CASE CleanAfterRelease(t)
      <3>1. ~duty[t]
        BY <2>6 DEF IInv, Duties, CleanAfterRelease
      <3>2. UNCHANGED native /\ (Claim(t) \/ UNCHANGED <<cell, duty>>)
        BY <2>6 DEF CleanAfterRelease, Clean, cleanupVars
      <3> QED
        BY <2>1, <3>1, <3>2, ClaimMaps, StutterMaps DEF Ownership!Next
    <2> QED
      BY <1>1, <2>2, <2>3, <2>4, <2>5, <2>6 DEF ThreadStep
  <1>2. CASE Drop \/ Terminated \/ UNCHANGED vars
    BY <1>2, StutterMaps DEF Drop, Terminated, vars, cleanupVars
  <1>3. CASE CleanerStep
    <2>1. Cleaner \in Actors
      BY DEF Actors
    <2>2. CASE CleanerRuns
      <3>1. ~duty[Cleaner]
        BY <2>2 DEF IInv, Duties, CleanerRuns
      <3>2. UNCHANGED native /\ Claim(Cleaner)
        BY <2>2 DEF CleanerRuns, Clean
      <3> QED
        BY <2>1, <3>1, <3>2, ClaimMaps DEF Ownership!Next
    <2>3. CASE CleanerReleases
      BY <2>1, <2>3, ReleaseMaps DEF CleanerReleases
    <2> QED
      BY <1>3, <2>2, <2>3 DEF CleanerStep
  <1> QED
    BY <1>1, <1>2, <1>3 DEF Next

\* A decoding session passes its native handle round like a single token: it is
\* released at most once, whatever the threads, the callbacks and the Cleaner do.
THEOREM SessionImplementsOwnership == Spec => ImplementsOwnership
  BY InitMaps, NextMaps, InvariantHolds, PTL DEF Spec, ImplementsOwnership, Ownership!Spec
=============================================================================
