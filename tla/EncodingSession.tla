--------------------------- MODULE EncodingSession ---------------------------
(***************************************************************************)
(* NativeFlacEncodingSession (FlacEncoder.kt): write and finish run under  *)
(* the monitor from end to end.  libFLAC writes the output through the     *)
(* caller's stream or channel, so application code runs inside a write and *)
(* inside a finish, and may call the session again.  A failed write        *)
(* abandons the encoder; a failed finish may or may not have consumed it.  *)
(***************************************************************************)
EXTENDS LockedSession

VARIABLES
  state,    \* SessionState
  output    \* the encoded output: "open", "complete", or "damaged" by a failure

vars == <<cleanupVars, calls, state, output>>

TypeOK ==
  /\ CleanupTypeOK /\ CallsTypeOK
  /\ state \in {"ACTIVE", "WRITING", "FINISHING", "FINISHED", "FAILED"}
  /\ output \in {"open", "complete", "damaged"}

Init == OpenInit /\ state = "ACTIVE" /\ output = "open"

CanCall(t) == Constructed /\ InUserCode(t) /\ MonitorFree(t)

-----------------------------------------------------------------------------
(* writeInterleaved, with a valid chunk of at least one frame.             *)

\* mutant: a nested call finds the session still active.
StaysActive(t) ==
  /\ CanCall(t)
  /\ state = "ACTIVE" /\ cell
  /\ Enter(t, "native")
  /\ UNCHANGED <<cleanupVars, state, output>>

\* In any other state the call throws IllegalStateException.
BeginWrite(t) ==
  /\ CanCall(t)
  /\ state = "ACTIVE" /\ cell
  /\ state' = "WRITING"
  /\ Enter(t, "native")
  /\ UNCHANGED <<cleanupVars, output>>

WriteReturns(t) ==
  /\ Top(t) = "native" /\ state = "WRITING"
  /\ state' = "ACTIVE"
  /\ Return(t)
  /\ UNCHANGED <<cleanupVars, output>>

\* failAndRelease.
WriteThrows(t) ==
  /\ Top(t) = "native" /\ state = "WRITING"
  /\ state' = "FAILED"
  /\ output' = "damaged"
  /\ Abandon(t)

-----------------------------------------------------------------------------
(* finish(), and close() which is the same.                                *)

\* mutant: a repeated close of a failed session finalises it after all.
RetryFinish(t) ==
  /\ CanCall(t)
  /\ state \in {"ACTIVE", "FAILED"} /\ cell
  /\ state' = "FINISHING"
  /\ Claim(t)
  /\ Enter(t, "native")
  /\ UNCHANGED <<native, cleanable, reachable, output>>

\* Inside a write the call throws; in FINISHING and FINISHED it returns.
BeginFinish(t) ==
  /\ CanCall(t)
  /\ state = "ACTIVE" /\ cell
  /\ state' = "FINISHING"
  /\ Claim(t)
  /\ Enter(t, "native")
  /\ UNCHANGED <<native, cleanable, reachable, output>>

\* finishEncoder has taken the encoder out of the registry and libFLAC has
\* written the rest of the output; a stream is flushed before the encoder goes.
FinishFlushes(t) ==
  /\ Top(t) = "native" /\ state = "FINISHING"
  /\ native' = "released"
  /\ Become(t, "flushing")
  /\ UNCHANGED <<cell, duty, cleanable, reachable, state, output>>

\* File and channel output is not flushed.
FinishReturns(t) ==
  /\ Top(t) \in {"native", "flushing"} /\ state = "FINISHING"
  /\ state' = "FINISHED"
  /\ output' = "complete"
  /\ ReleaseSucceeds(t)
  /\ Become(t, "cleaning")

\* Native code has consumed the handle by then, or failed to acquire it: the
\* handle is released again, which is a no-op in the first case.
FinishThrows(t) ==
  /\ Top(t) \in {"native", "flushing"} /\ state = "FINISHING"
  /\ state' = "FAILED"
  /\ output' = "damaged"
  /\ native' \in {"released", native}
  /\ Become(t, "abandoning")
  /\ UNCHANGED <<cell, duty, cleanable, reachable>>

\* A close after a failure retries a release that did not succeed.
RetryRelease(t) ==
  /\ CanCall(t)
  /\ state = "FAILED"
  /\ Claim(t)
  /\ IF cell THEN Enter(t, "abandoning") ELSE UNCHANGED calls
  /\ UNCHANGED <<native, cleanable, reachable, state, output>>

-----------------------------------------------------------------------------
Next ==
  \/ \E t \in Threads :
       \/ Common(t) /\ UNCHANGED <<state, output>>
       \/ BeginWrite(t) \/ WriteReturns(t) \/ WriteThrows(t)
       \/ BeginFinish(t) \/ FinishFlushes(t) \/ FinishReturns(t) \/ FinishThrows(t)
       \/ RetryRelease(t)
  \/ (Drop \/ CleanerStep) /\ UNCHANGED <<state, output>>
  \/ Finished /\ UNCHANGED vars

Spec == Init /\ [][Next]_vars

-----------------------------------------------------------------------------
(* Properties; ImplementsOwnership comes from HandleCleanup.               *)

\* "JNI rejects a handle while another encoder call is using it": the session
\* never makes such a call, from another thread or from a callback.
OneNativeCall ==
  \A t, u \in Threads :
    \A i \in DOMAIN calls[t], j \in DOMAIN calls[u] :
      InNative(t, i) /\ InNative(u, j) => <<t, i>> = <<u, j>>

\* A repeated close "must never try to finalise failed output": once a write or
\* a finish has failed, no other finish runs and the output is never reported
\* as complete.
DamageIsFinal ==
  /\ output = "damaged" => state = "FAILED"
  /\ state = "FINISHED" => output = "complete"

-----------------------------------------------------------------------------
(* The inductive invariant behind them.                                    *)

\* The state tells what the thread in native code is doing, so no callback can
\* begin another operation.
StateFollowsCall ==
  \A t \in Threads :
    /\ ~Nested(t)
    /\ Top(t) \notin {"threw", "closing", "closed"}
    /\ Top(t) = "native" => state \in {"WRITING", "FINISHING"}
    /\ Top(t) = "flushing" => state = "FINISHING"
    /\ Top(t) \in {"abandoning", "cleaning"} => state \in {"FINISHED", "FAILED"}
    /\ Top(t) \in {"native", "flushing"} => (duty[t] <=> state = "FINISHING")

\* Until it fails or is finished, the session can find its handle.
HandleAtHand ==
  state \in {"ACTIVE", "WRITING"} /\ reachable /\ Constructed => cell

EncodingInv ==
  /\ TypeOK /\ SessionInv /\ StateFollowsCall /\ HandleAtHand /\ DamageIsFinal
=============================================================================
