----------------------------- MODULE PullSession -----------------------------
(***************************************************************************)
(* NativeFlacPullDecodingSession (FlacDecoder.kt): reads run under the     *)
(* monitor and may call back into the application through its stream or    *)
(* channel; close claims the handle under the monitor and releases it      *)
(* after leaving it; a read that throws abandons the native decoder.       *)
(***************************************************************************)
EXTENDS LockedSession

VARIABLE active

pullVars == <<cleanupVars, calls, active>>

PullTypeOK == CleanupTypeOK /\ CallsTypeOK /\ active \in BOOLEAN

PullInit == OpenInit /\ active = TRUE

\* readPullDecoderInterleaved of native code rejects a read that is nested in
\* another one of the same decoder, and a handle that has been released.
NativeAccepts ==
  native = "live" /\ ~\E t \in Threads : \E i \in DOMAIN calls[t] : InNative(t, i)

\* readInterleaved with at least one frame to read and room for it.  On an
\* inactive session it throws IllegalStateException and changes nothing.
BeginRead(t) ==
  /\ Constructed /\ InUserCode(t) /\ MonitorFree(t)
  /\ active /\ cell
  /\ Enter(t, IF NativeAccepts THEN "native" ELSE "threw")
  /\ UNCHANGED <<cleanupVars, active>>

ReadReturns(t) ==
  /\ Top(t) = "native"
  /\ Return(t)
  /\ UNCHANGED <<cleanupVars, active>>

ReadThrows(t) ==
  /\ Top(t) = "native"
  /\ Become(t, "threw")
  /\ UNCHANGED <<cleanupVars, active>>

\* The catch block of readInterleaved.
AbandonDecoder(t) ==
  /\ Top(t) = "threw"
  /\ active' = FALSE
  /\ Abandon(t)

\* mutant: close takes the handle without the monitor.
CloseUnlocked(t) ==
  /\ Constructed /\ InUserCode(t)
  /\ active' = FALSE
  /\ Claim(t)
  /\ IF cell THEN Enter(t, "closing") ELSE UNCHANGED calls
  /\ UNCHANGED <<native, cleanable, reachable>>

\* close(): claims in the monitor and goes on outside it, unless it is itself
\* called from inside a read.
Close(t) ==
  /\ Constructed /\ InUserCode(t) /\ MonitorFree(t)
  /\ active' = FALSE
  /\ Claim(t)
  /\ IF cell THEN Enter(t, "closing") ELSE UNCHANGED calls
  /\ UNCHANGED <<native, cleanable, reachable>>

PullNext ==
  \/ \E t \in Threads :
       \/ Common(t) /\ UNCHANGED active
       \/ BeginRead(t) \/ ReadReturns(t) \/ ReadThrows(t) \/ AbandonDecoder(t)
       \/ Close(t)
  \/ (Drop \/ CleanerStep) /\ UNCHANGED active
  \/ Finished /\ UNCHANGED pullVars

PullSpec == PullInit /\ [][PullNext]_pullVars

-----------------------------------------------------------------------------
(* Properties; FallbackKept and ImplementsOwnership come from HandleCleanup. *)

\* "Java never asks the native decoder to advance while another thread is
\* releasing the same handle": while a read is in native code only its own
\* thread, in a callback, can be releasing the decoder.
NoForeignRelease ==
  \A t \in Threads : (\E i \in DOMAIN calls[t] : InNative(t, i)) => Holders \subseteq {t}

-----------------------------------------------------------------------------
(* The inductive invariant behind it.                                      *)

\* Only close() and a failed read claim the handle, and they do it in the
\* monitor: with a thread in it nobody else releases.
ReadsUndisturbed ==
  \A t \in Threads :
    /\ Top(t) # "flushing"
    /\ duty[t] => Top(t) # "native"
    /\ InMonitor(t) => Holders \subseteq {t}

PullInv == PullTypeOK /\ SessionInv /\ NothingStale /\ ReadsUndisturbed
=============================================================================
