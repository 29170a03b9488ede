--------------------------- MODULE DecodingSession ---------------------------
(***************************************************************************)
(* NativeFlacDecodingSession (FlacDecoder.kt): a reusable decoder session  *)
(* that several threads share.  The state is guarded by a lock, but decode *)
(* runs native code and user callbacks outside it, so close may come from  *)
(* another thread or from a callback while a decode is in progress, and    *)
(* the native release itself may fail.  Each synchronized block is one     *)
(* action, and so is each call into native code outside the lock.          *)
(***************************************************************************)
EXTENDS HandleCleanup

VARIABLES
  state,            \* SessionState, "OPENING" before the constructor returns
  closeRequested,   \* close() arrived during a decode
  pc                \* what each thread is doing in the session

vars == <<cleanupVars, state, closeRequested, pc>>

(***************************************************************************)
(*   idle        not in the session                                        *)
(*   opening     FlacDecoder.open, native handle in hand                   *)
(*   disowning   construction failed, about to release the handle          *)
(*   entering    has the handle, in the consumer's onStreamInfo            *)
(*   decoding    in native decode or in a callback it makes                *)
(*   returned    native decode is over, about to take the lock again       *)
(*   threw       the same, with an exception in hand                       *)
(*   releasing   holds the claimed handle, outside the lock                *)
(*   cleaning    released; about to call cleanable.clean()                 *)
(***************************************************************************)
InDecode == {"entering", "decoding", "returned", "threw"}
PCs == {"idle", "opening", "disowning", "releasing", "cleaning"} \cup InDecode

TypeOK ==
  /\ CleanupTypeOK
  /\ state \in {"OPENING", "ACTIVE", "DECODING", "CLOSED", "FAILED"}
  /\ closeRequested \in BOOLEAN
  /\ pc \in [Threads -> PCs]

Init ==
  /\ \E t \in Threads :
       /\ pc = [u \in Threads |-> IF u = t THEN "opening" ELSE "idle"]
       /\ duty = [a \in Actors |-> a = t]
  /\ cell = FALSE
  /\ native = "live"
  /\ cleanable = "none"
  /\ reachable = TRUE
  /\ state = "OPENING"
  /\ closeRequested = FALSE

Goto(t, label) == pc' = [pc EXCEPT ![t] = label]

\* Claim the handle; whoever got it goes on to release it outside the lock.
Leave(t) == Claim(t) /\ Goto(t, IF cell THEN "releasing" ELSE "idle")

-----------------------------------------------------------------------------
(* FlacDecoder.open.                                                       *)

\* mutant: the session is not registered with the Cleaner.
ConstructUnregistered(t) ==
  /\ pc[t] = "opening"
  /\ Restore(t)
  /\ state' = "ACTIVE"
  /\ Goto(t, "idle")
  /\ UNCHANGED <<native, cleanable, reachable, closeRequested>>

\* The constructor creates the cleanup object and registers it.
Construct(t) ==
  /\ pc[t] = "opening"
  /\ Restore(t)
  /\ cleanable' = "registered"
  /\ state' = "ACTIVE"
  /\ Goto(t, "idle")
  /\ UNCHANGED <<native, reachable, closeRequested>>

\* It threw: open releases the handle itself.
ConstructFails(t) ==
  /\ pc[t] = "opening"
  /\ Goto(t, "disowning")
  /\ UNCHANGED <<cleanupVars, state, closeRequested>>

Disown(t) ==
  /\ pc[t] = "disowning"
  /\ ReleaseSucceeds(t) \/ LastReleaseFails(t)
  /\ Goto(t, "idle")
  /\ UNCHANGED <<state, closeRequested>>

-----------------------------------------------------------------------------
(* decode().                                                               *)

\* beginDecode; in any other state the caller gets an IllegalStateException.
BeginDecode(t) ==
  /\ reachable /\ pc[t] = "idle"
  /\ state = "ACTIVE" /\ cell
  /\ state' = "DECODING"
  /\ Goto(t, "entering")
  /\ UNCHANGED <<cleanupVars, closeRequested>>

\* Native code accepts the handle only while the native owner is alive.
NativeDecode(t) ==
  /\ pc[t] = "entering" /\ native = "live"
  /\ Goto(t, "decoding")
  /\ UNCHANGED <<cleanupVars, state, closeRequested>>

NativeReturns(t) ==
  /\ pc[t] = "decoding"
  /\ Goto(t, "returned")
  /\ UNCHANGED <<cleanupVars, state, closeRequested>>

\* A callback, native code or the source threw.
DecodeThrows(t) ==
  /\ pc[t] \in {"entering", "decoding"}
  /\ Goto(t, "threw")
  /\ UNCHANGED <<cleanupVars, state, closeRequested>>

\* mutant: finishDecode overlooks a close that came during the decode.
FinishForgetful(t) ==
  /\ pc[t] = "returned"
  /\ state' = "ACTIVE" /\ closeRequested' = FALSE
  /\ Goto(t, "idle")
  /\ UNCHANGED cleanupVars

\* finishDecode.
FinishDecode(t) ==
  /\ pc[t] = "returned"
  /\ IF state # "DECODING"
       THEN Goto(t, "idle") /\ UNCHANGED <<cell, duty, state, closeRequested>>
       ELSE /\ closeRequested' = FALSE
            /\ IF closeRequested
                 THEN state' = "CLOSED" /\ Leave(t)
                 ELSE state' = "ACTIVE" /\ Goto(t, "idle") /\ UNCHANGED <<cell, duty>>
  /\ UNCHANGED <<native, cleanable, reachable>>

\* releaseAfterFailure.
FailDecode(t) ==
  /\ pc[t] = "threw"
  /\ closeRequested' = FALSE
  /\ IF state \in {"CLOSED", "FAILED"} \/ ~cell
       THEN Goto(t, "idle") /\ UNCHANGED <<cell, duty, state>>
       ELSE state' = "FAILED" /\ Leave(t)
  /\ UNCHANGED <<native, cleanable, reachable>>

-----------------------------------------------------------------------------
(* close(), from any thread or from a callback of the decode.              *)

\* Inside its own decode a thread runs the caller's code only in callbacks.
CanCall(t) == reachable /\ pc[t] \in {"idle", "entering", "decoding"}

CloseIdle(t) ==
  /\ CanCall(t)
  /\ state \in {"ACTIVE", "CLOSED", "FAILED"}
  /\ state' = IF state = "ACTIVE" THEN "CLOSED" ELSE state
  /\ Leave(t)
  /\ UNCHANGED <<native, cleanable, reachable, closeRequested>>

CloseDuringDecode(t) ==
  /\ CanCall(t)
  /\ state = "DECODING"
  /\ closeRequested' = TRUE
  /\ UNCHANGED <<cleanupVars, state, pc>>

\* releaseClaimedNativeHandle, or ...AfterFailure when a decode failed: both
\* give the handle back if the release throws, and only a release that
\* succeeded goes on to cleanable.clean().
Release(t) ==
  /\ pc[t] = "releasing"
  /\ \/ ReleaseSucceeds(t) /\ Goto(t, "cleaning")
     \/ ReleaseFails(t) /\ Goto(t, "idle")
  /\ UNCHANGED <<state, closeRequested>>

CleanAfterRelease(t) ==
  /\ pc[t] = "cleaning"
  /\ Clean(t)
  /\ Goto(t, "idle")
  /\ UNCHANGED <<state, closeRequested>>

-----------------------------------------------------------------------------
\* decode and close keep the session reachable (reachabilityFence) until they
\* return.
Unfenced == TRUE                       \* mutant
Fenced == \A t \in Threads : pc[t] = "idle"

\* The application drops the session.
Drop ==
  /\ reachable /\ state # "OPENING"
  /\ Fenced
  /\ reachable' = FALSE
  /\ UNCHANGED <<cell, duty, native, cleanable, state, closeRequested, pc>>

CleanerStep ==
  /\ CleanerRuns \/ CleanerReleases
  /\ UNCHANGED <<state, closeRequested, pc>>

\* Nothing is left to do: the session is gone, or it was never built.
Terminated ==
  /\ native # "live"
  /\ \A t \in Threads : pc[t] = "idle"
  /\ UNCHANGED vars

ThreadStep(t) ==
  \/ Construct(t) \/ ConstructFails(t) \/ Disown(t)
  \/ BeginDecode(t) \/ NativeDecode(t) \/ NativeReturns(t) \/ DecodeThrows(t)
  \/ FinishDecode(t) \/ FailDecode(t)
  \/ CloseIdle(t) \/ CloseDuringDecode(t)
  \/ Release(t) \/ CleanAfterRelease(t)

Next == (\E t \in Threads : ThreadStep(t)) \/ Drop \/ CleanerStep \/ Terminated

Spec == Init /\ [][Next]_vars

\* Calls that have begun go on: opens and decodes end, a claimed handle is
\* released, and the Cleaner runs the actions of unreachable sessions.
Fairness ==
  /\ \A t \in Threads : WF_vars(\/ Construct(t) \/ ConstructFails(t) \/ Disown(t)
                                \/ NativeDecode(t) \/ NativeReturns(t)
                                \/ FinishDecode(t) \/ FailDecode(t)
                                \/ Release(t) \/ CleanAfterRelease(t))
  /\ WF_vars(CleanerStep)

FairSpec == Spec /\ Fairness

-----------------------------------------------------------------------------
(* Properties.                                                             *)

\* From the moment beginDecode leaves the lock with the handle until the native
\* decode is over, nobody releases it: not close() on another thread, not
\* close() in a callback, not the Cleaner.
NoReleaseDuringDecode ==
  \A t \in Threads : pc[t] \in {"entering", "decoding"} =>
    native = "live" /\ cell /\ Holders = {}

\* A decode is in progress exactly while the state says so, never two, and only
\* then can a close be waiting for it: no path out of decode() leaves the
\* session stuck in DECODING or keeps an old close request.
DecodingState ==
  /\ \A t, u \in Threads : pc[t] \in InDecode /\ pc[u] \in InDecode => t = u
  /\ state = "DECODING" <=> \E t \in Threads : pc[t] \in InDecode
  /\ closeRequested => state = "DECODING"

\* A close that arrives during a decode is not forgotten: once the decode ends
\* the session is closed, or failed if the decode failed.
CloseRequestHonoured ==
  closeRequested ~> state \in {"CLOSED", "FAILED"}

\* A session the application drops without closing does not leak its decoder:
\* the Cleaner disposes of it.
DroppedSessionReleased ==
  ~reachable ~> native # "live"

-----------------------------------------------------------------------------
(* The inductive invariant behind the safety properties.                   *)

\* A thread holds the claimed handle exactly at these places, and the Cleaner
\* only after the registration of a dropped session has fired.
Duties ==
  /\ \A t \in Threads : duty[t] <=> pc[t] \in {"opening", "disowning", "releasing"}
  /\ duty[Cleaner] => ~reachable /\ cleanable = "done"

\* The life of the registration: none before the constructor returns, kept
\* until a release has succeeded.
Registration ==
  /\ state = "OPENING" => ~cell /\ cleanable = "none" /\ reachable
  /\ \A t \in Threads :
       /\ pc[t] \in {"opening", "disowning"} => state = "OPENING"
       /\ pc[t] = "releasing" => cleanable = "registered"
       /\ pc[t] = "cleaning" => native # "live"

\* Nobody is in a dropped session, and a session that can decode has its handle.
Reachability ==
  /\ ~reachable => Fenced
  /\ state \in {"ACTIVE", "DECODING"} /\ reachable => cell

\* The conjunction TLC checks and the proofs show inductive.
IInv ==
  /\ TypeOK /\ SingleOwner /\ NothingStale /\ FallbackKept /\ DecodingState
  /\ Duties /\ Registration /\ Reachability
=============================================================================
