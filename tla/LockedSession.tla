---------------------------- MODULE LockedSession ----------------------------
(***************************************************************************)
(* What the pull decoding session and the encoding session have in common: *)
(* every operation runs under the session's monitor, native calls and the  *)
(* user callbacks they make included.  The monitor is re-entrant, so a     *)
(* callback may call the session again on the same thread.  Each thread    *)
(* has the stack of its calls in progress; a frame's kind says which step  *)
(* comes next and whether the call holds the monitor.                      *)
(***************************************************************************)
EXTENDS HandleCleanup, Naturals, Sequences

CONSTANT MaxDepth     \* bound: nested calls on one thread

ASSUME MaxDepthAssumption == MaxDepth \in Nat \ {0}

VARIABLE calls        \* per thread, its calls in progress, outermost first

(***************************************************************************)
(*   opening      native handle in hand, the session not constructed       *)
(*   disowning    construction failed, about to release the handle         *)
(*   native       in the native operation or a callback it makes (locked)  *)
(*   flushing     in the flush of the caller's output stream (locked)      *)
(*   threw        the operation threw, not handled yet (locked)            *)
(*   abandoning   releasing the handle after a failure (locked)            *)
(*   cleaning     then about to call cleanable.clean() (locked)            *)
(*   closing      releasing the handle close() claimed                     *)
(*   closed       then about to call cleanable.clean()                     *)
(***************************************************************************)
FrameKinds ==
  {"opening", "disowning", "native", "flushing", "threw", "abandoning",
   "cleaning", "closing", "closed"}

CallsTypeOK == calls \in [Threads -> Seq(FrameKinds)]

Top(t) == IF calls[t] = <<>> THEN "none" ELSE calls[t][Len(calls[t])]
Bottom(t) == IF calls[t] = <<>> THEN "none" ELSE calls[t][1]
Below(t) == SubSeq(calls[t], 1, Len(calls[t]) - 1)

Enter(t, kind) ==
  Len(calls[t]) < MaxDepth /\ calls' = [calls EXCEPT ![t] = Append(@, kind)]
Become(t, kind) == calls' = [calls EXCEPT ![t] = Append(Below(t), kind)]
Return(t) == calls' = [calls EXCEPT ![t] = Below(t)]

\* Application code runs on t, in no call of the session or in a callback.
InUserCode(t) == reachable /\ Top(t) \in {"none", "native", "flushing"}

LockedKinds == {"native", "flushing", "threw", "abandoning", "cleaning"}

\* Thread t gets the monitor at once: no other thread is in it, and a thread is
\* in it as long as its outermost call is.
MonitorFree(t) == \A u \in Threads \ {t} : Bottom(u) \notin LockedKinds

InNative(t, i) == calls[t][i] \in {"native", "flushing"}

-----------------------------------------------------------------------------
(* Opening: the session's own variables do not change.                     *)

OpenInit ==
  /\ \E t \in Threads :
       /\ calls = [u \in Threads |-> IF u = t THEN <<"opening">> ELSE <<>>]
       /\ duty = [a \in Actors |-> a = t]
  /\ cell = FALSE
  /\ native = "live"
  /\ cleanable = "none"
  /\ reachable = TRUE

Construct(t) ==
  /\ Top(t) = "opening"
  /\ Restore(t)
  /\ cleanable' = "registered"
  /\ Return(t)
  /\ UNCHANGED <<native, reachable>>

ConstructFails(t) ==
  /\ Top(t) = "opening"
  /\ Become(t, "disowning")
  /\ UNCHANGED cleanupVars

Disown(t) ==
  /\ Top(t) = "disowning"
  /\ ReleaseSucceeds(t) \/ LastReleaseFails(t)
  /\ Return(t)

\* The session is constructed: calls can be made.
Constructed == cleanable # "none"

-----------------------------------------------------------------------------
(* The end of the calls that release the handle.                           *)

\* The handle is released, or goes back to the cell and the call throws.
Release(t) ==
  /\ Top(t) \in {"closing", "abandoning"}
  /\ \/ ReleaseSucceeds(t) /\ Become(t, IF Top(t) = "closing" THEN "closed" ELSE "cleaning")
     \/ ReleaseFails(t) /\ Return(t)

CleanAfterRelease(t) ==
  /\ Top(t) \in {"closed", "cleaning"}
  /\ Clean(t)
  /\ Return(t)

\* After a failed operation: claim, then release what was claimed and clean up.
\* With nothing to claim the registration is removed at once.
Abandon(t) ==
  /\ Claim(t)
  /\ Become(t, IF cell THEN "abandoning" ELSE "cleaning")
  /\ UNCHANGED <<native, cleanable, reachable>>

\* Every call ends with a reachabilityFence.
Drop ==
  /\ reachable /\ Constructed
  /\ \A t \in Threads : calls[t] = <<>>
  /\ reachable' = FALSE
  /\ UNCHANGED <<cell, duty, native, cleanable, calls>>

CleanerStep ==
  /\ CleanerRuns \/ CleanerReleases
  /\ UNCHANGED calls

Common(t) ==
  \/ Construct(t) \/ ConstructFails(t) \/ Disown(t)
  \/ Release(t) \/ CleanAfterRelease(t)

Finished == native # "live" /\ \A t \in Threads : calls[t] = <<>>

-----------------------------------------------------------------------------
(* What both sessions keep invariant.                                      *)

\* The call in progress was made by a callback of another one.
Nested(t) == Len(calls[t]) = 2

InMonitor(t) == Bottom(t) \in LockedKinds

\* A call that a callback makes is not itself in native code: the states, and
\* native code, refuse that.
CallShape ==
  \A t \in Threads :
    /\ Len(calls[t]) <= 2
    /\ Nested(t) => calls[t][1] = "native" /\ calls[t][2] \notin {"native", "flushing"}

MutualExclusion == \A t, u \in Threads : InMonitor(t) /\ InMonitor(u) => t = u

\* The opener, and whoever is releasing, holds the handle; a finish does in
\* native code too.
HolderIsReleasing ==
  \A t \in Threads :
    /\ Top(t) \in {"opening", "disowning", "abandoning", "closing"} => duty[t]
    /\ duty[t] => Top(t) \in {"opening", "disowning", "abandoning", "closing",
                               "native", "flushing"}

\* Before the constructor returns there is only the opener.
OpenedAlone ==
  /\ cleanable = "none" =>
       /\ ~cell /\ reachable
       /\ \A t \in Threads : Top(t) \in {"none", "opening", "disowning"} /\ ~Nested(t)
  /\ \A t \in Threads : Top(t) \in {"opening", "disowning"} => cleanable = "none"

\* Only the Cleaner is left in a dropped session, and it holds the handle only
\* after the registration has fired.
DroppedIsEmpty ==
  /\ ~reachable => \A t \in Threads : Top(t) = "none"
  /\ duty[Cleaner] => ~reachable /\ cleanable = "done"

\* The registration is given up after a release, or to the Cleaner itself.
RegistrationKept ==
  /\ \A t \in Threads :
       Top(t) \in {"closed", "cleaning"} => native # "live" /\ ~cell /\ Holders = {}
  /\ cleanable = "done" => native # "live" \/ duty[Cleaner]

\* A release that failed for good was the last: nobody holds a leaked handle.
LeakIsLast == native = "leaked" => ~cell /\ Holders = {}

SessionInv ==
  /\ CleanupTypeOK /\ CallsTypeOK /\ CallShape /\ MutualExclusion
  /\ SingleOwner /\ HolderIsReleasing
  /\ OpenedAlone /\ DroppedIsEmpty /\ RegistrationKept /\ LeakIsLast
=============================================================================
