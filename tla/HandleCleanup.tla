---------------------------- MODULE HandleCleanup ----------------------------
(***************************************************************************)
(* NativeHandleCleanup and its Cleaner registration                        *)
(* (internal/NativeHandleCleanup.kt), as the session classes use it.  The  *)
(* session modules EXTEND this one and put these steps in their actions.   *)
(***************************************************************************)
CONSTANTS
  Threads,   \* application threads that share one session
  Cleaner    \* the thread of java.lang.ref.Cleaner

ASSUME CleanerAssumption == Cleaner \notin Threads

Actors == Threads \cup {Cleaner}

VARIABLES
  cell,        \* is NativeHandleCleanup.handle non-zero?
  duty,        \* per actor: does it hold the claimed handle, still to release?
  native,      \* the native owner behind the handle
  cleanable,   \* the registration: "none", "registered", or "done" (ran or removed)
  reachable    \* can application code still reach the session?

cleanupVars == <<cell, duty, native, cleanable, reachable>>

CleanupTypeOK ==
  /\ cell \in BOOLEAN
  /\ duty \in [Actors -> BOOLEAN]
  /\ native \in {"live", "released", "leaked"}
  /\ cleanable \in {"none", "registered", "done"}
  /\ reachable \in BOOLEAN

\* mutant: the handle is read but not set to zero.
Peek(a) ==
  /\ UNCHANGED cell
  /\ duty' = [duty EXCEPT ![a] = cell]

\* claimHandle: getAndSet(0).  The caller goes on to release what it got.
Claim(a) ==
  /\ cell' = FALSE
  /\ duty' = [duty EXCEPT ![a] = cell]

\* restoreHandle: compareAndSet(0, claimedHandle).
Restore(a) ==
  /\ cell' = TRUE
  /\ duty' = [duty EXCEPT ![a] = FALSE]

\* releaser.release(handle) returns, or throws and the handle goes back.
ReleaseSucceeds(a) ==
  /\ duty[a]
  /\ native' = "released"
  /\ duty' = [duty EXCEPT ![a] = FALSE]
  /\ UNCHANGED <<cell, cleanable, reachable>>

ReleaseFails(a) ==
  /\ duty[a]
  /\ Restore(a)
  /\ UNCHANGED <<native, cleanable, reachable>>

\* A release nobody can retry: the Cleaner swallows the exception, a failed
\* construction has no cleanup object yet.  A stale handle leaks nothing.
LastReleaseFails(a) ==
  /\ duty[a]
  /\ native' = IF native = "live" THEN "leaked" ELSE native
  /\ duty' = [duty EXCEPT ![a] = FALSE]
  /\ UNCHANGED <<cell, cleanable, reachable>>

\* Cleanable.clean(): the first caller removes the registration and runs the
\* cleanup action, which claims the handle; later calls do nothing.
Clean(a) ==
  IF cleanable = "registered"
    THEN cleanable' = "done" /\ Claim(a) /\ UNCHANGED <<native, reachable>>
    ELSE UNCHANGED cleanupVars

\* The session has become phantom reachable.
CleanerRuns ==
  /\ ~reachable /\ cleanable = "registered"
  /\ Clean(Cleaner)

CleanerReleases == ReleaseSucceeds(Cleaner) \/ LastReleaseFails(Cleaner)

-----------------------------------------------------------------------------
(* Properties every session class has from it.                             *)

Holders == {a \in Actors : duty[a]}

\* A live native owner always has exactly one party responsible for it, and the
\* handle is never with two: claimHandle hands it to one caller, restoreHandle
\* puts it back only after a failure.
SingleOwner ==
  /\ \A a, b \in Holders : a = b
  /\ cell => Holders = {}
  /\ native = "live" => cell \/ Holders # {}

\* A released handle is nowhere in Java any more, so nobody releases it twice.
NothingStale == native # "live" => ~cell /\ Holders = {}

\* The Cleaner fallback is only given up for good: as long as the native owner
\* is alive and nobody is about to release it, the Cleaner still would.
FallbackKept ==
  native = "live" /\ Holders = {} => cell /\ cleanable = "registered"

\* Where the token is.
Owner ==
  IF native # "live" THEN native
  ELSE IF cell THEN "cleanup"
  ELSE CHOOSE a \in Holders : TRUE

\* The sessions' handling of the handle implements the single token.
Ownership == INSTANCE HandleOwnership WITH
  Cleanup <- "cleanup", Released <- "released", Leaked <- "leaked", owner <- Owner

ImplementsOwnership == Ownership!Spec
=============================================================================
