--------------------------- MODULE DecodeRegistry ---------------------------
(***************************************************************************)
(* The process-wide registry of reusable decoder sessions in               *)
(* native/src/jflac_jni.c, and the JNI entry points that go through it.    *)
(*                                                                         *)
(* Java holds positive integers (handles), never pointers.  Every JNI call *)
(* looks the handle up under one mutex; the mutex is not held while        *)
(* libFLAC or a Java callback runs, so a callback may call the library     *)
(* again on the same thread and other threads may close the session.  Each *)
(* section under the mutex is one action here, and so is each step that    *)
(* runs outside it: the destruction of a session, the return of an open.   *)
(***************************************************************************)
EXTENDS Integers, FiniteSets

CONSTANTS
  Threads,     \* Java threads that enter native code
  Sessions,    \* DecodeSession heap objects; each is allocated at most once
  NoSession,   \* the null pointer
  MaxHandle,   \* largest jlong (2^63 - 1 in the code)
  MaxDepth     \* bound: nested native calls on one thread

ASSUME MaxHandleAssumption == MaxHandle \in Nat \ {0}
ASSUME MaxDepthAssumption  == MaxDepth \in Nat \ {0}
ASSUME NoSessionAssumption == NoSession \notin Sessions

Handles == 1..MaxHandle      \* JFLAC_FIRST_VALID_SESSION_HANDLE is 1
NoHandle == 0                \* also stands for every non-positive jlong

(***************************************************************************)
(* A frame is one native call on a thread's stack.                         *)
(*   opening     reads metadata, callbacks may run; not registered yet     *)
(*   publishing  registered, the open has not returned to Java yet         *)
(*   using       between acquire and release_reference, in libFLAC         *)
(*   destroying  decided to destroy the session, mutex already left        *)
(***************************************************************************)
FrameKinds == {"none", "opening", "publishing", "using", "destroying"}
Frame == [kind : FrameKinds, session : Sessions \cup {NoSession}]
NoFrame == [kind |-> "none", session |-> NoSession]
Depths == 1..MaxDepth
Slots == Threads \X Depths

VARIABLES
  registry,    \* g_decode_session_registry, a set of handle/session entries
  nextHandle,  \* g_next_decode_session_handle
  refCount,    \* DecodeSession.reference_count
  released,    \* DecodeSession.released
  inUse,       \* DecodeSession.in_use
  handleOf,    \* DecodeSession.handle
  heap,        \* is the session's memory unborn, allocated or freed?
  stack,       \* the native calls in progress: per thread, outermost first
  depth,       \* per thread, how many
  known,       \* handles that have been returned to Java, stale ones included
  phase,       \* is the JNI library loaded, unloading or unloaded?
  detached     \* sessions JNI_OnUnload took from the registry, yet to destroy

fields == <<refCount, released, inUse, handleOf>>
library == <<phase, detached>>
vars == <<registry, nextHandle, fields, heap, stack, depth, known, library>>

TypeOK ==
  /\ registry \subseteq [handle : Handles, session : Sessions]
  /\ nextHandle \in Handles \cup {NoHandle}
  /\ refCount \in [Sessions -> Nat]
  /\ released \in [Sessions -> BOOLEAN]
  /\ inUse \in [Sessions -> BOOLEAN]
  /\ handleOf \in [Sessions -> Handles \cup {NoHandle}]
  /\ heap \in [Sessions -> {"unborn", "allocated", "freed"}]
  /\ stack \in [Slots -> Frame]
  /\ depth \in [Threads -> 0..MaxDepth]
  /\ known \subseteq Handles
  /\ phase \in {"loaded", "unloading", "unloaded"}
  /\ detached \subseteq Sessions

Init ==
  /\ registry = {}
  /\ nextHandle = 1
  /\ refCount = [s \in Sessions |-> 0]
  /\ released = [s \in Sessions |-> FALSE]
  /\ inUse = [s \in Sessions |-> FALSE]
  /\ handleOf = [s \in Sessions |-> NoHandle]
  /\ heap = [s \in Sessions |-> "unborn"]
  /\ stack = [p \in Slots |-> NoFrame]
  /\ depth = [t \in Threads |-> 0]
  /\ known = {}
  /\ phase = "loaded"
  /\ detached = {}

-----------------------------------------------------------------------------
(* The native stack of a thread.                                           *)

InFrame(t, kind, s) ==
  /\ depth[t] > 0
  /\ stack[<<t, depth[t]>>] = [kind |-> kind, session |-> s]

\* Java code runs on thread t: at the bottom of its stack, or in a callback
\* that libFLAC made from an open or from an operation.
InJava(t) ==
  /\ phase = "loaded"
  /\ \/ depth[t] = 0
     \/ \E s \in Sessions : InFrame(t, "opening", s) \/ InFrame(t, "using", s)

Push(t, kind, s) ==
  /\ depth[t] < MaxDepth
  /\ depth' = [depth EXCEPT ![t] = @ + 1]
  /\ stack' = [stack EXCEPT ![<<t, depth[t] + 1>>] = [kind |-> kind, session |-> s]]

Become(t, kind, s) ==
  /\ stack' = [stack EXCEPT ![<<t, depth[t]>>] = [kind |-> kind, session |-> s]]
  /\ UNCHANGED depth

Pop(t) ==
  /\ stack' = [stack EXCEPT ![<<t, depth[t]>>] = NoFrame]
  /\ depth' = [depth EXCEPT ![t] = @ - 1]

-----------------------------------------------------------------------------
(* Registry sections.                                                      *)

LiveHandles == {e.handle : e \in registry}

\* reserve_decode_session_handle_locked: the candidates it passes over before
\* it reaches h, going up from the counter and round to one.
PassedOver(h) ==
  LET start == IF nextHandle = NoHandle THEN 1 ELSE nextHandle
  IN  IF start <= h THEN start..(h - 1) ELSE (start..MaxHandle) \cup (1..(h - 1))

IsCounter(h) == PassedOver(h) = {}     \* mutant: a live handle is not skipped

IsNextFree(h) == h \notin LiveHandles /\ PassedOver(h) \subseteq LiveHandles

NeverAdvances(h) == {h}                \* mutant

\* The counter after h is issued.  Past the largest jlong the increment
\* overflows: the build resets it to one at once, or leaves it negative for
\* the next reservation to reset.
AfterIssuing(h) == IF h < MaxHandle THEN {h + 1} ELSE {1, NoHandle}

\* acquire_decode_session accepts only a session no operation uses.
AcquireBusy(s) == ~released[s]         \* mutant: in_use is not looked at
MayAcquire(s) == ~released[s] /\ ~inUse[s]

\* The count release_decode_session_reference leaves.
KeepCount(s) == refCount[s]            \* mutant: the decrement is left out
Decremented(s) == IF refCount[s] > 0 THEN refCount[s] - 1 ELSE refCount[s]

NeverDestroy(s) == FALSE               \* mutant
DestroyAtOnce(s) == TRUE               \* mutant

DestroyOnRelease(s) == released[s] /\ Decremented(s) = 0
DestroyOnRemove(s) == refCount[s] = 0

\* remove_decode_session for entry e: unlink it and mark the session.
Unlink(e) ==
  /\ registry' = registry \ {e}
  /\ released' = [released EXCEPT ![e.session] = TRUE]
  /\ UNCHANGED <<nextHandle, refCount, inUse, handleOf>>

-----------------------------------------------------------------------------
(* Opening a session.                                                      *)

\* calloc and stream_decoder_new, then libFLAC reads the metadata.
BeginOpen(t, s) ==
  /\ InJava(t)
  /\ heap[s] = "unborn"
  /\ heap' = [heap EXCEPT ![s] = "allocated"]
  /\ Push(t, "opening", s)
  /\ UNCHANGED <<registry, nextHandle, fields, known, library>>

\* Initialisation or metadata fails, or the registry entry cannot be
\* allocated: the caller still owns the session and destroys it.
AbandonOpen(t, s) ==
  /\ InFrame(t, "opening", s)
  /\ Become(t, "destroying", s)
  /\ UNCHANGED <<registry, nextHandle, fields, heap, known, library>>

Register(t, s) ==
  /\ InFrame(t, "opening", s)
  /\ \E h \in Handles :
       /\ IsNextFree(h)
       /\ nextHandle' \in AfterIssuing(h)
       /\ registry' = registry \cup {[handle |-> h, session |-> s]}
       /\ handleOf' = [handleOf EXCEPT ![s] = h]
  /\ refCount' = [refCount EXCEPT ![s] = 0]
  /\ released' = [released EXCEPT ![s] = FALSE]
  /\ inUse' = [inUse EXCEPT ![s] = FALSE]
  /\ Become(t, "publishing", s)
  /\ UNCHANGED <<heap, known, library>>

\* The open returns the handle, in a result object for a pull decoder.
Publish(t, s) ==
  /\ InFrame(t, "publishing", s)
  /\ known' = known \cup {handleOf[s]}
  /\ Pop(t)
  /\ UNCHANGED <<registry, nextHandle, fields, heap, library>>

\* A pull open cannot build its result object: it takes the session back.
PublishFails(t, s) ==
  /\ InFrame(t, "publishing", s)
  /\ \/ \E e \in registry :
          /\ e.handle = handleOf[s]
          /\ Unlink(e)
          /\ IF DestroyOnRemove(e.session)
               THEN Become(t, "destroying", e.session)
               ELSE Pop(t)
     \/ /\ handleOf[s] \notin LiveHandles
        /\ Pop(t)
        /\ UNCHANGED <<registry, nextHandle, fields>>
  /\ UNCHANGED <<heap, known, library>>

-----------------------------------------------------------------------------
(* Operations.  A call with a handle that is not live changes nothing: an  *)
(* operation throws IllegalStateException, a release returns.              *)

\* acquire_decode_session; the operation then runs in libFLAC.
Acquire(t, h) ==
  /\ InJava(t)
  /\ h \in known
  /\ \E e \in registry :
       /\ e.handle = h
       /\ MayAcquire(e.session)
       /\ refCount' = [refCount EXCEPT ![e.session] = @ + 1]
       /\ inUse' = [inUse EXCEPT ![e.session] = TRUE]
       /\ Push(t, "using", e.session)
  /\ UNCHANGED <<registry, nextHandle, released, handleOf, heap, known, library>>

\* release_decode_session_reference, after libFLAC has returned.
ReleaseReference(t, s) ==
  /\ InFrame(t, "using", s)
  /\ refCount' = [refCount EXCEPT ![s] = Decremented(s)]
  /\ inUse' = [inUse EXCEPT ![s] = FALSE]
  /\ IF DestroyOnRelease(s) THEN Become(t, "destroying", s) ELSE Pop(t)
  /\ UNCHANGED <<registry, nextHandle, released, handleOf, heap, known, library>>

\* releaseDecoder and releasePullDecoder with a live handle.
ReleaseDecoder(t, h) ==
  /\ InJava(t)
  /\ h \in known
  /\ depth[t] < MaxDepth
  /\ \E e \in registry :
       /\ e.handle = h
       /\ Unlink(e)
       /\ IF DestroyOnRemove(e.session)
            THEN Push(t, "destroying", e.session)
            ELSE UNCHANGED <<stack, depth>>
  /\ UNCHANGED <<heap, known, library>>

\* destroy_decode_session, outside the mutex.
Destroy(t, s) ==
  /\ InFrame(t, "destroying", s)
  /\ heap' = [heap EXCEPT ![s] = "freed"]
  /\ Pop(t)
  /\ UNCHANGED <<registry, nextHandle, fields, known, library>>

-----------------------------------------------------------------------------
(* Unloading.  The JVM calls JNI_OnUnload once no native method can run.   *)

TakenFromRegistry == {e.session : e \in registry}

Unload ==
  /\ phase = "loaded"
  /\ \A t \in Threads : depth[t] = 0
  /\ phase' = "unloading"
  /\ detached' = TakenFromRegistry
  /\ registry' = {}
  /\ UNCHANGED <<nextHandle, fields, heap, stack, depth, known>>

DestroyDetached(s) ==
  /\ s \in detached
  /\ heap' = [heap EXCEPT ![s] = "freed"]
  /\ detached' = detached \ {s}
  /\ UNCHANGED <<registry, nextHandle, fields, stack, depth, known, phase>>

\* The registry mutexes are destroyed and the library goes away.
Unloaded ==
  /\ phase = "unloading" /\ detached = {}
  /\ phase' = "unloaded"
  /\ UNCHANGED <<registry, nextHandle, fields, heap, stack, depth, known, detached>>

\* Nothing runs in an unloaded library.
Terminated == phase = "unloaded" /\ UNCHANGED vars

-----------------------------------------------------------------------------
OpenStep(t, s) ==
  BeginOpen(t, s) \/ AbandonOpen(t, s) \/ Register(t, s) \/ Publish(t, s) \/ PublishFails(t, s)

\* Steps a native call takes by itself once it is on the stack.
Unwind(t, s) ==
  AbandonOpen(t, s) \/ Register(t, s) \/ Publish(t, s) \/ ReleaseReference(t, s) \/ Destroy(t, s)

Next ==
  \/ \E t \in Threads, s \in Sessions :
       OpenStep(t, s) \/ ReleaseReference(t, s) \/ Destroy(t, s)
  \/ \E t \in Threads, h \in Handles : Acquire(t, h) \/ ReleaseDecoder(t, h)
  \/ Unload
  \/ \E s \in Sessions : DestroyDetached(s)
  \/ Unloaded
  \/ Terminated

Spec == Init /\ [][Next]_vars

\* A Java callback returns after finitely many nested calls, so the native
\* call around it returns too even if nested calls run first (hence strong
\* fairness); the JVM finishes an unload it has begun.
Fairness ==
  /\ \A t \in Threads, s \in Sessions : SF_vars(Unwind(t, s))
  /\ WF_vars((\E s \in Sessions : DestroyDetached(s)) \/ Unloaded)

FairSpec == Spec /\ Fairness

-----------------------------------------------------------------------------
(* Properties.                                                             *)

\* The native call at p holds session s in one of these ways.
Holds(p, kinds, s) == stack[p].kind \in kinds /\ stack[p].session = s
Holding == {"opening", "using", "destroying"}
Registered(s) == \E e \in registry : e.session = s

\* A live handle names one session and a session has one live handle, also
\* after the handle counter wraps round (reserve_decode_session_handle_locked
\* skips handles that are still live).
HandlesNameOneSession ==
  \A e, f \in registry : e.handle = f.handle \/ e.session = f.session => e = f

\* libFLAC decoders are not re-entrant: a session is never inside two native
\* operations, whether of two threads or nested on one through a callback.
ExclusiveUse ==
  \A s \in Sessions, p, q \in Slots :
    Holds(p, {"using"}, s) /\ Holds(q, {"using"}, s) => p = q

\* No native call uses freed memory, and the registry and the unload list hold
\* no freed session: close during a decode is deferred to the decode's end.
MemorySafe ==
  /\ \A s \in Sessions, p \in Slots : Holds(p, Holding, s) => heap[s] = "allocated"
  /\ \A e \in registry : heap[e.session] = "allocated"
  /\ \A s \in detached : heap[s] = "allocated"

\* Only one party ever destroys a session, and it does so after every native
\* operation on it has ended and no new one can start.
SoleDestroyer ==
  \A s \in Sessions, p \in Slots : Holds(p, {"destroying"}, s) =>
    /\ \A q \in Slots : Holds(q, Holding, s) => q = p
    /\ ~Registered(s) /\ s \notin detached

\* Allocated memory always has an owner that will release it: the registry, a
\* native call on some stack, or the unload.
NoLeak ==
  \A s \in Sessions : heap[s] = "allocated" =>
    \/ Registered(s)
    \/ s \in detached
    \/ \E p \in Slots : Holds(p, Holding, s)

\* The sessions a handle was issued to, dead ones included.
Numbered == {s \in Sessions : handleOf[s] # NoHandle}

\* More sessions have been registered than there are handles: the counter has
\* gone all the way round.
CounterWentRound == Cardinality(Numbered) > MaxHandle

\* The open of a pull decoder reads the session's STREAMINFO after it has
\* registered it and left the mutex.  Nobody knows the handle yet, so until the
\* counter has gone round no other thread can free the session meanwhile.
PublishingSafe ==
  ~CounterWentRound =>
    \A p \in Slots : stack[p].kind = "publishing" => heap[stack[p].session] = "allocated"

\* Until the counter has gone round, a handle whose session was closed is
\* rejected: no later open revives it.
StaleHandlesStayStale ==
  [][~CounterWentRound' => \A h \in known : h \notin LiveHandles => h \notin LiveHandles']_vars

\* After JNI_OnUnload no session is left allocated.
UnloadFreesEverything ==
  phase = "unloaded" => \A s \in Sessions : heap[s] # "allocated"

\* A closed session's memory is eventually released, by the close itself or
\* by the operation that was using it.
ClosedSessionsAreFreed ==
  \A s \in Sessions : released[s] ~> heap[s] = "freed"

-----------------------------------------------------------------------------
(* The inductive invariant behind the safety properties.                   *)

\* A thread's stack is filled from the bottom, with frames that name a session.
StackShape ==
  \A t \in Threads, d \in Depths :
    IF d <= depth[t]
      THEN stack[<<t, d>>].kind # "none" /\ stack[<<t, d>>].session \in Sessions
      ELSE stack[<<t, d>>] = NoFrame

\* in_use and reference_count say exactly whether an operation is on a stack.
Accounting ==
  \A s \in Sessions :
    /\ inUse[s] <=> \E p \in Slots : Holds(p, {"using"}, s)
    /\ refCount[s] = IF inUse[s] THEN 1 ELSE 0

\* A session still being opened is known to its opener alone.
SoleOpener ==
  \A s \in Sessions, p \in Slots : Holds(p, {"opening"}, s) =>
    /\ \A q \in Slots : Holds(q, Holding, s) => q = p
    /\ ~Registered(s) /\ s \notin detached

\* The registry and the unload list are disjoint and hold no released session.
\* An operation on a session no longer registered is the one to destroy it.
Ownership ==
  /\ \A e \in registry : ~released[e.session] /\ e.session \notin detached
  /\ \A s \in Sessions : inUse[s] /\ ~Registered(s) => released[s]

\* session->handle is the handle of the entry, and is set before Java or
\* libFLAC can use the session.
Issued ==
  /\ \A e \in registry : handleOf[e.session] = e.handle
  /\ \A s \in Sessions, p \in Slots :
       /\ Holds(p, {"publishing", "using"}, s) => handleOf[s] # NoHandle
       /\ Holds(p, {"opening"}, s) => handleOf[s] = NoHandle
  /\ \A s \in Sessions : heap[s] = "unborn" => handleOf[s] = NoHandle

\* Unloading starts after the last native call and leaves no registered session.
Quiescence ==
  /\ phase # "loaded" => registry = {} /\ \A t \in Threads : depth[t] = 0
  /\ detached # {} => phase = "unloading"

\* The conjunction TLC checks and the proofs show inductive.
IInv ==
  /\ TypeOK /\ StackShape
  /\ HandlesNameOneSession /\ Accounting /\ ExclusiveUse
  /\ MemorySafe /\ SoleOpener /\ SoleDestroyer
  /\ Ownership /\ Issued /\ NoLeak /\ Quiescence

\* Until the counter has gone round it counts the sessions: the next one gets a
\* handle that nobody has had.
CountsSessions ==
  ~CounterWentRound =>
    /\ \A r, s \in Numbered : handleOf[r] = handleOf[s] => r = s
    /\ \A s \in Numbered : handleOf[s] <= Cardinality(Numbered)
    /\ Cardinality(Numbered) < MaxHandle => nextHandle = Cardinality(Numbered) + 1

\* And what an open has registered and not yet returned is a secret of that
\* call: Java does not know the handle and the entry is still there.
SecretUntilReturned ==
  ~CounterWentRound =>
    /\ known \subseteq {handleOf[s] : s \in Numbered}
    /\ \A s \in Sessions, p \in Slots : Holds(p, {"publishing"}, s) =>
         /\ handleOf[s] \notin known /\ Registered(s)
         /\ \A q \in Slots : Holds(q, {"publishing"}, s) => q = p

\* What is inductive, beside IInv, about the first round of the counter.
FirstRound == IsFiniteSet(Numbered) /\ CountsSessions /\ SecretUntilReturned

-----------------------------------------------------------------------------
\* The registry implements the abstract life of its sessions.  A session is
\* busy while a native operation really is on a stack, whatever its flags say.
LifeOf(s) ==
  IF handleOf[s] = NoHandle THEN "absent"
  ELSE IF Registered(s) THEN "live"
  ELSE IF heap[s] = "freed" THEN "dead"
  ELSE "closing"

LifeMap == [s \in Sessions |-> LifeOf(s)]
BusyMap == [s \in Sessions |-> \E p \in Slots : Holds(p, {"using"}, s)]

Lifetime == INSTANCE NativeLifetime WITH life <- LifeMap, busy <- BusyMap

ImplementsLifetime == Lifetime!Spec
=============================================================================
