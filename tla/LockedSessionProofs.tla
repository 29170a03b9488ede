------------------------ MODULE LockedSessionProofs ------------------------
(***************************************************************************)
(* Proofs about PullSession and EncodingSession, the two sessions that run *)
(* under a re-entrant monitor, for any number of threads: what the steps   *)
(* of LockedSession keep invariant, once, then each session's own          *)
(* invariant, its properties and its refinement of HandleOwnership.        *)
(***************************************************************************)
EXTENDS PullSession, EncodingSession, TLAPS

-----------------------------------------------------------------------------
(* The stack of calls, as the topmost call and whether it is nested.       *)

\* Thread t's stack has changed, and no other.
Moved(t, top, nested) ==
  /\ CallsTypeOK' /\ CallShape'
  /\ Top(t)' = top /\ (Nested(t)' <=> nested)
  /\ \A u \in Threads : u # t => Top(u)' = Top(u) /\ (Nested(u)' <=> Nested(u))

LEMMA TopKinds ==
  ASSUME CallsTypeOK, NEW t \in Threads
  PROVE  /\ Top(t) \in FrameKinds \cup {"none"}
         /\ Top(t) = "none" <=> calls[t] = <<>>
         /\ calls[t] = <<>> <=> Len(calls[t]) = 0
  <1>1. calls[t] \in Seq(FrameKinds)
    BY DEF CallsTypeOK
  <1>2. calls[t] = <<>> <=> Len(calls[t]) = 0
    BY <1>1
  <1>3. ASSUME calls[t] # <<>> PROVE Top(t) \in FrameKinds
    <2>1. Len(calls[t]) \in 1 .. Len(calls[t])
      BY <1>1, <1>2, <1>3
    <2> QED
      BY <1>1, <1>3, <2>1 DEF Top
  <1> QED
    BY <1>2, <1>3 DEF Top, FrameKinds

LEMMA DepthIsSmall ==
  ASSUME CallsTypeOK, CallShape, NEW t \in Threads
  PROVE  Len(calls[t]) \in {0, 1, 2} /\ (Nested(t) <=> Len(calls[t]) = 2)
  <1>1. Len(calls[t]) \in Nat
    BY DEF CallsTypeOK
  <1>2. Len(calls[t]) <= 2
    BY DEF CallShape
  <1>3. \A n \in Nat : n <= 2 => n \in {0, 1, 2}
    OBVIOUS
  <1>4. Len(calls[t]) \in {0, 1, 2}
    BY <1>1, <1>2, <1>3
  <1> QED
    BY <1>4 DEF Nested

\* A callback's call is made from native code.
LEMMA NestedInNative ==
  ASSUME CallsTypeOK, CallShape, NEW t \in Threads
  PROVE  /\ Nested(t) => Top(t) \notin {"none", "native", "flushing"}
         /\ InMonitor(t) <=> Nested(t) \/ Top(t) \in LockedKinds
  <1>1. calls[t] \in Seq(FrameKinds)
    BY DEF CallsTypeOK
  <1>2. Len(calls[t]) \in {0, 1, 2}
    BY DepthIsSmall
  <1>3. CASE Len(calls[t]) = 0
    BY <1>1, <1>3, TopKinds DEF InMonitor, Bottom, Nested
  <1>4. CASE Len(calls[t]) = 1
    BY <1>1, <1>4, TopKinds DEF InMonitor, Bottom, Top, Nested
  <1>5. CASE Len(calls[t]) = 2
    <2>1. calls[t] # <<>>
      BY <1>5, TopKinds
    <2>2. calls[t][1] = "native" /\ calls[t][2] \in FrameKinds \ {"native", "flushing"}
      BY <1>1, <1>5 DEF CallShape, Nested
    <2> QED
      BY <1>5, <2>1, <2>2 DEF InMonitor, Bottom, Top, Nested, LockedKinds, FrameKinds
  <1> QED
    BY <1>2, <1>3, <1>4, <1>5

LEMMA EnterMoves ==
  ASSUME CallsTypeOK, CallShape, NEW t \in Threads, NEW kind \in FrameKinds,
         Enter(t, kind), Top(t) \in {"none", "native"},
         Top(t) = "native" => kind \notin {"native", "flushing"}
  PROVE  Moved(t, kind, Top(t) = "native")
  <1> DEFINE s == calls[t]
  <1>1. s \in Seq(FrameKinds) /\ calls' = [calls EXCEPT ![t] = Append(s, kind)]
    BY DEF CallsTypeOK, Enter
  <1>2. ~Nested(t) /\ Len(s) \in {0, 1}
    <2>1. ~Nested(t)
      BY NestedInNative
    <2> QED
      BY <2>1, DepthIsSmall
  <1>3. /\ Append(s, kind) \in Seq(FrameKinds) /\ Len(Append(s, kind)) = Len(s) + 1
        /\ Append(s, kind)[Len(s) + 1] = kind
        /\ \A i \in 1 .. Len(s) : Append(s, kind)[i] = s[i]
    BY <1>1
  <1>4. CallsTypeOK' /\ calls'[t] = Append(s, kind)
    BY <1>1, <1>3 DEF CallsTypeOK
  <1>5. \A u \in Threads : u # t => calls'[u] = calls[u]
    BY <1>1 DEF CallsTypeOK
  <1>6. Len(s) = 1 <=> Top(t) = "native"
    BY <1>2, TopKinds
  <1>7. Len(s) = 1 => s[1] = "native"
    BY <1>6, TopKinds DEF Top
  <1>8. calls'[t] # <<>> /\ Top(t)' = kind /\ (Nested(t)' <=> Top(t) = "native")
    BY <1>1, <1>2, <1>3, <1>4, <1>6 DEF Top, Nested
  <1>9. CallShape'
    <2>1. ASSUME NEW u \in Threads, u # t
          PROVE  /\ Len(calls'[u]) <= 2
                 /\ Nested(u)' => calls'[u][1] = "native"
                                  /\ calls'[u][2] \notin {"native", "flushing"}
      BY <1>5, <2>1 DEF CallShape, Nested
    <2>2. /\ Len(calls'[t]) <= 2
          /\ Nested(t)' => calls'[t][1] = "native" /\ calls'[t][2] \notin {"native", "flushing"}
      BY <1>2, <1>3, <1>4, <1>6, <1>7 DEF Nested
    <2> QED
      BY <2>1, <2>2 DEF CallShape
  <1> QED
    BY <1>4, <1>5, <1>8, <1>9 DEF Moved, Top, Nested

\* The frames below the topmost one are left alone.
LEMMA BelowTop ==
  ASSUME CallsTypeOK, CallShape, NEW t \in Threads, Top(t) # "none"
  PROVE  /\ Below(t) \in Seq(FrameKinds) /\ Len(Below(t)) \in {0, 1}
         /\ Len(Below(t)) = 1 <=> Nested(t)
         /\ Nested(t) => Below(t)[1] = "native"
  <1>1. calls[t] \in Seq(FrameKinds) /\ Len(calls[t]) \in {1, 2}
    BY TopKinds, DepthIsSmall DEF CallsTypeOK
  <1>2. CASE Len(calls[t]) = 1
    <2>1. Below(t) = SubSeq(calls[t], 1, 0)
      BY <1>2 DEF Below
    <2>2. Below(t) \in Seq(FrameKinds) /\ Len(Below(t)) = 0
      BY <1>1, <1>2, <2>1
    <2> QED
      BY <1>1, <1>2, <2>2 DEF Nested
  <1>3. CASE Len(calls[t]) = 2
    <2>1. Below(t) = SubSeq(calls[t], 1, 1) /\ calls[t][1] = "native"
      BY <1>3 DEF Below, CallShape, Nested
    <2>2. Below(t) \in Seq(FrameKinds) /\ Len(Below(t)) = 1 /\ Below(t)[1] = calls[t][1]
      BY <1>1, <1>3, <2>1
    <2> QED
      BY <1>1, <1>3, <2>1, <2>2 DEF Nested
  <1> QED
    BY <1>1, <1>2, <1>3

LEMMA BecomeMoves ==
  ASSUME CallsTypeOK, CallShape, NEW t \in Threads, NEW kind \in FrameKinds,
         Become(t, kind), Top(t) # "none", Nested(t) => kind \notin {"native", "flushing"}
  PROVE  Moved(t, kind, Nested(t))
  <1> DEFINE s == Below(t)
  <1>1. s \in Seq(FrameKinds) /\ Len(s) \in {0, 1} /\ (Len(s) = 1 <=> Nested(t))
        /\ (Nested(t) => s[1] = "native")
    BY BelowTop
  <1>2. /\ Append(s, kind) \in Seq(FrameKinds) /\ Len(Append(s, kind)) = Len(s) + 1
        /\ Append(s, kind)[Len(s) + 1] = kind
        /\ \A i \in 1 .. Len(s) : Append(s, kind)[i] = s[i]
    BY <1>1
  <1>3. CallsTypeOK' /\ calls'[t] = Append(s, kind)
    BY <1>2 DEF CallsTypeOK, Become
  <1>4. \A u \in Threads : u # t => calls'[u] = calls[u]
    BY DEF CallsTypeOK, Become
  <1>5. calls'[t] # <<>> /\ Top(t)' = kind /\ (Nested(t)' <=> Nested(t))
    <2>1. Len(calls'[t]) = Len(s) + 1 /\ calls'[t][Len(s) + 1] = kind
      BY <1>2, <1>3
    <2>2. calls'[t] # <<>> /\ Top(t)' = kind
      BY <1>1, <2>1 DEF Top
    <2>3. Nested(t)' <=> Len(s) = 1
      <3>1. Len(s) \in Nat /\ (Nested(t)' <=> Len(s) + 1 = 2)
        BY <1>1, <2>1 DEF Nested
      <3>2. \A n \in Nat : n + 1 = 2 <=> n = 1
        OBVIOUS
      <3> QED
        BY <3>1, <3>2
    <2> QED
      BY <1>1, <2>2, <2>3
  <1>6. CallShape'
    <2>1. ASSUME NEW u \in Threads, u # t
          PROVE  /\ Len(calls'[u]) <= 2
                 /\ Nested(u)' => calls'[u][1] = "native"
                                  /\ calls'[u][2] \notin {"native", "flushing"}
      BY <1>4, <2>1 DEF CallShape, Nested
    <2>2. /\ Len(calls'[t]) <= 2
          /\ Nested(t)' => calls'[t][1] = "native" /\ calls'[t][2] \notin {"native", "flushing"}
      BY <1>1, <1>2, <1>3, <1>5 DEF Nested
    <2> QED
      BY <2>1, <2>2 DEF CallShape
  <1> QED
    BY <1>3, <1>4, <1>5, <1>6 DEF Moved, Top, Nested

LEMMA ReturnMoves ==
  ASSUME CallsTypeOK, CallShape, NEW t \in Threads, Return(t), Top(t) # "none"
  PROVE  Moved(t, IF Nested(t) THEN "native" ELSE "none", FALSE)
  <1>1. /\ Below(t) \in Seq(FrameKinds) /\ Len(Below(t)) \in {0, 1}
        /\ (Len(Below(t)) = 1 <=> Nested(t)) /\ (Nested(t) => Below(t)[1] = "native")
    BY BelowTop
  <1>2. CallsTypeOK' /\ calls'[t] = Below(t)
    BY <1>1 DEF CallsTypeOK, Return
  <1>3. \A u \in Threads : u # t => calls'[u] = calls[u]
    BY DEF CallsTypeOK, Return
  <1>4. Top(t)' = (IF Nested(t) THEN "native" ELSE "none") /\ ~Nested(t)'
    <2>1. calls'[t] = <<>> <=> Len(Below(t)) = 0
      BY <1>1, <1>2
    <2> QED
      BY <1>1, <1>2, <2>1 DEF Top, Nested
  <1>5. CallShape'
    <2>1. Len(calls'[t]) <= 2 /\ ~Nested(t)'
      <3>1. \A n \in {0, 1} : n <= 2
        OBVIOUS
      <3> QED
        BY <1>1, <1>2, <1>4, <3>1
    <2>2. ASSUME NEW u \in Threads, u # t
          PROVE  /\ Len(calls'[u]) <= 2
                 /\ Nested(u)' => calls'[u][1] = "native"
                                  /\ calls'[u][2] \notin {"native", "flushing"}
      BY <1>3, <2>2 DEF CallShape, Nested
    <2> QED
      BY <2>1, <2>2 DEF CallShape
  <1> QED
    BY <1>2, <1>3, <1>4, <1>5 DEF Moved, Top, Nested

\* No stack has changed.
Unmoved ==
  /\ CallsTypeOK' /\ CallShape'
  /\ \A u \in Threads : Top(u)' = Top(u) /\ (Nested(u)' <=> Nested(u))

LEMMA UnchangedStays ==
  ASSUME CallsTypeOK, CallShape, UNCHANGED calls
  PROVE  Unmoved
  BY DEF CallsTypeOK, CallShape, Unmoved, Top, Nested

LEMMA InMonitorIs ==
  CallsTypeOK /\ CallShape =>
    \A u \in Threads : InMonitor(u) <=> Nested(u) \/ Top(u) \in LockedKinds
  BY NestedInNative

LEMMA MonitorMoves ==
  ASSUME CallsTypeOK, CallShape, NEW t \in Threads, NEW top, NEW nested,
         Moved(t, top, nested)
  PROVE  /\ InMonitor(t)' <=> nested \/ top \in LockedKinds
         /\ \A u \in Threads : u # t => (InMonitor(u)' <=> InMonitor(u))
  <1>1. \A u \in Threads : InMonitor(u) <=> Nested(u) \/ Top(u) \in LockedKinds
    BY InMonitorIs
  <1>2. \A u \in Threads : InMonitor(u)' <=> Nested(u)' \/ Top(u)' \in LockedKinds
    <2>1. CallsTypeOK' /\ CallShape'
      BY DEF Moved
    <2>2. (CallsTypeOK /\ CallShape =>
             \A u \in Threads : InMonitor(u) <=> Nested(u) \/ Top(u) \in LockedKinds)'
      BY InMonitorIs, PTL
    <2> QED
      BY <2>1, <2>2
  <1> QED
    BY <1>1, <1>2 DEF Moved

\* A thread that gets into the monitor was in it, or found it free.
LEMMA MonitorKept ==
  ASSUME CallsTypeOK, CallShape, MutualExclusion, NEW t \in Threads, NEW top, NEW nested,
         Moved(t, top, nested),
         nested \/ top \in LockedKinds => InMonitor(t) \/ MonitorFree(t)
  PROVE  MutualExclusion'
  <1>1. \A u \in Threads : u # t => (InMonitor(u)' <=> InMonitor(u))
    BY MonitorMoves
  <1>2. InMonitor(t)' => \A u \in Threads : u # t => ~InMonitor(u)
    <2>1. InMonitor(t)' => InMonitor(t) \/ MonitorFree(t)
      BY MonitorMoves
    <2> QED
      BY <2>1 DEF MutualExclusion, MonitorFree, InMonitor
  <1> QED
    BY <1>1, <1>2 DEF MutualExclusion

\* Native code and the callbacks run in the monitor.
LEMMA NativeInMonitor ==
  ASSUME CallsTypeOK, CallShape, NEW t \in Threads, NEW i \in DOMAIN calls[t], InNative(t, i)
  PROVE  InMonitor(t) /\ i = 1
  <1>1. calls[t] \in Seq(FrameKinds) /\ Len(calls[t]) \in {0, 1, 2}
    BY DepthIsSmall DEF CallsTypeOK
  <1>2. i \in 1 .. Len(calls[t]) /\ calls[t] # <<>>
    BY <1>1
  <1>3. CASE Len(calls[t]) = 0
    BY <1>2, <1>3
  <1>4. CASE Len(calls[t]) = 1
    <2>1. i = 1
      BY <1>2, <1>4
    <2> QED
      BY <1>2, <2>1 DEF InMonitor, Bottom, InNative, LockedKinds
  <1>5. CASE Len(calls[t]) = 2
    <2>1. calls[t][1] = "native" /\ ~InNative(t, 2)
      BY <1>5 DEF CallShape, Nested, InNative
    <2>2. i \in {1, 2}
      BY <1>2, <1>5
    <2> QED
      BY <1>2, <2>1, <2>2 DEF InMonitor, Bottom, LockedKinds
  <1> QED
    BY <1>1, <1>3, <1>4, <1>5

-----------------------------------------------------------------------------
(* The handle, as HandleCleanup's steps move it.                           *)

\* There is at most one holder, and none while the handle is in the cell.
LEMMA OneHolder ==
  ASSUME SingleOwner
  PROVE  /\ \A a, b \in Actors : duty[a] /\ duty[b] => a = b
         /\ cell => \A a \in Actors : ~duty[a]
         /\ native = "live" => cell \/ \E a \in Actors : duty[a]
  BY DEF SingleOwner, Holders

\* What any step of actor a does to the handle: it claims, restores or gives it up.
HandleMoves(a, held, stored) ==
  /\ CleanupTypeOK' /\ SingleOwner'
  /\ cell' = stored /\ duty'[a] = held
  /\ \A b \in Actors : b # a => duty'[b] = duty[b]

LEMMA ClaimTakes ==
  ASSUME CleanupTypeOK, SingleOwner, NEW a \in Actors, ~duty[a], Claim(a), UNCHANGED native,
         cleanable' \in {"none", "registered", "done"}, reachable' \in BOOLEAN
  PROVE  HandleMoves(a, cell, FALSE)
  <1>1. /\ cell' = FALSE /\ duty'[a] = cell /\ duty' \in [Actors -> BOOLEAN]
        /\ \A b \in Actors : b # a => duty'[b] = duty[b]
    BY DEF CleanupTypeOK, Claim
  <1>2. CleanupTypeOK'
    BY <1>1 DEF CleanupTypeOK
  <1>3. SingleOwner'
    BY <1>1 DEF SingleOwner, Holders, CleanupTypeOK
  <1> QED
    BY <1>1, <1>2, <1>3 DEF HandleMoves

LEMMA RestoreStores ==
  ASSUME CleanupTypeOK, SingleOwner, NEW a \in Actors, duty[a], Restore(a), UNCHANGED native,
         cleanable' \in {"none", "registered", "done"}, reachable' \in BOOLEAN
  PROVE  HandleMoves(a, FALSE, TRUE)
  <1>1. /\ cell' = TRUE /\ duty'[a] = FALSE /\ duty' \in [Actors -> BOOLEAN]
        /\ \A b \in Actors : b # a => duty'[b] = duty[b]
    BY DEF CleanupTypeOK, Restore
  <1>2. CleanupTypeOK'
    BY <1>1 DEF CleanupTypeOK
  <1>3. SingleOwner'
    BY <1>1 DEF SingleOwner, Holders
  <1> QED
    BY <1>1, <1>2, <1>3 DEF HandleMoves

\* A release that is not retried ends the life of the native owner.
LEMMA ReleaseEnds ==
  ASSUME CleanupTypeOK, SingleOwner, NEW a \in Actors,
         ReleaseSucceeds(a) \/ LastReleaseFails(a)
  PROVE  /\ HandleMoves(a, FALSE, FALSE) /\ native' # "live" /\ duty[a]
         /\ UNCHANGED <<cleanable, reachable>>
         /\ \A b \in Actors : ~duty'[b]
  <1>1. /\ duty[a] /\ cell' = cell /\ UNCHANGED <<cleanable, reachable>>
        /\ duty' = [duty EXCEPT ![a] = FALSE]
    BY DEF ReleaseSucceeds, LastReleaseFails
  <1>2. /\ duty'[a] = FALSE /\ duty' \in [Actors -> BOOLEAN]
        /\ \A b \in Actors : b # a => duty'[b] = duty[b]
    BY <1>1 DEF CleanupTypeOK
  <1>3. native' \in {"released", "leaked"}
    BY DEF ReleaseSucceeds, LastReleaseFails, CleanupTypeOK
  <1>4. ~cell /\ \A b \in Actors : ~duty'[b]
    BY <1>1, <1>2, OneHolder DEF CleanupTypeOK
  <1>5. CleanupTypeOK'
    BY <1>1, <1>2, <1>3 DEF CleanupTypeOK
  <1>6. SingleOwner'
    BY <1>1, <1>3, <1>4 DEF SingleOwner, Holders
  <1> QED
    BY <1>1, <1>2, <1>3, <1>4, <1>5, <1>6 DEF HandleMoves, CleanupTypeOK

LEMMA HandleStays ==
  ASSUME CleanupTypeOK, SingleOwner, UNCHANGED <<cell, duty, native>>,
         cleanable' \in {"none", "registered", "done"}, reachable' \in BOOLEAN
  PROVE  CleanupTypeOK' /\ SingleOwner'
  BY DEF CleanupTypeOK, SingleOwner, Holders

-----------------------------------------------------------------------------
(* The steps both sessions take.                                           *)

LEMMA ConstructKeepsSession ==
  ASSUME SessionInv, NEW t \in Threads, Construct(t)
  PROVE  SessionInv' /\ Moved(t, "none", FALSE) /\ HandleMoves(t, FALSE, TRUE)
  <1>1. /\ Top(t) = "opening" /\ cleanable = "none" /\ ~Nested(t) /\ duty[t] /\ t \in Actors
        /\ cleanable' = "registered" /\ UNCHANGED <<native, reachable>> /\ reachable
    BY DEF SessionInv, Construct, OpenedAlone, HolderIsReleasing, Actors
  <1>2. HandleMoves(t, FALSE, TRUE)
    BY <1>1, RestoreStores DEF SessionInv, Construct, CleanupTypeOK
  <1>3. Moved(t, "none", FALSE)
    BY <1>1, ReturnMoves DEF SessionInv, Construct
  <1>4. MutualExclusion'
    BY <1>3, MonitorKept DEF SessionInv, LockedKinds
  <1>5. \A u \in Threads : Top(u)' = "none" /\ ~duty'[u] /\ ~Nested(u)'
    BY <1>1, <1>2, <1>3, OneHolder
       DEF SessionInv, HandleMoves, Moved, HolderIsReleasing, OpenedAlone, Actors
  <1>6. ~duty[Cleaner]' /\ (cleanable = "done" => FALSE)'
    BY <1>1, <1>2, CleanerAssumption
       DEF SessionInv, HandleMoves, DroppedIsEmpty, Actors
  <1>7. HolderIsReleasing' /\ OpenedAlone' /\ DroppedIsEmpty' /\ RegistrationKept'
    BY <1>1, <1>5, <1>6
       DEF HolderIsReleasing, OpenedAlone, DroppedIsEmpty, RegistrationKept
  <1>8. LeakIsLast'
    BY <1>1 DEF SessionInv, LeakIsLast, Holders
  <1> QED
    BY <1>2, <1>3, <1>4, <1>7, <1>8 DEF SessionInv, HandleMoves, Moved

LEMMA ConstructFailsKeepsSession ==
  ASSUME SessionInv, NEW t \in Threads, ConstructFails(t)
  PROVE  SessionInv' /\ Moved(t, "disowning", FALSE)
  <1>1. /\ Top(t) = "opening" /\ cleanable = "none" /\ ~Nested(t) /\ duty[t]
        /\ UNCHANGED <<cell, duty, native, cleanable, reachable>>
    BY DEF SessionInv, ConstructFails, OpenedAlone, HolderIsReleasing, cleanupVars
  <1>2. CleanupTypeOK' /\ SingleOwner'
    BY <1>1, HandleStays DEF SessionInv, CleanupTypeOK
  <1>3. Moved(t, "disowning", FALSE)
    BY <1>1, BecomeMoves DEF SessionInv, ConstructFails, FrameKinds, Moved
  <1>4. MutualExclusion'
    BY <1>3, MonitorKept DEF SessionInv, LockedKinds
  <1>5. HolderIsReleasing' /\ OpenedAlone'
    BY <1>1, <1>3 DEF SessionInv, Moved, HolderIsReleasing, OpenedAlone
  <1>6. DroppedIsEmpty' /\ RegistrationKept' /\ LeakIsLast'
    BY <1>1, <1>3 DEF SessionInv, Moved, OpenedAlone, DroppedIsEmpty, RegistrationKept,
       LeakIsLast, Holders
  <1> QED
    BY <1>2, <1>3, <1>4, <1>5, <1>6 DEF SessionInv, Moved

LEMMA DisownKeepsSession ==
  ASSUME SessionInv, NEW t \in Threads, Disown(t)
  PROVE  /\ SessionInv' /\ Moved(t, "none", FALSE) /\ HandleMoves(t, FALSE, FALSE)
         /\ native' # "live" /\ UNCHANGED <<cleanable, reachable>>
         /\ \A b \in Actors : ~duty'[b]
  <1>1. Top(t) = "disowning" /\ cleanable = "none" /\ ~Nested(t) /\ t \in Actors /\ reachable
    BY DEF SessionInv, Disown, OpenedAlone, Actors
  <1>2. /\ HandleMoves(t, FALSE, FALSE) /\ native' # "live" /\ UNCHANGED <<cleanable, reachable>>
        /\ \A b \in Actors : ~duty'[b]
    BY <1>1, ReleaseEnds DEF SessionInv, Disown
  <1>3. Moved(t, "none", FALSE)
    BY <1>1, ReturnMoves DEF SessionInv, Disown
  <1>4. MutualExclusion'
    BY <1>3, MonitorKept DEF SessionInv, LockedKinds
  <1>5. \A u \in Threads : u # t => ~duty[u]
    BY <1>2 DEF HandleMoves, Actors
  <1>6. \A u \in Threads : Top(u)' = "none" /\ ~Nested(u)'
    BY <1>1, <1>3, <1>5 DEF SessionInv, Moved, HolderIsReleasing, OpenedAlone
  <1>7. HolderIsReleasing' /\ OpenedAlone' /\ DroppedIsEmpty' /\ RegistrationKept' /\ LeakIsLast'
    BY <1>1, <1>2, <1>6 DEF HandleMoves, HolderIsReleasing, OpenedAlone, DroppedIsEmpty,
       RegistrationKept, LeakIsLast, Holders, Actors
  <1> QED
    BY <1>2, <1>3, <1>4, <1>7 DEF SessionInv, HandleMoves, Moved

\* After the release the registration goes; if it fails, everything is as before.
LEMMA ReleaseKeepsSession ==
  ASSUME SessionInv, NEW t \in Threads, Release(t)
  PROVE  /\ SessionInv' /\ UNCHANGED <<cleanable, reachable>>
         /\ \/ /\ ReleaseSucceeds(t) /\ native' # "live" /\ \A b \in Actors : ~duty'[b]
               /\ HandleMoves(t, FALSE, FALSE)
               /\ Moved(t, IF Top(t) = "closing" THEN "closed" ELSE "cleaning", Nested(t))
            \/ /\ ReleaseFails(t) /\ native' = native /\ HandleMoves(t, FALSE, TRUE)
               /\ Moved(t, IF Nested(t) THEN "native" ELSE "none", FALSE)
  <1>1. /\ Top(t) \in {"closing", "abandoning"} /\ duty[t] /\ t \in Actors
        /\ cleanable # "none" /\ reachable
    BY DEF SessionInv, Release, HolderIsReleasing, OpenedAlone, DroppedIsEmpty, Actors
  <1>2. \A u \in Threads : Top(u) \notin {"closed", "cleaning"}
    BY <1>1 DEF SessionInv, RegistrationKept, Holders
  <1>3. InMonitor(t) <=> Nested(t) \/ Top(t) \in LockedKinds
    BY InMonitorIs DEF SessionInv
  <1>4. CASE ReleaseSucceeds(t) /\ Become(t, IF Top(t) = "closing" THEN "closed" ELSE "cleaning")
    <2>1. /\ HandleMoves(t, FALSE, FALSE) /\ native' # "live" /\ UNCHANGED <<cleanable, reachable>>
          /\ \A b \in Actors : ~duty'[b]
      BY <1>1, <1>4, ReleaseEnds DEF SessionInv
    <2>2. PICK kind \in {"closed", "cleaning"} :
            kind = (IF Top(t) = "closing" THEN "closed" ELSE "cleaning")
      OBVIOUS
    <2>3. Moved(t, kind, Nested(t))
      BY <1>1, <1>4, <2>2, BecomeMoves DEF SessionInv, FrameKinds
    <2>4. MutualExclusion'
      BY <1>1, <1>3, <2>2, <2>3, MonitorKept DEF SessionInv, LockedKinds
    <2>5. HolderIsReleasing'
      <3>1. \A u \in Threads : u # t => ~duty[u]
        BY <2>1 DEF HandleMoves, Actors
      <3> QED
        BY <2>1, <2>3, <3>1 DEF SessionInv, HandleMoves, Moved, HolderIsReleasing, Actors
    <2>6. OpenedAlone' /\ DroppedIsEmpty'
      BY <1>1, <2>1, <2>3, CleanerAssumption
         DEF SessionInv, Moved, HandleMoves, OpenedAlone, DroppedIsEmpty, Actors
    <2>7. RegistrationKept' /\ LeakIsLast'
      BY <2>1 DEF RegistrationKept, LeakIsLast, Holders, HandleMoves
    <2> QED
      BY <1>4, <2>1, <2>2, <2>3, <2>4, <2>5, <2>6, <2>7 DEF SessionInv, HandleMoves, Moved
  <1>5. CASE ReleaseFails(t) /\ Return(t)
    <2>1. UNCHANGED <<native, cleanable, reachable>> /\ HandleMoves(t, FALSE, TRUE)
      BY <1>1, <1>5, RestoreStores DEF SessionInv, ReleaseFails, CleanupTypeOK
    <2>2. PICK kind \in {"native", "none"} : kind = (IF Nested(t) THEN "native" ELSE "none")
      OBVIOUS
    <2>3. Moved(t, kind, FALSE)
      BY <1>1, <1>5, <2>2, ReturnMoves DEF SessionInv
    <2>4. MutualExclusion'
      BY <1>3, <2>2, <2>3, MonitorKept DEF SessionInv, LockedKinds
    <2>5. HolderIsReleasing'
      BY <2>1, <2>3 DEF SessionInv, HandleMoves, Moved, HolderIsReleasing, Actors
    <2>6. OpenedAlone' /\ DroppedIsEmpty'
      BY <1>1, <2>1, <2>3, CleanerAssumption
         DEF SessionInv, Moved, HandleMoves, OpenedAlone, DroppedIsEmpty, Actors
    <2>7. RegistrationKept' /\ LeakIsLast'
      BY <1>1, <1>2, <2>1, <2>3, CleanerAssumption
         DEF SessionInv, Moved, HandleMoves, RegistrationKept, LeakIsLast, Holders, Actors
    <2> QED
      BY <1>5, <2>1, <2>2, <2>3, <2>4, <2>5, <2>6, <2>7 DEF SessionInv, HandleMoves, Moved
  <1> QED
    BY <1>4, <1>5 DEF Release

\* There is nothing left for the cleanup action to claim.
LEMMA CleanKeepsSession ==
  ASSUME SessionInv, NEW t \in Threads, CleanAfterRelease(t)
  PROVE  /\ SessionInv' /\ Moved(t, IF Nested(t) THEN "native" ELSE "none", FALSE)
         /\ UNCHANGED <<cell, duty, native, reachable>>
  <1>1. /\ Top(t) \in {"closed", "cleaning"} /\ native # "live" /\ ~cell
        /\ (\A a \in Actors : ~duty[a]) /\ cleanable # "none" /\ reachable /\ t \in Actors
    BY DEF SessionInv, CleanAfterRelease, RegistrationKept, OpenedAlone, DroppedIsEmpty,
       Holders, Actors
  <1>2. UNCHANGED <<cell, duty, native, reachable>> /\ cleanable' \in {cleanable, "done"}
    BY <1>1 DEF SessionInv, CleanAfterRelease, Clean, Claim, cleanupVars, CleanupTypeOK
  <1>3. CleanupTypeOK' /\ SingleOwner'
    BY <1>2, HandleStays DEF SessionInv, CleanupTypeOK
  <1>4. PICK kind \in {"native", "none"} : kind = (IF Nested(t) THEN "native" ELSE "none")
    OBVIOUS
  <1>5. Moved(t, kind, FALSE)
    BY <1>1, <1>4, ReturnMoves DEF SessionInv, CleanAfterRelease
  <1>6. MutualExclusion'
    <2>1. InMonitor(t) <=> Nested(t) \/ Top(t) \in LockedKinds
      BY InMonitorIs DEF SessionInv
    <2> QED
      BY <1>4, <1>5, <2>1, MonitorKept DEF SessionInv, LockedKinds
  <1>7. HolderIsReleasing'
    BY <1>1, <1>2, <1>5 DEF SessionInv, Moved, HolderIsReleasing, Actors
  <1>8. OpenedAlone' /\ DroppedIsEmpty' /\ RegistrationKept' /\ LeakIsLast'
    BY <1>1, <1>2, <1>5
       DEF SessionInv, Moved, OpenedAlone, DroppedIsEmpty, RegistrationKept, LeakIsLast,
           Holders, Actors
  <1> QED
    BY <1>2, <1>3, <1>4, <1>5, <1>6, <1>7, <1>8 DEF SessionInv, Moved

LEMMA DropKeepsSession ==
  ASSUME SessionInv, Drop
  PROVE  SessionInv' /\ Unmoved /\ UNCHANGED <<cell, duty, native, cleanable>>
  <1>1. /\ UNCHANGED <<cell, duty, native, cleanable, calls>> /\ reachable' = FALSE
        /\ cleanable # "none" /\ \A t \in Threads : Top(t) = "none"
    BY TopKinds DEF SessionInv, Drop, Constructed
  <1>2. CleanupTypeOK' /\ SingleOwner'
    BY <1>1, HandleStays DEF SessionInv, CleanupTypeOK
  <1>3. Unmoved
    BY <1>1, UnchangedStays DEF SessionInv
  <1>4. MutualExclusion'
    BY <1>1 DEF SessionInv, MutualExclusion, InMonitor, Bottom
  <1>5. HolderIsReleasing' /\ OpenedAlone' /\ DroppedIsEmpty' /\ RegistrationKept' /\ LeakIsLast'
    BY <1>1, <1>3 DEF SessionInv, Unmoved, HolderIsReleasing, OpenedAlone, DroppedIsEmpty,
       RegistrationKept, LeakIsLast, Holders
  <1> QED
    BY <1>1, <1>2, <1>3, <1>4, <1>5 DEF SessionInv, Unmoved

LEMMA CleanerKeepsSession ==
  ASSUME SessionInv, CleanerStep
  PROVE  /\ SessionInv' /\ Unmoved /\ ~reachable /\ UNCHANGED reachable
         /\ \A t \in Threads : Top(t) = "none" /\ ~duty[t] /\ ~duty'[t]
         /\ \/ ~duty[Cleaner] /\ Claim(Cleaner) /\ native' = native
            \/ /\ native' # "live" /\ \A a \in Actors : ~duty'[a]
               /\ ~cell' /\ (ReleaseSucceeds(Cleaner) \/ LastReleaseFails(Cleaner))
  <1>1. UNCHANGED calls /\ Cleaner \in Actors
    BY DEF CleanerStep, Actors
  <1>2. Unmoved
    BY <1>1, UnchangedStays DEF SessionInv
  <1>3. MutualExclusion'
    BY <1>1 DEF SessionInv, MutualExclusion, InMonitor, Bottom
  <1>4. CASE CleanerRuns
    <2>1. /\ ~reachable /\ cleanable' = "done" /\ UNCHANGED <<native, reachable>> /\ ~duty[Cleaner]
          /\ Claim(Cleaner) /\ cleanable # "none"
          /\ \A t \in Threads : Top(t) = "none" /\ ~duty[t]
      BY <1>4 DEF SessionInv, CleanerRuns, Clean, DroppedIsEmpty, HolderIsReleasing
    <2>2. HandleMoves(Cleaner, cell, FALSE)
      BY <1>1, <2>1, ClaimTakes DEF SessionInv, CleanupTypeOK
    <2>3. \A t \in Threads : ~duty'[t]
      BY <2>1, <2>2, CleanerAssumption DEF HandleMoves, Actors
    <2>4. native = "live" => cell
      BY <2>1, OneHolder DEF SessionInv, Actors
    <2>5. HolderIsReleasing' /\ OpenedAlone' /\ DroppedIsEmpty' /\ RegistrationKept'
      BY <1>2, <2>1, <2>2, <2>3, <2>4 DEF HandleMoves, Unmoved, HolderIsReleasing, OpenedAlone,
         DroppedIsEmpty, RegistrationKept
    <2>6. LeakIsLast'
      BY <2>1, <2>2 DEF SessionInv, HandleMoves, LeakIsLast, Holders, CleanupTypeOK
    <2> QED
      BY <1>2, <1>3, <2>1, <2>2, <2>3, <2>5, <2>6 DEF SessionInv, HandleMoves, Unmoved
  <1>5. CASE CleanerReleases
    <2>1. /\ HandleMoves(Cleaner, FALSE, FALSE) /\ native' # "live"
          /\ UNCHANGED <<cleanable, reachable>> /\ duty[Cleaner] /\ \A a \in Actors : ~duty'[a]
      BY <1>1, <1>5, ReleaseEnds DEF SessionInv, CleanerReleases
    <2>2. /\ ~reachable /\ cleanable = "done"
          /\ \A t \in Threads : Top(t) = "none" /\ ~duty[t] /\ ~duty'[t]
      BY <2>1, CleanerAssumption DEF SessionInv, DroppedIsEmpty, HolderIsReleasing, Actors
    <2>3. HolderIsReleasing' /\ OpenedAlone' /\ DroppedIsEmpty' /\ RegistrationKept'
      BY <1>1, <1>2, <2>1, <2>2 DEF HandleMoves, Unmoved, HolderIsReleasing, OpenedAlone,
         DroppedIsEmpty, RegistrationKept
    <2>4. LeakIsLast'
      BY <2>1 DEF HandleMoves, LeakIsLast, Holders
    <2> QED
      BY <1>2, <1>3, <1>5, <2>1, <2>2, <2>3, <2>4 DEF SessionInv, HandleMoves, Unmoved, CleanerReleases
  <1> QED
    BY <1>4, <1>5 DEF CleanerStep

LEMMA SessionStays ==
  ASSUME SessionInv, UNCHANGED <<cell, duty, native, cleanable, reachable, calls>>
  PROVE  SessionInv'
  BY DEF SessionInv, CleanupTypeOK, CallsTypeOK, CallShape, MutualExclusion, SingleOwner,
     HolderIsReleasing, OpenedAlone, DroppedIsEmpty, RegistrationKept, LeakIsLast, Holders,
     InMonitor, Bottom, Top, Nested

\* The Cleaner still has the handle of a session nobody is releasing.
LEMMA SessionKeepsFallback == SessionInv => FallbackKept
  <1> SUFFICES ASSUME SessionInv, native = "live", Holders = {}
               PROVE  cell /\ cleanable = "registered"
    BY DEF FallbackKept
  <1>1. cell
    BY DEF SessionInv, SingleOwner
  <1>2. cleanable \notin {"none", "done"}
    BY <1>1 DEF SessionInv, OpenedAlone, RegistrationKept, Holders, Actors
  <1> QED
    BY <1>1, <1>2 DEF SessionInv, CleanupTypeOK

\* A call that one session makes of its own keeps the common part when it
\* respects the monitor and says what it does with the handle.
LEMMA CallKeepsSession ==
  ASSUME SessionInv, NEW t \in Threads, NEW top, NEW nested, Moved(t, top, nested),
         Constructed, reachable, UNCHANGED <<cleanable, reachable>>,
         CleanupTypeOK', SingleOwner', LeakIsLast',
         native # "live" => native' # "live",
         nested \/ top \in LockedKinds => InMonitor(t) \/ MonitorFree(t),
         \A a \in Actors : a # t => duty'[a] = duty[a],
         top \in {"abandoning", "closing"} => duty'[t],
         duty'[t] => top \in {"abandoning", "closing", "native", "flushing"},
         top \notin {"opening", "disowning"},
         top \in {"closed", "cleaning"} => native' # "live" /\ ~cell' /\ \A a \in Actors : ~duty'[a],
         ~cell /\ (\A a \in Actors : ~duty[a]) => ~cell' /\ \A a \in Actors : ~duty'[a]
  PROVE  SessionInv'
  <1>1. MutualExclusion'
    BY MonitorKept DEF SessionInv
  <1>2. HolderIsReleasing'
    BY DEF SessionInv, Moved, HolderIsReleasing, Actors
  <1>3. OpenedAlone' /\ DroppedIsEmpty'
    BY CleanerAssumption
       DEF SessionInv, Moved, Constructed, OpenedAlone, DroppedIsEmpty, Actors
  <1>4. RegistrationKept'
    BY CleanerAssumption DEF SessionInv, Moved, RegistrationKept, Holders, Actors
  <1> QED
    BY <1>1, <1>2, <1>3, <1>4 DEF SessionInv, Moved

-----------------------------------------------------------------------------
(* Where the token of HandleOwnership is.                                  *)

TokenPlaced ==
  /\ native # "live" => Owner = native
  /\ native = "live" /\ cell => Owner = "cleanup"
  /\ \A a \in Actors : native = "live" /\ duty[a] => Owner = a

LEMMA OwnerIs == CleanupTypeOK /\ SingleOwner => TokenPlaced
  <1> SUFFICES ASSUME CleanupTypeOK, SingleOwner PROVE TokenPlaced
    OBVIOUS
  <1>1. native # "live" => Owner = native
    BY DEF Owner
  <1>2. native = "live" /\ cell => Owner = "cleanup"
    BY DEF Owner
  <1>3. ASSUME NEW a \in Actors, native = "live", duty[a] PROVE Owner = a
    <2>1. a \in Holders /\ ~cell /\ \A b \in Holders : b = a
      BY <1>3 DEF SingleOwner, Holders
    <2>2. (CHOOSE b \in Holders : TRUE) \in Holders
      BY <2>1
    <2> QED
      BY <1>3, <2>1, <2>2 DEF Owner
  <1> QED
    BY <1>1, <1>2, <1>3 DEF TokenPlaced

LEMMA OwnerStays ==
  ASSUME UNCHANGED <<cell, duty, native>>
  PROVE  UNCHANGED Owner
  BY DEF Owner, Holders

\* A dead native owner stays dead, with whatever is left of its handle.
LEMMA DeadOwnerStays ==
  ASSUME native # "live", UNCHANGED native
  PROVE  UNCHANGED Owner
  BY DEF Owner

LEMMA ClaimMaps ==
  ASSUME CleanupTypeOK, SingleOwner, CleanupTypeOK', SingleOwner', NEW a \in Actors,
         ~duty[a], Claim(a), UNCHANGED native
  PROVE  [Ownership!Next]_Owner
  <1>1. CASE native = "live" /\ cell
    <2>1. Owner = "cleanup"
      BY <1>1, OwnerIs DEF TokenPlaced
    <2>2. duty'[a] /\ native' = "live"
      BY <1>1 DEF Claim, CleanupTypeOK
    <2>3. TokenPlaced'
      BY OwnerIs, PTL
    <2>4. Owner' = a
      BY <2>2, <2>3 DEF TokenPlaced
    <2> QED
      BY <2>1, <2>4 DEF Ownership!Next, Ownership!Claim
  <1>2. CASE native = "live" /\ ~cell
    <2>1. duty' = duty /\ cell' = cell
      BY <1>2 DEF Claim, CleanupTypeOK
    <2> QED
      BY <2>1, OwnerStays
  <1>3. CASE native # "live"
    BY <1>3, DeadOwnerStays
  <1> QED
    BY <1>1, <1>2, <1>3

LEMMA RestoreMaps ==
  ASSUME CleanupTypeOK, SingleOwner, CleanupTypeOK', SingleOwner', NEW a \in Actors,
         duty[a], Restore(a), UNCHANGED native
  PROVE  [Ownership!Next]_Owner
  <1>1. CASE native = "live"
    <2>1. Owner = a
      BY <1>1, OwnerIs DEF TokenPlaced
    <2>2. cell' /\ native' = "live"
      BY <1>1 DEF Restore
    <2>3. Owner' = "cleanup"
      BY <2>2 DEF Owner
    <2> QED
      BY <2>1, <2>3 DEF Ownership!Next, Ownership!GiveBack
  <1>2. CASE native # "live"
    BY <1>2, DeadOwnerStays
  <1> QED
    BY <1>1, <1>2

\* The holder ends the life of the native owner, or finds it ended.
LEMMA EndMaps ==
  ASSUME CleanupTypeOK, SingleOwner, NEW a \in Actors, duty[a],
         native' \in {native, "released", "leaked"}, native # "live" => native' = native,
         native' = "live" => UNCHANGED <<cell, duty>>
  PROVE  [Ownership!Next]_Owner
  <1>1. CASE native = "live" /\ native' # "live"
    <2>1. Owner = a /\ Owner' = native' /\ native' \in {"released", "leaked"}
      BY <1>1, OwnerIs DEF TokenPlaced, Owner
    <2> QED
      BY <2>1 DEF Ownership!Next, Ownership!Release, Ownership!Leak
  <1>2. CASE native = "live" /\ native' = "live"
    BY <1>2, OwnerStays
  <1>3. CASE native # "live"
    BY <1>3, DeadOwnerStays DEF CleanupTypeOK
  <1> QED
    BY <1>1, <1>2, <1>3

LEMMA CommonMaps ==
  ASSUME SessionInv, SessionInv', NEW t \in Threads, Common(t)
  PROVE  [Ownership!Next]_Owner
  <1>1. CleanupTypeOK /\ SingleOwner /\ CleanupTypeOK' /\ SingleOwner' /\ t \in Actors
    BY DEF SessionInv, Actors
  <1>2. CASE Construct(t)
    <2>1. duty[t] /\ Restore(t) /\ UNCHANGED native
      BY <1>2 DEF SessionInv, Construct, HolderIsReleasing
    <2> QED
      BY <1>1, <2>1, RestoreMaps
  <1>3. CASE ConstructFails(t)
    BY <1>3, OwnerStays DEF ConstructFails, cleanupVars
  <1>4. ASSUME ReleaseSucceeds(t) \/ LastReleaseFails(t) PROVE [Ownership!Next]_Owner
    <2>1. duty[t] /\ native # "leaked"
      BY <1>1, <1>4 DEF SessionInv, ReleaseSucceeds, LastReleaseFails, LeakIsLast, Holders
    <2>2. native' \in {native, "released", "leaked"} /\ (native # "live" => native' = native)
      BY <1>1, <1>4, <2>1 DEF ReleaseSucceeds, LastReleaseFails, CleanupTypeOK
    <2>3. native' # "live"
      BY <1>1, <1>4, ReleaseEnds
    <2> QED
      BY <1>1, <2>1, <2>2, <2>3, EndMaps
  <1>5. CASE Disown(t)
    BY <1>4, <1>5 DEF Disown
  <1>6. CASE Release(t)
    <2>1. CASE ReleaseSucceeds(t)
      BY <1>4, <2>1
    <2>2. CASE ReleaseFails(t)
      BY <1>1, <2>2, RestoreMaps DEF ReleaseFails
    <2> QED
      BY <1>6, <2>1, <2>2 DEF Release
  <1>7. CASE CleanAfterRelease(t)
    BY <1>7, CleanKeepsSession, OwnerStays
  <1> QED
    BY <1>2, <1>3, <1>5, <1>6, <1>7 DEF Common

LEMMA DropOrCleanerMaps ==
  ASSUME SessionInv, SessionInv', Drop \/ CleanerStep
  PROVE  [Ownership!Next]_Owner
  <1>1. /\ CleanupTypeOK /\ SingleOwner /\ CleanupTypeOK' /\ SingleOwner' /\ Cleaner \in Actors
    BY DEF SessionInv, Actors
  <1>2. CASE Drop
    BY <1>2, OwnerStays DEF Drop
  <1>3. CASE CleanerStep
    <2>1. CASE ~duty[Cleaner] /\ Claim(Cleaner) /\ native' = native
      BY <1>1, <2>1, ClaimMaps
    <2>2. CASE ReleaseSucceeds(Cleaner) \/ LastReleaseFails(Cleaner)
      <3>1. duty[Cleaner] /\ native # "leaked"
        BY <1>1, <2>2 DEF SessionInv, ReleaseSucceeds, LastReleaseFails, LeakIsLast, Holders
      <3>2. native' \in {native, "released", "leaked"} /\ (native # "live" => native' = native)
        BY <1>1, <2>2, <3>1 DEF ReleaseSucceeds, LastReleaseFails, CleanupTypeOK
      <3>3. native' # "live"
        BY <1>1, <2>2, ReleaseEnds
      <3> QED
        BY <1>1, <3>1, <3>2, <3>3, EndMaps
    <2> QED
      BY <1>3, <2>1, <2>2, CleanerKeepsSession
  <1> QED
    BY <1>2, <1>3

\* At first the thread that opens the session holds its handle.
LEMMA OpenInitHolds ==
  ASSUME OpenInit
  PROVE  /\ SessionInv /\ NothingStale /\ Ownership!Init
         /\ cleanable = "none" /\ \A t \in Threads : Top(t) \in {"none", "opening"} /\ ~Nested(t)
  <1>1. PICK t \in Threads :
          /\ calls = [u \in Threads |-> IF u = t THEN <<"opening">> ELSE <<>>]
          /\ duty = [a \in Actors |-> a = t]
    BY DEF OpenInit
  <1>2. t \in Actors /\ t # Cleaner
    BY CleanerAssumption DEF Actors
  <1>3. \A a \in Actors : duty[a] <=> a = t
    BY <1>1
  <1>4. CleanupTypeOK /\ SingleOwner /\ NothingStale /\ LeakIsLast
    BY <1>1, <1>2, <1>3
       DEF OpenInit, CleanupTypeOK, SingleOwner, NothingStale, LeakIsLast, Holders
  <1>5. <<"opening">> \in Seq(FrameKinds) /\ <<>> \in Seq(FrameKinds)
        /\ Len(<<"opening">>) = 1 /\ Len(<<>>) = 0 /\ <<"opening">> # <<>>
    BY DEF FrameKinds
  <1>6. CallsTypeOK
    BY <1>1, <1>5 DEF CallsTypeOK
  <1>7. /\ calls[t] = <<"opening">> /\ Top(t) = "opening" /\ Bottom(t) = "opening"
        /\ \A u \in Threads : u # t => calls[u] = <<>> /\ Top(u) = "none" /\ Bottom(u) = "none"
    BY <1>1, <1>5 DEF Top, Bottom
  <1>8. CallShape /\ \A u \in Threads : ~Nested(u)
    <2>1. \A u \in Threads : Len(calls[u]) = 0 \/ Len(calls[u]) = 1
      BY <1>5, <1>7
    <2>2. \A n : n = 0 \/ n = 1 => n <= 2 /\ n # 2
      OBVIOUS
    <2> QED
      BY <2>1, <2>2 DEF CallShape, Nested
  <1>9. MutualExclusion
    BY <1>7 DEF MutualExclusion, InMonitor, LockedKinds
  <1>10. HolderIsReleasing /\ OpenedAlone
    BY <1>2, <1>3, <1>7, <1>8 DEF OpenInit, HolderIsReleasing, OpenedAlone, Actors
  <1>11. DroppedIsEmpty /\ RegistrationKept
    BY <1>2, <1>3, <1>7, CleanerAssumption DEF OpenInit, DroppedIsEmpty, RegistrationKept, Actors
  <1>12. Ownership!Init
    <2>1. Owner = t
      BY <1>2, <1>3, <1>4, OwnerIs DEF OpenInit, TokenPlaced
    <2> QED
      BY <1>2, <2>1 DEF Ownership!Init
  <1> QED
    BY <1>4, <1>6, <1>7, <1>8, <1>9, <1>10, <1>11, <1>12 DEF SessionInv, OpenInit

-----------------------------------------------------------------------------
(* The pull session.                                                       *)

\* A step that gives nobody the handle lets nobody else release during a call.
LEMMA ReadsStayUndisturbed ==
  ASSUME SessionInv, ReadsUndisturbed, NEW t \in Threads, NEW top, NEW nested,
         Moved(t, top, nested),
         nested \/ top \in LockedKinds => InMonitor(t),
         \A a \in Actors : duty'[a] => duty[a],
         top # "flushing", duty'[t] => top # "native"
  PROVE  ReadsUndisturbed'
  <1>1. \A u \in Threads : InMonitor(u)' => InMonitor(u)
    BY MonitorMoves DEF SessionInv
  <1>2. Holders' \subseteq Holders
    BY DEF Holders
  <1> QED
    BY <1>1, <1>2 DEF ReadsUndisturbed, Moved, Actors

LEMMA PullCommonKeeps ==
  ASSUME PullInv, NEW t \in Threads, Common(t), UNCHANGED active
  PROVE  PullInv'
  <1>1. SessionInv /\ NothingStale /\ ReadsUndisturbed /\ active \in BOOLEAN /\ t \in Actors
    BY DEF PullInv, PullTypeOK, Actors
  <1>2. InMonitor(t) <=> Nested(t) \/ Top(t) \in LockedKinds
    BY <1>1, InMonitorIs DEF SessionInv
  <1>3. SUFFICES SessionInv' /\ NothingStale' /\ ReadsUndisturbed'
    BY <1>1 DEF PullInv, PullTypeOK, SessionInv
  <1>4. CASE Construct(t)
    <2>1. SessionInv' /\ Moved(t, "none", FALSE) /\ HandleMoves(t, FALSE, TRUE)
      BY <1>1, <1>4, ConstructKeepsSession
    <2>2. NothingStale'
      <3>1. duty[t] /\ native' = native
        BY <1>1, <1>4 DEF SessionInv, Construct, HolderIsReleasing
      <3> QED
        BY <1>1, <3>1 DEF NothingStale, Holders
    <2>3. ReadsUndisturbed'
      BY <1>1, <2>1, ReadsStayUndisturbed DEF HandleMoves, LockedKinds
    <2> QED
      BY <2>1, <2>2, <2>3
  <1>5. CASE ConstructFails(t)
    <2>1. SessionInv' /\ Moved(t, "disowning", FALSE) /\ UNCHANGED <<cell, duty, native>>
      BY <1>1, <1>5, ConstructFailsKeepsSession DEF ConstructFails, cleanupVars
    <2>2. NothingStale'
      BY <1>1, <2>1 DEF NothingStale, Holders
    <2>3. ReadsUndisturbed'
      BY <1>1, <2>1, ReadsStayUndisturbed DEF LockedKinds
    <2> QED
      BY <2>1, <2>2, <2>3
  <1>6. CASE Disown(t)
    <2>1. /\ SessionInv' /\ Moved(t, "none", FALSE) /\ HandleMoves(t, FALSE, FALSE)
          /\ \A b \in Actors : ~duty'[b]
      BY <1>1, <1>6, DisownKeepsSession
    <2>2. NothingStale'
      BY <2>1 DEF NothingStale, Holders, HandleMoves
    <2>3. ReadsUndisturbed'
      BY <1>1, <2>1, ReadsStayUndisturbed DEF HandleMoves, LockedKinds
    <2> QED
      BY <2>1, <2>2, <2>3
  <1>7. CASE Release(t)
    <2>1. CASE /\ ReleaseSucceeds(t) /\ (\A b \in Actors : ~duty'[b])
               /\ HandleMoves(t, FALSE, FALSE)
               /\ Moved(t, IF Top(t) = "closing" THEN "closed" ELSE "cleaning", Nested(t))
      <3>1. PICK kind \in {"closed", "cleaning"} :
              kind = (IF Top(t) = "closing" THEN "closed" ELSE "cleaning")
        OBVIOUS
      <3>2. NothingStale'
        BY <2>1 DEF NothingStale, Holders, HandleMoves
      <3>3. ReadsUndisturbed'
        BY <1>1, <1>2, <1>7, <2>1, <3>1, ReadsStayUndisturbed
           DEF HandleMoves, LockedKinds, Release
      <3> QED
        BY <1>1, <1>7, <3>2, <3>3, ReleaseKeepsSession
    <2>2. CASE /\ ReleaseFails(t) /\ native' = native /\ HandleMoves(t, FALSE, TRUE)
               /\ Moved(t, IF Nested(t) THEN "native" ELSE "none", FALSE)
      <3>1. PICK kind \in {"native", "none"} : kind = (IF Nested(t) THEN "native" ELSE "none")
        OBVIOUS
      <3>2. NothingStale'
        BY <1>1, <2>2 DEF NothingStale, Holders, ReleaseFails
      <3>3. ReadsUndisturbed'
        BY <1>1, <1>2, <2>2, <3>1, ReadsStayUndisturbed DEF HandleMoves, LockedKinds
      <3> QED
        BY <1>1, <1>7, <3>2, <3>3, ReleaseKeepsSession
    <2> QED
      BY <1>1, <1>7, <2>1, <2>2, ReleaseKeepsSession
  <1>8. CASE CleanAfterRelease(t)
    <2>1. /\ SessionInv' /\ Moved(t, IF Nested(t) THEN "native" ELSE "none", FALSE)
          /\ UNCHANGED <<cell, duty, native>>
      BY <1>1, <1>8, CleanKeepsSession
    <2>2. ~duty[t] /\ Top(t) \in {"closed", "cleaning"}
      BY <1>1, <1>8 DEF SessionInv, HolderIsReleasing, CleanAfterRelease
    <2>3. PICK kind \in {"native", "none"} : kind = (IF Nested(t) THEN "native" ELSE "none")
      OBVIOUS
    <2>4. NothingStale'
      BY <1>1, <2>1 DEF NothingStale, Holders
    <2>5. ReadsUndisturbed'
      BY <1>1, <1>2, <2>1, <2>2, <2>3, ReadsStayUndisturbed DEF LockedKinds
    <2> QED
      BY <2>1, <2>4, <2>5
  <1> QED
    BY <1>4, <1>5, <1>6, <1>7, <1>8 DEF Common

LEMMA PullCleanerKeeps ==
  ASSUME PullInv, Drop \/ CleanerStep, UNCHANGED active
  PROVE  PullInv'
  <1>1. SessionInv /\ NothingStale /\ ReadsUndisturbed /\ active \in BOOLEAN
    BY DEF PullInv, PullTypeOK
  <1>2. SUFFICES SessionInv' /\ NothingStale' /\ ReadsUndisturbed'
    BY <1>1 DEF PullInv, PullTypeOK, SessionInv
  <1>3. \A t \in Threads : Top(t) = "none" /\ ~Nested(t)
    <2>1. \A t \in Threads : Top(t) = "none"
      BY <1>1, TopKinds, CleanerKeepsSession DEF SessionInv, Drop
    <2> QED
      BY <1>1, <2>1, NestedInNative DEF SessionInv
  <1>4. SessionInv' /\ Unmoved
    BY <1>1, DropKeepsSession, CleanerKeepsSession
  <1>5. ReadsUndisturbed'
    <2>1. \A t \in Threads : ~InMonitor(t)'
      <3>1. UNCHANGED calls
        BY DEF Drop, CleanerStep
      <3>2. \A t \in Threads : ~InMonitor(t)
        BY <1>1, <1>3, InMonitorIs DEF SessionInv, LockedKinds
      <3> QED
        BY <3>1, <3>2 DEF InMonitor, Bottom
    <2> QED
      BY <1>3, <1>4, <2>1 DEF Unmoved, ReadsUndisturbed
  <1>6. NothingStale'
    <2>1. CASE Drop
      BY <1>1, <2>1 DEF Drop, NothingStale, Holders
    <2>2. CASE CleanerStep
      <3>1. CASE Claim(Cleaner) /\ native' = native
        BY <1>1, <3>1 DEF Claim, NothingStale, Holders, SessionInv, CleanupTypeOK
      <3>2. CASE native' # "live" /\ (\A a \in Actors : ~duty'[a]) /\ ~cell'
        BY <3>2 DEF NothingStale, Holders
      <3> QED
        BY <1>1, <2>2, <3>1, <3>2, CleanerKeepsSession
    <2> QED
      BY <2>1, <2>2
  <1> QED
    BY <1>4, <1>5, <1>6

\* A read that is nested in another one throws at once.
LEMMA BeginReadKeeps ==
  ASSUME PullInv, NEW t \in Threads, BeginRead(t)
  PROVE  PullInv'
  <1>1. /\ SessionInv /\ NothingStale /\ ReadsUndisturbed /\ active \in BOOLEAN
        /\ t \in Actors /\ UNCHANGED <<cell, duty, native, cleanable, reachable, active>>
        /\ cell /\ reachable /\ Constructed /\ MonitorFree(t) /\ Top(t) \in {"none", "native"}
    BY DEF PullInv, PullTypeOK, Actors, BeginRead, cleanupVars, InUserCode, ReadsUndisturbed
  <1>2. \A a \in Actors : ~duty[a]
    BY <1>1, OneHolder DEF SessionInv
  <1>3. Top(t) = "native" => ~NativeAccepts
    <2>1. SUFFICES ASSUME Top(t) = "native" PROVE \E i \in DOMAIN calls[t] : InNative(t, i)
      BY DEF NativeAccepts
    <2>2. calls[t] \in Seq(FrameKinds) /\ calls[t] # <<>>
      BY <1>1, <2>1, TopKinds DEF SessionInv, CallsTypeOK
    <2>3. Len(calls[t]) \in DOMAIN calls[t] /\ calls[t][Len(calls[t])] = "native"
      BY <2>1, <2>2 DEF Top
    <2> QED
      BY <2>3 DEF InNative
  <1>4. PICK kind \in {"native", "threw"} :
          Enter(t, kind) /\ (Top(t) = "native" => kind = "threw")
    BY <1>3 DEF BeginRead
  <1>5. Moved(t, kind, Top(t) = "native")
    BY <1>1, <1>4, EnterMoves DEF SessionInv, FrameKinds
  <1>6. CleanupTypeOK' /\ SingleOwner' /\ LeakIsLast' /\ NothingStale'
    BY <1>1 DEF SessionInv, CleanupTypeOK, SingleOwner, LeakIsLast, NothingStale, Holders
  <1>7. SessionInv'
    BY <1>1, <1>2, <1>4, <1>5, <1>6, CallKeepsSession
  <1>8. ReadsUndisturbed'
    <2>1. Holders' = {} /\ \A u \in Threads : ~duty'[u]
      BY <1>1, <1>2 DEF Holders, Actors
    <2> QED
      BY <1>1, <1>4, <1>5, <2>1 DEF ReadsUndisturbed, Moved
  <1> QED
    BY <1>1, <1>6, <1>7, <1>8 DEF PullInv, PullTypeOK, SessionInv

\* The read is over, or threw; the handle is where it was.
LEMMA ReadEndsKeeps ==
  ASSUME PullInv, NEW t \in Threads, ReadReturns(t) \/ ReadThrows(t)
  PROVE  PullInv'
  <1>1. /\ SessionInv /\ NothingStale /\ ReadsUndisturbed /\ active \in BOOLEAN
        /\ t \in Actors /\ UNCHANGED <<cell, duty, native, cleanable, reachable, active>>
        /\ Top(t) = "native" /\ ~duty[t]
    BY DEF PullInv, PullTypeOK, Actors, ReadReturns, ReadThrows, cleanupVars, ReadsUndisturbed
  <1>2. ~Nested(t) /\ InMonitor(t)
    BY <1>1, NestedInNative DEF SessionInv, LockedKinds
  <1>3. PICK kind \in {"none", "threw"} : Moved(t, kind, FALSE)
    <2>1. CASE ReadReturns(t)
      BY <1>1, <1>2, <2>1, ReturnMoves DEF SessionInv, ReadReturns
    <2>2. CASE ReadThrows(t)
      <3>1. Moved(t, "threw", Nested(t))
        BY <1>1, <1>2, <2>2, BecomeMoves DEF SessionInv, ReadThrows, FrameKinds
      <3> QED
        BY <1>2, <3>1 DEF Moved
    <2> QED
      BY <2>1, <2>2
  <1>4. CleanupTypeOK' /\ SingleOwner' /\ LeakIsLast' /\ NothingStale'
    BY <1>1 DEF SessionInv, CleanupTypeOK, SingleOwner, LeakIsLast, NothingStale, Holders
  <1>5. reachable /\ Constructed
    BY <1>1 DEF SessionInv, DroppedIsEmpty, OpenedAlone, Constructed
  <1>6. SessionInv'
    BY <1>1, <1>2, <1>3, <1>4, <1>5, CallKeepsSession
  <1>7. ReadsUndisturbed'
    BY <1>1, <1>2, <1>3, ReadsStayUndisturbed
  <1> QED
    BY <1>1, <1>4, <1>6, <1>7 DEF PullInv, PullTypeOK, SessionInv

\* The thread is in the monitor without the handle, so the handle is in the
\* cell or the native decoder is gone.
LEMMA AbandonDecoderKeeps ==
  ASSUME PullInv, NEW t \in Threads, AbandonDecoder(t)
  PROVE  PullInv'
  <1>1. /\ SessionInv /\ NothingStale /\ ReadsUndisturbed /\ t \in Actors /\ Top(t) = "threw"
        /\ active' = FALSE /\ Claim(t) /\ UNCHANGED <<native, cleanable, reachable>>
    BY DEF PullInv, PullTypeOK, Actors, AbandonDecoder, Abandon
  <1>2. InMonitor(t) /\ \A a \in Actors : ~duty[a]
    <2>1. InMonitor(t) /\ ~duty[t]
      BY <1>1, InMonitorIs DEF SessionInv, LockedKinds, HolderIsReleasing
    <2> QED
      BY <1>1, <2>1 DEF ReadsUndisturbed, Holders
  <1>3. HandleMoves(t, cell, FALSE)
    BY <1>1, <1>2, ClaimTakes DEF SessionInv, CleanupTypeOK
  <1>4. native = "live" => cell
    BY <1>1, <1>2, OneHolder DEF SessionInv
  <1>5. PICK kind \in {"abandoning", "cleaning"} :
          /\ Become(t, kind)
          /\ cell => kind = "abandoning"
          /\ ~cell => kind = "cleaning"
    BY DEF AbandonDecoder, Abandon
  <1>6. Moved(t, kind, Nested(t))
    BY <1>1, <1>5, BecomeMoves DEF SessionInv, FrameKinds
  <1>7. reachable /\ Constructed
    BY <1>1 DEF SessionInv, DroppedIsEmpty, OpenedAlone, Constructed
  <1>8. NothingStale' /\ LeakIsLast'
    BY <1>1, <1>2, <1>3 DEF NothingStale, LeakIsLast, Holders, HandleMoves
  <1>9. /\ duty'[t] <=> kind = "abandoning"
        /\ ~cell' /\ cell \in BOOLEAN /\ \A a \in Actors : a # t => ~duty'[a] /\ duty'[a] = duty[a]
    BY <1>1, <1>2, <1>3, <1>5 DEF HandleMoves, SessionInv, CleanupTypeOK
  <1>10. SessionInv'
    BY <1>1, <1>2, <1>3, <1>4, <1>5, <1>6, <1>7, <1>8, <1>9, CallKeepsSession DEF HandleMoves
  <1>11. ReadsUndisturbed'
    <2>1. \A u \in Threads : InMonitor(u)' => u = t
      <3>1. InMonitor(t)'
        BY <1>1, <1>5, <1>6, MonitorMoves DEF SessionInv, LockedKinds
      <3> QED
        BY <1>10, <3>1 DEF SessionInv, MutualExclusion
    <2>2. Holders' \subseteq {t}
      BY <1>9 DEF Holders
    <2> QED
      BY <1>1, <1>5, <1>6, <1>9, <2>1, <2>2 DEF ReadsUndisturbed, Moved, Actors
  <1> QED
    BY <1>1, <1>8, <1>10, <1>11 DEF PullInv, PullTypeOK, SessionInv

\* close() claims while no other thread is in the monitor.
LEMMA CloseKeeps ==
  ASSUME PullInv, NEW t \in Threads, Close(t)
  PROVE  PullInv'
  <1>1. /\ SessionInv /\ NothingStale /\ ReadsUndisturbed /\ t \in Actors
        /\ active' = FALSE /\ Claim(t) /\ UNCHANGED <<native, cleanable, reachable>>
        /\ reachable /\ Constructed /\ MonitorFree(t) /\ Top(t) \in {"none", "native"}
    BY DEF PullInv, PullTypeOK, Actors, Close, InUserCode, ReadsUndisturbed
  <1>2. ~duty[t]
    BY <1>1 DEF SessionInv, HolderIsReleasing, ReadsUndisturbed
  <1>3. HandleMoves(t, cell, FALSE)
    BY <1>1, <1>2, ClaimTakes DEF SessionInv, CleanupTypeOK
  <1>4. CASE cell
    <2>1. \A a \in Actors : ~duty[a]
      BY <1>1, <1>4, OneHolder DEF SessionInv
    <2>2. Moved(t, "closing", Top(t) = "native")
      BY <1>1, <1>4, EnterMoves DEF SessionInv, FrameKinds, Close
    <2>3. InMonitor(t) <=> Nested(t) \/ Top(t) \in LockedKinds
      BY <1>1, InMonitorIs DEF SessionInv
    <2>4. native = "live"
      BY <1>1, <1>4 DEF NothingStale
    <2>5. NothingStale' /\ LeakIsLast'
      BY <1>1, <2>4 DEF NothingStale, LeakIsLast
    <2>6. SessionInv'
      BY <1>1, <1>3, <1>4, <2>1, <2>2, <2>3, <2>4, <2>5, CallKeepsSession
         DEF HandleMoves, LockedKinds
    <2>7. ReadsUndisturbed'
      <3>1. \A u \in Threads : u # t => ~InMonitor(u)'
        BY <1>1, <2>2, MonitorMoves DEF SessionInv, MonitorFree, InMonitor
      <3>2. Holders' \subseteq {t}
        BY <1>3, <2>1 DEF Holders, HandleMoves
      <3> QED
        BY <1>1, <1>3, <2>1, <2>2, <3>1, <3>2 DEF ReadsUndisturbed, Moved, HandleMoves, Actors
    <2> QED
      BY <1>1, <2>5, <2>6, <2>7 DEF PullInv, PullTypeOK, SessionInv
  <1>5. CASE ~cell
    <2>1. UNCHANGED <<cell, duty, native, cleanable, reachable, calls>>
      BY <1>1, <1>2, <1>5 DEF Claim, Close, SessionInv, CleanupTypeOK
    <2>2. SessionInv' /\ NothingStale' /\ ReadsUndisturbed'
      BY <1>1, <2>1, SessionStays
         DEF NothingStale, ReadsUndisturbed, Holders, InMonitor, Bottom, Top
    <2> QED
      BY <1>1, <2>2 DEF PullInv, PullTypeOK, SessionInv
  <1> QED
    BY <1>4, <1>5

LEMMA PullInitHolds == PullInit => PullInv
  <1> SUFFICES ASSUME PullInit PROVE PullInv
    OBVIOUS
  <1>1. OpenInit /\ active = TRUE
    BY DEF PullInit
  <1>2. SessionInv /\ NothingStale
    BY <1>1, OpenInitHolds
  <1>3. ReadsUndisturbed
    <2>1. \A t \in Threads : Top(t) \in {"none", "opening"} /\ ~Nested(t)
      BY <1>1, OpenInitHolds
    <2>2. \A t \in Threads : ~InMonitor(t)
      BY <1>2, <2>1, InMonitorIs DEF SessionInv, LockedKinds
    <2> QED
      BY <2>1, <2>2 DEF ReadsUndisturbed
  <1> QED
    BY <1>1, <1>2, <1>3 DEF PullInv, PullTypeOK, SessionInv

LEMMA PullNextKeeps == PullInv /\ [PullNext]_pullVars => PullInv'
  <1> SUFFICES ASSUME PullInv, [PullNext]_pullVars PROVE PullInv'
    OBVIOUS
  <1>1. ASSUME NEW t \in Threads, Common(t) /\ UNCHANGED active PROVE PullInv'
    BY <1>1, PullCommonKeeps
  <1>2. ASSUME NEW t \in Threads, BeginRead(t) PROVE PullInv'
    BY <1>2, BeginReadKeeps
  <1>3. ASSUME NEW t \in Threads, ReadReturns(t) \/ ReadThrows(t) PROVE PullInv'
    BY <1>3, ReadEndsKeeps
  <1>4. ASSUME NEW t \in Threads, AbandonDecoder(t) PROVE PullInv'
    BY <1>4, AbandonDecoderKeeps
  <1>5. ASSUME NEW t \in Threads, Close(t) PROVE PullInv'
    BY <1>5, CloseKeeps
  <1>6. CASE (Drop \/ CleanerStep) /\ UNCHANGED active
    BY <1>6, PullCleanerKeeps
  <1>7. CASE UNCHANGED pullVars
    <2>1. UNCHANGED <<cell, duty, native, cleanable, reachable, calls, active>>
      BY <1>7 DEF pullVars, cleanupVars
    <2>2. SessionInv' /\ NothingStale' /\ ReadsUndisturbed' /\ active' \in BOOLEAN
      BY <2>1, SessionStays
         DEF PullInv, PullTypeOK, NothingStale, ReadsUndisturbed, Holders, InMonitor, Bottom, Top
    <2> QED
      BY <2>2 DEF PullInv, PullTypeOK, SessionInv
  <1> QED
    BY <1>1, <1>2, <1>3, <1>4, <1>5, <1>6, <1>7 DEF PullNext

\* The inductive invariant of the pull session, for any number of threads and
\* callbacks that read or close again.
THEOREM PullInvariantHolds == PullSpec => []PullInv
  BY PullInitHolds, PullNextKeeps, PTL DEF PullSpec

\* While a thread is in a native read, or in a callback of one, no other thread
\* and not the Cleaner is about to release the decoder.
THEOREM ReadsAreNotReleased == PullSpec => []NoForeignRelease
  <1>1. PullInv => NoForeignRelease
    BY NativeInMonitor DEF PullInv, SessionInv, NoForeignRelease, ReadsUndisturbed
  <1> QED
    BY <1>1, PullInvariantHolds, PTL

\* A live decoder nobody is releasing is still registered with the Cleaner, also
\* after releases that failed.
THEOREM PullFallbackIsKept == PullSpec => []FallbackKept
  <1>1. PullInv => FallbackKept
    BY SessionKeepsFallback DEF PullInv
  <1> QED
    BY <1>1, PullInvariantHolds, PTL

\* Every step passes the single token on, or leaves it in place.
LEMMA PullNextMaps == PullInv /\ PullInv' /\ [PullNext]_pullVars => [Ownership!Next]_Owner
  <1> SUFFICES ASSUME PullInv, PullInv', [PullNext]_pullVars PROVE [Ownership!Next]_Owner
    OBVIOUS
  <1>1. SessionInv /\ SessionInv' /\ CleanupTypeOK /\ SingleOwner /\ CleanupTypeOK' /\ SingleOwner'
    BY DEF PullInv, SessionInv
  <1>2. ASSUME NEW t \in Threads, Common(t) PROVE [Ownership!Next]_Owner
    BY <1>1, <1>2, CommonMaps
  <1>3. ASSUME NEW t \in Threads, BeginRead(t) \/ ReadReturns(t) \/ ReadThrows(t)
        PROVE  [Ownership!Next]_Owner
    BY <1>3, OwnerStays DEF BeginRead, ReadReturns, ReadThrows, cleanupVars
  <1>4. ASSUME NEW t \in Threads, AbandonDecoder(t) \/ Close(t) PROVE [Ownership!Next]_Owner
    <2>1. ~duty[t] /\ Claim(t) /\ UNCHANGED native /\ t \in Actors
      BY <1>1, <1>4 DEF PullInv, SessionInv, ReadsUndisturbed, HolderIsReleasing, AbandonDecoder,
         Abandon, Close, InUserCode, Actors
    <2> QED
      BY <1>1, <2>1, ClaimMaps
  <1>5. CASE Drop \/ CleanerStep
    BY <1>1, <1>5, DropOrCleanerMaps
  <1>6. CASE UNCHANGED pullVars
    BY <1>6, OwnerStays DEF pullVars, cleanupVars
  <1> QED
    BY <1>2, <1>3, <1>4, <1>5, <1>6 DEF PullNext

\* The pull session passes its native handle round like a single token.
THEOREM PullImplementsOwnership == PullSpec => ImplementsOwnership
  <1>1. PullInit => Ownership!Init
    BY OpenInitHolds DEF PullInit
  <1> QED
    BY <1>1, PullNextMaps, PullInvariantHolds, PTL
       DEF PullSpec, ImplementsOwnership, Ownership!Spec

-----------------------------------------------------------------------------
(* The encoding session.                                                   *)

\* What the state has to say of a thread whose topmost call is the given one.
CallFitsState(top, held, st) ==
  /\ top \notin {"threw", "closing", "closed"}
  /\ top = "native" => st \in {"WRITING", "FINISHING"}
  /\ top = "flushing" => st = "FINISHING"
  /\ top \in {"abandoning", "cleaning"} => st \in {"FINISHED", "FAILED"}
  /\ top \in {"native", "flushing"} => (held <=> st = "FINISHING")

LEMMA StateStillFollows ==
  ASSUME StateFollowsCall, NEW t \in Threads, NEW top, Moved(t, top, FALSE),
         \A u \in Threads : u # t => duty'[u] = duty[u],
         CallFitsState(top, duty'[t], state'),
         UNCHANGED state \/ \A u \in Threads : u # t => Top(u) \notin LockedKinds
  PROVE  StateFollowsCall'
  BY DEF StateFollowsCall, Moved, CallFitsState, LockedKinds

LEMMA EncodingCommonKeeps ==
  ASSUME EncodingInv, NEW t \in Threads, Common(t), UNCHANGED <<state, output>>
  PROVE  EncodingInv'
  <1>1. /\ SessionInv /\ StateFollowsCall /\ HandleAtHand /\ DamageIsFinal /\ TypeOK
        /\ ~Nested(t) /\ t \in Actors /\ \A u \in Threads : u \in Actors
    BY DEF EncodingInv, StateFollowsCall, Actors
  <1>2. DamageIsFinal'
    BY <1>1 DEF DamageIsFinal
  <1>3. SUFFICES SessionInv' /\ StateFollowsCall' /\ HandleAtHand'
    BY <1>1, <1>2 DEF EncodingInv, TypeOK, SessionInv
  <1>4. CASE Construct(t)
    <2>1. SessionInv' /\ Moved(t, "none", FALSE) /\ HandleMoves(t, FALSE, TRUE)
      BY <1>1, <1>4, ConstructKeepsSession
    <2>2. StateFollowsCall'
      BY <1>1, <2>1, StateStillFollows DEF HandleMoves, CallFitsState
    <2> QED
      BY <2>1, <2>2 DEF HandleMoves, HandleAtHand
  <1>5. CASE ConstructFails(t)
    <2>1. SessionInv' /\ Moved(t, "disowning", FALSE)
          /\ UNCHANGED <<cell, duty, native, cleanable, reachable>>
      BY <1>1, <1>5, ConstructFailsKeepsSession DEF ConstructFails, cleanupVars
    <2>2. StateFollowsCall'
      BY <1>1, <2>1, StateStillFollows DEF CallFitsState
    <2> QED
      BY <1>1, <2>1, <2>2 DEF HandleAtHand, Constructed
  <1>6. CASE Disown(t)
    <2>1. /\ SessionInv' /\ Moved(t, "none", FALSE) /\ HandleMoves(t, FALSE, FALSE)
          /\ UNCHANGED cleanable
      BY <1>1, <1>6, DisownKeepsSession
    <2>2. StateFollowsCall'
      BY <1>1, <2>1, StateStillFollows DEF HandleMoves, CallFitsState
    <2>3. cleanable = "none"
      BY <1>1, <1>6 DEF Disown, SessionInv, OpenedAlone
    <2> QED
      BY <2>1, <2>2, <2>3 DEF HandleAtHand, Constructed
  <1>7. CASE Release(t)
    <2>1. Top(t) = "abandoning" /\ state \in {"FINISHED", "FAILED"}
      BY <1>1, <1>7 DEF Release, StateFollowsCall
    <2>2. /\ SessionInv'
          /\ \/ HandleMoves(t, FALSE, FALSE) /\ Moved(t, "cleaning", FALSE)
             \/ HandleMoves(t, FALSE, TRUE) /\ Moved(t, "none", FALSE)
      BY <1>1, <1>7, <2>1, ReleaseKeepsSession DEF Moved
    <2>3. StateFollowsCall'
      BY <1>1, <2>1, <2>2, StateStillFollows DEF HandleMoves, CallFitsState
    <2> QED
      BY <2>1, <2>2, <2>3 DEF HandleAtHand
  <1>8. CASE CleanAfterRelease(t)
    <2>1. Top(t) = "cleaning" /\ state \in {"FINISHED", "FAILED"}
      BY <1>1, <1>8 DEF CleanAfterRelease, StateFollowsCall
    <2>2. SessionInv' /\ Moved(t, "none", FALSE) /\ UNCHANGED duty
      BY <1>1, <1>8, CleanKeepsSession
    <2>3. StateFollowsCall'
      BY <1>1, <2>2, StateStillFollows DEF CallFitsState
    <2> QED
      BY <2>1, <2>2, <2>3 DEF HandleAtHand
  <1> QED
    BY <1>4, <1>5, <1>6, <1>7, <1>8 DEF Common

LEMMA EncodingCleanerKeeps ==
  ASSUME EncodingInv, Drop \/ CleanerStep, UNCHANGED <<state, output>>
  PROVE  EncodingInv'
  <1>1. SessionInv /\ StateFollowsCall /\ HandleAtHand /\ DamageIsFinal /\ TypeOK
    BY DEF EncodingInv
  <1>2. DamageIsFinal'
    BY <1>1 DEF DamageIsFinal
  <1>3. /\ SessionInv' /\ Unmoved /\ ~reachable'
        /\ \A t \in Threads : Top(t) = "none"
    <2>1. CASE Drop
      <3>1. ~reachable' /\ \A t \in Threads : calls[t] = <<>>
        BY <2>1 DEF Drop
      <3>2. \A t \in Threads : Top(t) = "none"
        BY <1>1, <3>1, TopKinds DEF SessionInv
      <3> QED
        BY <1>1, <2>1, <3>1, <3>2, DropKeepsSession
    <2>2. CASE CleanerStep
      BY <1>1, <2>2, CleanerKeepsSession
    <2> QED
      BY <2>1, <2>2
  <1>4. StateFollowsCall' /\ HandleAtHand'
    BY <1>1, <1>3 DEF StateFollowsCall, HandleAtHand, Unmoved
  <1> QED
    BY <1>1, <1>2, <1>3, <1>4 DEF EncodingInv, TypeOK, SessionInv

\* Who may call, and who is in a native call, is alone in the monitor.
LEMMA AloneInMonitor ==
  ASSUME EncodingInv, NEW t \in Threads, InMonitor(t) \/ MonitorFree(t)
  PROVE  \A u \in Threads : u # t => Top(u) \notin LockedKinds
  <1>1. \A u \in Threads : u # t => ~InMonitor(u)
    BY DEF EncodingInv, SessionInv, MutualExclusion, MonitorFree, InMonitor
  <1> QED
    BY <1>1, InMonitorIs DEF EncodingInv, SessionInv

\* A write and a finish begin outside any other call.
LEMMA BeginKeeps ==
  ASSUME EncodingInv, NEW t \in Threads, BeginWrite(t) \/ BeginFinish(t)
  PROVE  EncodingInv'
  <1>1. /\ SessionInv /\ StateFollowsCall /\ HandleAtHand /\ DamageIsFinal /\ TypeOK
        /\ t \in Actors /\ \A u \in Threads : u \in Actors
    BY DEF EncodingInv, Actors
  <1>2. /\ Constructed /\ reachable /\ MonitorFree(t) /\ state = "ACTIVE" /\ cell
        /\ Enter(t, "native") /\ Top(t) = "none" /\ UNCHANGED <<native, cleanable, reachable, output>>
    BY <1>1 DEF BeginWrite, BeginFinish, CanCall, InUserCode, StateFollowsCall, cleanupVars
  <1>3. Moved(t, "native", FALSE)
    <2>1. Moved(t, "native", Top(t) = "native")
      BY <1>1, <1>2, EnterMoves DEF SessionInv, FrameKinds
    <2> QED
      BY <1>2, <2>1 DEF Moved
  <1>4. \A a \in Actors : ~duty[a]
    BY <1>1, <1>2, OneHolder DEF SessionInv
  <1>5. \A u \in Threads : u # t => Top(u) \notin LockedKinds
    BY <1>2, AloneInMonitor
  <1>6. native # "leaked"
    BY <1>1, <1>2 DEF SessionInv, LeakIsLast
  <1>7. CASE BeginWrite(t)
    <2>1. UNCHANGED <<cell, duty>> /\ state' = "WRITING"
      BY <1>7 DEF BeginWrite, cleanupVars
    <2>2. CleanupTypeOK' /\ SingleOwner' /\ LeakIsLast'
      BY <1>1, <1>2, <1>6, <2>1, HandleStays DEF SessionInv, CleanupTypeOK, LeakIsLast
    <2>3. SessionInv'
      BY <1>1, <1>2, <1>3, <1>4, <2>1, <2>2, CallKeepsSession
    <2>4. StateFollowsCall'
      BY <1>1, <1>3, <1>4, <1>5, <2>1, StateStillFollows DEF CallFitsState
    <2>5. HandleAtHand' /\ DamageIsFinal'
      BY <1>1, <1>2, <2>1 DEF HandleAtHand, DamageIsFinal
    <2> QED
      BY <1>1, <1>2, <2>1, <2>3, <2>4, <2>5 DEF EncodingInv, TypeOK, SessionInv
  <1>8. CASE BeginFinish(t)
    <2>1. state' = "FINISHING" /\ HandleMoves(t, cell, FALSE)
      BY <1>1, <1>2, <1>4, <1>8, ClaimTakes DEF BeginFinish, SessionInv, CleanupTypeOK
    <2>2. LeakIsLast'
      BY <1>2, <1>6 DEF LeakIsLast
    <2>3. SessionInv'
      BY <1>1, <1>2, <1>3, <1>4, <2>1, <2>2, CallKeepsSession DEF HandleMoves
    <2>4. StateFollowsCall'
      BY <1>1, <1>2, <1>3, <1>5, <2>1, StateStillFollows DEF HandleMoves, CallFitsState
    <2>5. HandleAtHand' /\ DamageIsFinal'
      BY <1>1, <1>2, <2>1 DEF HandleAtHand, DamageIsFinal
    <2> QED
      BY <1>1, <1>2, <2>1, <2>3, <2>4, <2>5 DEF EncodingInv, TypeOK, SessionInv
  <1> QED
    BY <1>7, <1>8

LEMMA WriteReturnsKeeps ==
  ASSUME EncodingInv, NEW t \in Threads, WriteReturns(t)
  PROVE  EncodingInv'
  <1>1. /\ SessionInv /\ StateFollowsCall /\ HandleAtHand /\ DamageIsFinal /\ TypeOK
        /\ t \in Actors /\ \A u \in Threads : u \in Actors
    BY DEF EncodingInv, Actors
  <1>2. /\ Top(t) = "native" /\ state = "WRITING" /\ state' = "ACTIVE" /\ Return(t)
        /\ UNCHANGED <<cell, duty, native, cleanable, reachable, output>> /\ ~Nested(t) /\ ~duty[t]
    BY <1>1 DEF WriteReturns, cleanupVars, StateFollowsCall
  <1>3. Moved(t, "none", FALSE)
    BY <1>1, <1>2, ReturnMoves DEF SessionInv
  <1>4. InMonitor(t) /\ reachable /\ Constructed
    BY <1>1, <1>2, InMonitorIs
       DEF SessionInv, LockedKinds, DroppedIsEmpty, OpenedAlone, Constructed
  <1>5. \A u \in Threads : u # t => Top(u) \notin LockedKinds
    BY <1>4, AloneInMonitor
  <1>6. CleanupTypeOK' /\ SingleOwner' /\ LeakIsLast'
    BY <1>1, <1>2, HandleStays DEF SessionInv, CleanupTypeOK, LeakIsLast, Holders
  <1>7. SessionInv'
    BY <1>1, <1>2, <1>3, <1>4, <1>6, CallKeepsSession
  <1>8. StateFollowsCall'
    BY <1>1, <1>2, <1>3, <1>5, StateStillFollows DEF CallFitsState
  <1>9. HandleAtHand' /\ DamageIsFinal'
    BY <1>1, <1>2 DEF HandleAtHand, DamageIsFinal, Constructed
  <1> QED
    BY <1>1, <1>2, <1>7, <1>8, <1>9 DEF EncodingInv, TypeOK, SessionInv

\* The failed write still finds the handle, and abandons the encoder.
LEMMA WriteThrowsKeeps ==
  ASSUME EncodingInv, NEW t \in Threads, WriteThrows(t)
  PROVE  EncodingInv'
  <1>1. /\ SessionInv /\ StateFollowsCall /\ HandleAtHand /\ DamageIsFinal /\ TypeOK
        /\ t \in Actors /\ \A u \in Threads : u \in Actors
    BY DEF EncodingInv, Actors
  <1>2. /\ Top(t) = "native" /\ state = "WRITING" /\ state' = "FAILED" /\ output' = "damaged"
        /\ Claim(t) /\ UNCHANGED <<native, cleanable, reachable>> /\ ~Nested(t) /\ ~duty[t]
    BY <1>1 DEF WriteThrows, Abandon, StateFollowsCall
  <1>3. InMonitor(t) /\ reachable /\ Constructed
    BY <1>1, <1>2, InMonitorIs
       DEF SessionInv, LockedKinds, DroppedIsEmpty, OpenedAlone, Constructed
  <1>4. cell /\ Become(t, "abandoning")
    BY <1>1, <1>2, <1>3 DEF HandleAtHand, WriteThrows, Abandon
  <1>5. Moved(t, "abandoning", FALSE)
    <2>1. Moved(t, "abandoning", Nested(t))
      BY <1>1, <1>2, <1>4, BecomeMoves DEF SessionInv, FrameKinds
    <2> QED
      BY <1>2, <2>1 DEF Moved
  <1>6. HandleMoves(t, cell, FALSE)
    BY <1>1, <1>2, ClaimTakes DEF SessionInv, CleanupTypeOK
  <1>7. \A u \in Threads : u # t => Top(u) \notin LockedKinds
    BY <1>3, AloneInMonitor
  <1>8. LeakIsLast'
    BY <1>1, <1>2, <1>4 DEF SessionInv, LeakIsLast
  <1>9. SessionInv'
    BY <1>1, <1>2, <1>3, <1>4, <1>5, <1>6, <1>8, CallKeepsSession DEF HandleMoves
  <1>10. StateFollowsCall'
    BY <1>1, <1>2, <1>5, <1>6, <1>7, StateStillFollows DEF HandleMoves, CallFitsState
  <1>11. HandleAtHand' /\ DamageIsFinal'
    BY <1>2 DEF HandleAtHand, DamageIsFinal
  <1> QED
    BY <1>1, <1>2, <1>9, <1>10, <1>11 DEF EncodingInv, TypeOK, SessionInv

\* The thread in finish() has the handle and the monitor.
LEMMA InFinish ==
  ASSUME EncodingInv, NEW t \in Threads, Top(t) \in {"native", "flushing"}, state = "FINISHING"
  PROVE  /\ duty[t] /\ t \in Actors /\ ~Nested(t) /\ InMonitor(t) /\ reachable /\ Constructed
         /\ ~cell /\ native # "leaked" /\ output # "damaged"
         /\ \A u \in Threads : u # t => Top(u) \notin LockedKinds
  <1>1. SessionInv /\ StateFollowsCall /\ t \in Actors
    BY DEF EncodingInv, Actors
  <1>2. duty[t] /\ ~Nested(t)
    BY <1>1 DEF StateFollowsCall
  <1>3. InMonitor(t) /\ reachable /\ Constructed
    BY <1>1, InMonitorIs DEF SessionInv, LockedKinds, DroppedIsEmpty, OpenedAlone, Constructed
  <1>4. ~cell /\ native # "leaked"
    BY <1>1, <1>2, OneHolder DEF SessionInv, LeakIsLast, Holders
  <1> QED
    BY <1>1, <1>2, <1>3, <1>4, AloneInMonitor DEF EncodingInv, DamageIsFinal

\* The native encoder is gone while its handle is still to be given up.
LEMMA FinishFlushesKeeps ==
  ASSUME EncodingInv, NEW t \in Threads, FinishFlushes(t)
  PROVE  EncodingInv'
  <1>1. /\ SessionInv /\ StateFollowsCall /\ DamageIsFinal /\ TypeOK
        /\ \A u \in Threads : u \in Actors
    BY DEF EncodingInv, Actors
  <1>2. /\ Top(t) = "native" /\ state = "FINISHING" /\ native' = "released" /\ Become(t, "flushing")
        /\ UNCHANGED <<cell, duty, cleanable, reachable, state, output>>
    BY DEF FinishFlushes
  <1>3. /\ duty[t] /\ t \in Actors /\ ~Nested(t) /\ InMonitor(t) /\ reachable /\ Constructed
    BY <1>2, InFinish
  <1>4. Moved(t, "flushing", FALSE)
    <2>1. Moved(t, "flushing", Nested(t))
      BY <1>1, <1>2, <1>3, BecomeMoves DEF SessionInv, FrameKinds
    <2> QED
      BY <1>3, <2>1 DEF Moved
  <1>5. CleanupTypeOK' /\ SingleOwner' /\ LeakIsLast'
    BY <1>1, <1>2 DEF SessionInv, CleanupTypeOK, SingleOwner, LeakIsLast, Holders
  <1>6. SessionInv'
    BY <1>1, <1>2, <1>3, <1>4, <1>5, CallKeepsSession
  <1>7. StateFollowsCall'
    BY <1>1, <1>2, <1>3, <1>4, StateStillFollows DEF CallFitsState
  <1>8. HandleAtHand' /\ DamageIsFinal'
    BY <1>1, <1>2 DEF HandleAtHand, DamageIsFinal
  <1> QED
    BY <1>1, <1>2, <1>6, <1>7, <1>8 DEF EncodingInv, TypeOK, SessionInv

LEMMA FinishReturnsKeeps ==
  ASSUME EncodingInv, NEW t \in Threads, FinishReturns(t)
  PROVE  EncodingInv'
  <1>1. /\ SessionInv /\ StateFollowsCall /\ DamageIsFinal /\ TypeOK
        /\ \A u \in Threads : u \in Actors
    BY DEF EncodingInv, Actors
  <1>2. /\ Top(t) \in {"native", "flushing"} /\ state = "FINISHING" /\ state' = "FINISHED"
        /\ output' = "complete" /\ ReleaseSucceeds(t) /\ Become(t, "cleaning")
    BY DEF FinishReturns
  <1>3. /\ duty[t] /\ t \in Actors /\ ~Nested(t) /\ InMonitor(t) /\ reachable /\ Constructed
        /\ \A u \in Threads : u # t => Top(u) \notin LockedKinds
    BY <1>2, InFinish
  <1>4. Moved(t, "cleaning", FALSE)
    <2>1. Moved(t, "cleaning", Nested(t))
      BY <1>1, <1>2, <1>3, BecomeMoves DEF SessionInv, FrameKinds
    <2> QED
      BY <1>3, <2>1 DEF Moved
  <1>5. /\ HandleMoves(t, FALSE, FALSE) /\ native' # "live" /\ UNCHANGED <<cleanable, reachable>>
        /\ \A a \in Actors : ~duty'[a]
    BY <1>1, <1>2, <1>3, ReleaseEnds DEF SessionInv
  <1>6. LeakIsLast'
    BY <1>5 DEF LeakIsLast, Holders, HandleMoves
  <1>7. SessionInv'
    BY <1>1, <1>3, <1>4, <1>5, <1>6, CallKeepsSession DEF HandleMoves
  <1>8. StateFollowsCall'
    BY <1>1, <1>2, <1>3, <1>4, <1>5, StateStillFollows DEF HandleMoves, CallFitsState
  <1>9. HandleAtHand' /\ DamageIsFinal'
    BY <1>2 DEF HandleAtHand, DamageIsFinal
  <1> QED
    BY <1>1, <1>2, <1>7, <1>8, <1>9 DEF EncodingInv, TypeOK, SessionInv

\* Native code may have consumed the handle that is released once more.
LEMMA FinishThrowsKeeps ==
  ASSUME EncodingInv, NEW t \in Threads, FinishThrows(t)
  PROVE  EncodingInv'
  <1>1. /\ SessionInv /\ StateFollowsCall /\ DamageIsFinal /\ TypeOK
        /\ \A u \in Threads : u \in Actors
    BY DEF EncodingInv, Actors
  <1>2. /\ Top(t) \in {"native", "flushing"} /\ state = "FINISHING" /\ state' = "FAILED"
        /\ output' = "damaged" /\ native' \in {"released", native} /\ Become(t, "abandoning")
        /\ UNCHANGED <<cell, duty, cleanable, reachable>>
    BY DEF FinishThrows
  <1>3. /\ duty[t] /\ t \in Actors /\ ~Nested(t) /\ InMonitor(t) /\ reachable /\ Constructed
        /\ native # "leaked" /\ \A u \in Threads : u # t => Top(u) \notin LockedKinds
    BY <1>2, InFinish
  <1>4. Moved(t, "abandoning", FALSE)
    <2>1. Moved(t, "abandoning", Nested(t))
      BY <1>1, <1>2, <1>3, BecomeMoves DEF SessionInv, FrameKinds
    <2> QED
      BY <1>3, <2>1 DEF Moved
  <1>5. CleanupTypeOK' /\ SingleOwner' /\ LeakIsLast'
    BY <1>1, <1>2, <1>3 DEF SessionInv, CleanupTypeOK, SingleOwner, LeakIsLast, Holders
  <1>6. SessionInv'
    BY <1>1, <1>2, <1>3, <1>4, <1>5, CallKeepsSession
  <1>7. StateFollowsCall'
    BY <1>1, <1>2, <1>3, <1>4, StateStillFollows DEF CallFitsState
  <1>8. HandleAtHand' /\ DamageIsFinal'
    BY <1>2 DEF HandleAtHand, DamageIsFinal
  <1> QED
    BY <1>1, <1>2, <1>6, <1>7, <1>8 DEF EncodingInv, TypeOK, SessionInv

LEMMA RetryReleaseKeeps ==
  ASSUME EncodingInv, NEW t \in Threads, RetryRelease(t)
  PROVE  EncodingInv'
  <1>1. /\ SessionInv /\ StateFollowsCall /\ DamageIsFinal /\ TypeOK
        /\ t \in Actors /\ \A u \in Threads : u \in Actors
    BY DEF EncodingInv, Actors
  <1>2. /\ Constructed /\ reachable /\ MonitorFree(t) /\ state = "FAILED" /\ Claim(t)
        /\ UNCHANGED <<native, cleanable, reachable, state, output>> /\ Top(t) = "none"
    BY <1>1 DEF RetryRelease, CanCall, InUserCode, StateFollowsCall
  <1>3. ~duty[t]
    BY <1>1, <1>2 DEF SessionInv, HolderIsReleasing
  <1>4. HandleAtHand' /\ DamageIsFinal'
    BY <1>1, <1>2 DEF HandleAtHand, DamageIsFinal
  <1>5. CASE cell
    <2>1. \A a \in Actors : ~duty[a]
      BY <1>1, <1>5, OneHolder DEF SessionInv
    <2>2. Moved(t, "abandoning", FALSE)
      <3>1. Moved(t, "abandoning", Top(t) = "native")
        BY <1>1, <1>2, <1>5, EnterMoves DEF RetryRelease, SessionInv, FrameKinds
      <3> QED
        BY <1>2, <3>1 DEF Moved
    <2>3. HandleMoves(t, cell, FALSE)
      BY <1>1, <1>2, <1>3, ClaimTakes DEF SessionInv, CleanupTypeOK
    <2>4. LeakIsLast'
      BY <1>1, <1>2, <1>5 DEF SessionInv, LeakIsLast
    <2>5. SessionInv'
      BY <1>1, <1>2, <1>5, <2>1, <2>2, <2>3, <2>4, CallKeepsSession DEF HandleMoves
    <2>6. StateFollowsCall'
      BY <1>1, <1>2, <2>2, <2>3, StateStillFollows DEF HandleMoves, CallFitsState
    <2> QED
      BY <1>1, <1>2, <1>4, <2>5, <2>6 DEF EncodingInv, TypeOK, SessionInv
  <1>6. CASE ~cell
    <2>1. UNCHANGED <<cell, duty, native, cleanable, reachable, calls>>
      BY <1>1, <1>2, <1>3, <1>6 DEF Claim, RetryRelease, SessionInv, CleanupTypeOK
    <2>2. SessionInv' /\ StateFollowsCall'
      BY <1>1, <1>2, <2>1, SessionStays DEF StateFollowsCall, Top, Nested
    <2> QED
      BY <1>1, <1>2, <1>4, <2>2 DEF EncodingInv, TypeOK, SessionInv
  <1> QED
    BY <1>5, <1>6

LEMMA EncodingInitHolds == Init => EncodingInv
  <1> SUFFICES ASSUME Init PROVE EncodingInv
    OBVIOUS
  <1>1. OpenInit /\ state = "ACTIVE" /\ output = "open"
    BY DEF Init
  <1>2. /\ SessionInv /\ cleanable = "none"
        /\ \A t \in Threads : Top(t) \in {"none", "opening"} /\ ~Nested(t)
    BY <1>1, OpenInitHolds
  <1>3. StateFollowsCall /\ HandleAtHand /\ DamageIsFinal
    BY <1>1, <1>2 DEF StateFollowsCall, HandleAtHand, DamageIsFinal, Constructed
  <1> QED
    BY <1>1, <1>2, <1>3 DEF EncodingInv, TypeOK, SessionInv

LEMMA EncodingNextKeeps == EncodingInv /\ [Next]_vars => EncodingInv'
  <1> SUFFICES ASSUME EncodingInv, [Next]_vars PROVE EncodingInv'
    OBVIOUS
  <1>1. ASSUME NEW t \in Threads, Common(t) /\ UNCHANGED <<state, output>> PROVE EncodingInv'
    BY <1>1, EncodingCommonKeeps
  <1>2. ASSUME NEW t \in Threads, BeginWrite(t) \/ BeginFinish(t) PROVE EncodingInv'
    BY <1>2, BeginKeeps
  <1>3. ASSUME NEW t \in Threads, WriteReturns(t) \/ WriteThrows(t) PROVE EncodingInv'
    BY <1>3, WriteReturnsKeeps, WriteThrowsKeeps
  <1>4. ASSUME NEW t \in Threads, FinishFlushes(t) \/ FinishReturns(t) \/ FinishThrows(t)
        PROVE  EncodingInv'
    BY <1>4, FinishFlushesKeeps, FinishReturnsKeeps, FinishThrowsKeeps
  <1>5. ASSUME NEW t \in Threads, RetryRelease(t) PROVE EncodingInv'
    BY <1>5, RetryReleaseKeeps
  <1>6. CASE (Drop \/ CleanerStep) /\ UNCHANGED <<state, output>>
    BY <1>6, EncodingCleanerKeeps
  <1>7. CASE UNCHANGED vars
    <2>1. UNCHANGED <<cell, duty, native, cleanable, reachable, calls, state, output>>
      BY <1>7 DEF vars, cleanupVars
    <2>2. SessionInv'
      BY <2>1, SessionStays DEF EncodingInv
    <2>3. StateFollowsCall' /\ HandleAtHand' /\ DamageIsFinal'
      BY <2>1 DEF EncodingInv, StateFollowsCall, HandleAtHand, DamageIsFinal, Constructed, Top,
         Nested
    <2> QED
      BY <2>1, <2>2, <2>3 DEF EncodingInv, TypeOK, SessionInv
  <1> QED
    BY <1>1, <1>2, <1>3, <1>4, <1>5, <1>6, <1>7 DEF Next

\* The inductive invariant of the encoding session.
THEOREM EncodingInvariantHolds == Spec => []EncodingInv
  BY EncodingInitHolds, EncodingNextKeeps, PTL DEF Spec

\* Two native encoder calls of one session never overlap, on two threads or
\* nested through a callback of the output.
THEOREM NativeCallsAreSingle == Spec => []OneNativeCall
  <1>1. EncodingInv => OneNativeCall
    <2> SUFFICES ASSUME EncodingInv, NEW t \in Threads, NEW u \in Threads,
                        NEW i \in DOMAIN calls[t], NEW j \in DOMAIN calls[u],
                        InNative(t, i), InNative(u, j)
                 PROVE  <<t, i>> = <<u, j>>
      BY DEF OneNativeCall
    <2>1. InMonitor(t) /\ i = 1 /\ InMonitor(u) /\ j = 1
      BY NativeInMonitor DEF EncodingInv, SessionInv
    <2> QED
      BY <2>1 DEF EncodingInv, SessionInv, MutualExclusion
  <1> QED
    BY <1>1, EncodingInvariantHolds, PTL

\* Output that a failure has damaged is never finalised or reported complete.
THEOREM DamagedOutputStays == Spec => []DamageIsFinal
  <1>1. EncodingInv => DamageIsFinal
    BY DEF EncodingInv
  <1> QED
    BY <1>1, EncodingInvariantHolds, PTL

\* A live encoder nobody is releasing is still registered with the Cleaner, also
\* after a write or a finish that failed and a release that failed after it.
THEOREM EncodingFallbackIsKept == Spec => []FallbackKept
  <1>1. EncodingInv => FallbackKept
    BY SessionKeepsFallback DEF EncodingInv
  <1> QED
    BY <1>1, EncodingInvariantHolds, PTL

LEMMA EncodingNextMaps == EncodingInv /\ EncodingInv' /\ [Next]_vars => [Ownership!Next]_Owner
  <1> SUFFICES ASSUME EncodingInv, EncodingInv', [Next]_vars PROVE [Ownership!Next]_Owner
    OBVIOUS
  <1>1. SessionInv /\ SessionInv' /\ CleanupTypeOK /\ SingleOwner /\ CleanupTypeOK' /\ SingleOwner'
    BY DEF EncodingInv, SessionInv
  <1>2. ASSUME NEW t \in Threads, Common(t) PROVE [Ownership!Next]_Owner
    BY <1>1, <1>2, CommonMaps
  <1>3. ASSUME NEW t \in Threads, BeginWrite(t) \/ WriteReturns(t) PROVE [Ownership!Next]_Owner
    BY <1>3, OwnerStays DEF BeginWrite, WriteReturns, cleanupVars
  <1>4. ASSUME NEW t \in Threads, WriteThrows(t) \/ BeginFinish(t) \/ RetryRelease(t)
        PROVE  [Ownership!Next]_Owner
    <2>1. Claim(t) /\ UNCHANGED native /\ t \in Actors
      BY <1>4 DEF WriteThrows, Abandon, BeginFinish, RetryRelease, Actors
    <2>2. ~duty[t]
      BY <1>1, <1>4, <2>1, OneHolder DEF EncodingInv, SessionInv, StateFollowsCall,
         HolderIsReleasing, WriteThrows, BeginFinish, RetryRelease, CanCall, InUserCode
    <2> QED
      BY <1>1, <2>1, <2>2, ClaimMaps
  <1>5. ASSUME NEW t \in Threads, FinishFlushes(t) \/ FinishReturns(t) \/ FinishThrows(t)
        PROVE  [Ownership!Next]_Owner
    <2>1. Top(t) \in {"native", "flushing"} /\ state = "FINISHING"
      BY <1>5 DEF FinishFlushes, FinishReturns, FinishThrows
    <2>2. duty[t] /\ t \in Actors /\ native \in {"live", "released"}
      BY <1>1, <2>1, InFinish DEF CleanupTypeOK
    <2>3. /\ native' \in {native, "released"}
          /\ native' = "live" => UNCHANGED <<cell, duty>>
      BY <1>5 DEF FinishFlushes, FinishReturns, FinishThrows, ReleaseSucceeds
    <2> QED
      BY <1>1, <2>2, <2>3, EndMaps
  <1>6. CASE Drop \/ CleanerStep
    BY <1>1, <1>6, DropOrCleanerMaps
  <1>7. CASE UNCHANGED vars
    BY <1>7, OwnerStays DEF vars, cleanupVars
  <1> QED
    BY <1>2, <1>3, <1>4, <1>5, <1>6, <1>7 DEF Next

\* The encoding session passes its native handle round like a single token,
\* although a finish that throws may leave behind a handle already consumed.
THEOREM EncodingImplementsOwnership == Spec => ImplementsOwnership
  <1>1. Init => Ownership!Init
    BY OpenInitHolds DEF Init
  <1> QED
    BY <1>1, EncodingNextMaps, EncodingInvariantHolds, PTL
       DEF Spec, ImplementsOwnership, Ownership!Spec
=============================================================================
