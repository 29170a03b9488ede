------------------------- MODULE RegistryProofs -------------------------
(***************************************************************************)
(* Proofs about DecodeRegistry and EncodeRegistry, for any number of       *)
(* threads, sessions or contexts and handles, and any depth of nested native *)
(* calls.                                                                  *)
(*                                                                         *)
(* First the decoder registry: every lemma speaks of the variables and     *)
(* sections of DecodeRegistry only.  Then EncodeRegistry: its registry     *)
(* sections are shown to be those of DecodeRegistry, whose invariant then  *)
(* holds there too; what is added is about the native objects of a context *)
(* and the handle a finish removes.                                        *)
(***************************************************************************)
EXTENDS EncodeRegistry, FiniteSetTheorems, TLAPS

(***************************************************************************)
(* The three stack operations, slot by slot.                               *)
(***************************************************************************)

\* A push fills the first empty slot of the thread and leaves the others.
LEMMA PushSlots ==
  ASSUME TypeOK, StackShape, NEW t \in Threads, NEW k \in FrameKinds \ {"none"},
         NEW s \in Sessions, Push(t, k, s)
  PROVE  /\ <<t, depth[t] + 1>> \in Slots
         /\ stack[<<t, depth[t] + 1>>] = NoFrame
         /\ stack' \in [Slots -> Frame]
         /\ depth' \in [Threads -> 0..MaxDepth]
         /\ stack'[<<t, depth[t] + 1>>] = [kind |-> k, session |-> s]
         /\ \A p \in Slots : p # <<t, depth[t] + 1>> => stack'[p] = stack[p]
         /\ StackShape'
  <1> DEFINE top == <<t, depth[t] + 1>>
  <1>1. top \in Slots /\ depth[t] \in 0..MaxDepth
    BY MaxDepthAssumption DEF TypeOK, Push, Slots, Depths
  <1>2. stack[top] = NoFrame
    BY <1>1, MaxDepthAssumption DEF StackShape, Slots, Depths
  <1>3. [kind |-> k, session |-> s] \in Frame
    BY DEF Frame
  <1>4. stack' = [stack EXCEPT ![top] = [kind |-> k, session |-> s]]
    BY DEF Push
  <1>5. stack' \in [Slots -> Frame]
    BY <1>1, <1>3, <1>4 DEF TypeOK
  <1>6. stack'[top] = [kind |-> k, session |-> s]
    BY <1>1, <1>4 DEF TypeOK
  <1>7. \A p \in Slots : p # top => stack'[p] = stack[p]
    BY <1>4 DEF TypeOK
  <1>8. depth' = [depth EXCEPT ![t] = @ + 1] /\ depth' \in [Threads -> 0..MaxDepth]
    BY MaxDepthAssumption DEF TypeOK, Push
  <1>9. StackShape'
    <2> SUFFICES ASSUME NEW u \in Threads, NEW d \in Depths
                 PROVE  (IF d <= depth[u]
                           THEN stack[<<u, d>>].kind # "none" /\ stack[<<u, d>>].session \in Sessions
                           ELSE stack[<<u, d>>] = NoFrame)'
      BY DEF StackShape
    <2>1. CASE u = t /\ d = depth[t] + 1
      BY <2>1, <1>1, <1>6, <1>8 DEF TypeOK
    <2>2. CASE ~(u = t /\ d = depth[t] + 1)
      <3>1. <<u, d>> \in Slots /\ <<u, d>> # top
        BY <2>2 DEF Slots
      <3>2. stack'[<<u, d>>] = stack[<<u, d>>]
        BY <3>1, <1>7
      <3>3. d <= depth'[u] <=> d <= depth[u]
        BY <2>2, <1>8, <1>1, MaxDepthAssumption DEF TypeOK, Depths
      <3>4. QED
        BY <3>2, <3>3 DEF StackShape
    <2>3. QED
      BY <2>1, <2>2
  <1>10. QED
    BY <1>1, <1>2, <1>5, <1>6, <1>7, <1>8, <1>9

\* Replacing the top frame changes no other slot.
LEMMA BecomeSlots ==
  ASSUME TypeOK, StackShape, NEW t \in Threads, NEW k \in FrameKinds \ {"none"},
         NEW s \in Sessions, depth[t] > 0, Become(t, k, s)
  PROVE  /\ <<t, depth[t]>> \in Slots
         /\ stack' \in [Slots -> Frame]
         /\ stack'[<<t, depth[t]>>] = [kind |-> k, session |-> s]
         /\ \A p \in Slots : p # <<t, depth[t]>> => stack'[p] = stack[p]
         /\ StackShape'
  <1> DEFINE top == <<t, depth[t]>>
  <1>1. top \in Slots /\ depth[t] \in 1..MaxDepth
    BY MaxDepthAssumption DEF TypeOK, Slots, Depths
  <1>2. [kind |-> k, session |-> s] \in Frame
    BY DEF Frame
  <1>3. stack' = [stack EXCEPT ![top] = [kind |-> k, session |-> s]] /\ depth' = depth
    BY DEF Become
  <1>4. stack' \in [Slots -> Frame] /\ stack'[top] = [kind |-> k, session |-> s]
    BY <1>1, <1>2, <1>3 DEF TypeOK
  <1>5. \A p \in Slots : p # top => stack'[p] = stack[p]
    BY <1>3 DEF TypeOK
  <1>6. StackShape'
    <2> SUFFICES ASSUME NEW u \in Threads, NEW d \in Depths
                 PROVE  (IF d <= depth[u]
                           THEN stack[<<u, d>>].kind # "none" /\ stack[<<u, d>>].session \in Sessions
                           ELSE stack[<<u, d>>] = NoFrame)'
      BY DEF StackShape
    <2>1. CASE <<u, d>> = top
      BY <2>1, <1>1, <1>3, <1>4
    <2>2. CASE <<u, d>> # top
      BY <2>2, <1>3, <1>5 DEF StackShape, Slots
    <2>3. QED
      BY <2>1, <2>2
  <1>7. QED
    BY <1>1, <1>4, <1>5, <1>6

\* A pop empties the top slot and leaves the others.
LEMMA PopSlots ==
  ASSUME TypeOK, StackShape, NEW t \in Threads, depth[t] > 0, Pop(t)
  PROVE  /\ <<t, depth[t]>> \in Slots
         /\ stack' \in [Slots -> Frame]
         /\ depth' \in [Threads -> 0..MaxDepth]
         /\ stack'[<<t, depth[t]>>] = NoFrame
         /\ \A p \in Slots : p # <<t, depth[t]>> => stack'[p] = stack[p]
         /\ StackShape'
  <1> DEFINE top == <<t, depth[t]>>
  <1>1. top \in Slots /\ depth[t] \in 1..MaxDepth
    BY MaxDepthAssumption DEF TypeOK, Slots, Depths
  <1>2. NoFrame \in Frame
    BY DEF Frame, NoFrame, FrameKinds
  <1>3. stack' = [stack EXCEPT ![top] = NoFrame]
    BY DEF Pop
  <1>4. stack' \in [Slots -> Frame] /\ stack'[top] = NoFrame
    BY <1>1, <1>2, <1>3 DEF TypeOK
  <1>5. \A p \in Slots : p # top => stack'[p] = stack[p]
    BY <1>3 DEF TypeOK
  <1>6. depth' = [depth EXCEPT ![t] = @ - 1] /\ depth' \in [Threads -> 0..MaxDepth]
    BY <1>1, MaxDepthAssumption DEF TypeOK, Pop
  <1>7. StackShape'
    <2> SUFFICES ASSUME NEW u \in Threads, NEW d \in Depths
                 PROVE  (IF d <= depth[u]
                           THEN stack[<<u, d>>].kind # "none" /\ stack[<<u, d>>].session \in Sessions
                           ELSE stack[<<u, d>>] = NoFrame)'
      BY DEF StackShape
    <2>1. CASE <<u, d>> = top
      BY <2>1, <1>1, <1>4, <1>6 DEF TypeOK
    <2>2. CASE <<u, d>> # top
      <3>1. stack'[<<u, d>>] = stack[<<u, d>>]
        BY <2>2, <1>5 DEF Slots
      <3>2. d <= depth'[u] <=> d <= depth[u]
        BY <2>2, <1>1, <1>6, MaxDepthAssumption DEF TypeOK, Depths
      <3>3. QED
        BY <3>1, <3>2 DEF StackShape
    <2>3. QED
      BY <2>1, <2>2
  <1>8. QED
    BY <1>1, <1>4, <1>5, <1>6, <1>7

(***************************************************************************)
(* One lemma per action: it preserves the inductive invariant.             *)
(***************************************************************************)

LEMMA BeginOpenKeepsInv ==
  ASSUME IInv, NEW t \in Threads, NEW s \in Sessions, BeginOpen(t, s)
  PROVE  IInv'
  <1> DEFINE top == <<t, depth[t] + 1>>
  <1> USE DEF Holds, Holding, Registered
  <1>1. /\ TypeOK /\ StackShape /\ HandlesNameOneSession /\ Accounting /\ ExclusiveUse
        /\ MemorySafe /\ SoleOpener /\ SoleDestroyer /\ Ownership /\ Issued /\ NoLeak /\ Quiescence
    BY DEF IInv
  <1>2. /\ phase = "loaded"
        /\ heap[s] = "unborn" /\ heap' = [heap EXCEPT ![s] = "allocated"]
        /\ Push(t, "opening", s)
        /\ UNCHANGED <<registry, nextHandle, fields, known, library>>
    BY DEF BeginOpen, InJava
  <1>3. /\ top \in Slots /\ stack[top] = NoFrame
        /\ stack' \in [Slots -> Frame] /\ depth' \in [Threads -> 0..MaxDepth]
        /\ stack'[top] = [kind |-> "opening", session |-> s]
        /\ \A p \in Slots : p # top => stack'[p] = stack[p]
        /\ StackShape'
    BY <1>1, <1>2, PushSlots DEF FrameKinds
  <1>4. TypeOK'
    BY <1>1, <1>2, <1>3 DEF TypeOK, fields, library
  <1>5. HandlesNameOneSession'
    BY <1>1, <1>2 DEF HandlesNameOneSession, fields
  <1>6. Accounting'
    BY <1>1, <1>2, <1>3 DEF Accounting, fields, NoFrame
  <1>7. ExclusiveUse'
    BY <1>1, <1>2, <1>3 DEF ExclusiveUse
  <1>8. MemorySafe'
    <2>1. \A r \in Sessions : heap[r] = "allocated" => heap'[r] = "allocated"
      BY <1>1, <1>2 DEF TypeOK
    <2>2. \A e \in registry : e.session \in Sessions
      BY <1>1 DEF TypeOK
    <2>3. ASSUME NEW r \in Sessions, NEW p \in Slots, Holds(p, Holding, r)'
          PROVE  heap'[r] = "allocated"
      <3>1. CASE p = top
        BY <2>3, <3>1, <1>1, <1>2, <1>3 DEF TypeOK
      <3>2. CASE p # top
        BY <2>3, <3>2, <1>1, <1>3, <2>1 DEF MemorySafe
      <3>3. QED
        BY <3>1, <3>2
    <2>4. QED
      BY <1>1, <1>2, <2>1, <2>2, <2>3 DEF MemorySafe, library, TypeOK
  <1>9. SoleOpener'
    BY <1>1, <1>2, <1>3 DEF SoleOpener, MemorySafe, library
  <1>10. SoleDestroyer'
    BY <1>1, <1>2, <1>3 DEF SoleDestroyer, MemorySafe, library
  <1>11. Ownership'
    BY <1>1, <1>2 DEF Ownership, fields, library
  <1>15. Issued'
    BY <1>1, <1>2, <1>3 DEF Issued, fields, NoFrame
  <1>12. NoLeak'
    BY <1>1, <1>2, <1>3 DEF NoLeak, library, TypeOK, NoFrame
  <1>13. Quiescence'
    BY <1>1, <1>2 DEF Quiescence, library
  <1>14. QED
    BY <1>3, <1>4, <1>5, <1>6, <1>7, <1>8, <1>9, <1>10, <1>11, <1>12, <1>13, <1>15 DEF IInv

LEMMA AbandonOpenKeepsInv ==
  ASSUME IInv, NEW t \in Threads, NEW s \in Sessions, AbandonOpen(t, s)
  PROVE  IInv'
  <1> DEFINE top == <<t, depth[t]>>
  <1> USE DEF Holds, Holding, Registered
  <1>1. /\ TypeOK /\ StackShape /\ HandlesNameOneSession /\ Accounting /\ ExclusiveUse
        /\ MemorySafe /\ SoleOpener /\ SoleDestroyer /\ Ownership /\ Issued /\ NoLeak /\ Quiescence
    BY DEF IInv
  <1>2. /\ depth[t] > 0 /\ stack[top] = [kind |-> "opening", session |-> s]
        /\ Become(t, "destroying", s) /\ depth' = depth
        /\ UNCHANGED <<registry, nextHandle, fields, heap, known, library>>
    BY DEF AbandonOpen, InFrame, Become
  <1>3. /\ top \in Slots
        /\ stack' \in [Slots -> Frame]
        /\ stack'[top] = [kind |-> "destroying", session |-> s]
        /\ \A p \in Slots : p # top => stack'[p] = stack[p]
        /\ StackShape'
    BY <1>1, <1>2, BecomeSlots DEF FrameKinds
  <1>10. TypeOK'
    BY <1>1, <1>2, <1>3 DEF TypeOK, fields, library
  <1>11. HandlesNameOneSession'
    BY <1>1, <1>2, <1>3 DEF HandlesNameOneSession
  <1>12. Accounting'
    BY <1>1, <1>2, <1>3 DEF Accounting, fields, NoFrame
  <1>13. ExclusiveUse'
    BY <1>1, <1>2, <1>3 DEF ExclusiveUse, NoFrame
  <1>14. MemorySafe'
    BY <1>1, <1>2, <1>3 DEF MemorySafe, SoleOpener, library, NoFrame
  <1>15. SoleOpener'
    BY <1>1, <1>2, <1>3 DEF SoleOpener, library, NoFrame
  <1>16. SoleDestroyer'
    BY <1>1, <1>2, <1>3 DEF SoleDestroyer, SoleOpener, library, NoFrame
  <1>17. Ownership'
    BY <1>1, <1>2, <1>3 DEF Ownership, fields, library
  <1>18. Issued'
    BY <1>1, <1>2, <1>3 DEF Issued, fields, NoFrame
  <1>19. NoLeak'
    BY <1>1, <1>2, <1>3 DEF NoLeak, library, NoFrame
  <1>20. Quiescence'
    BY <1>1, <1>2, <1>3 DEF Quiescence, library
  <1>21. QED
    BY <1>3, <1>10, <1>11, <1>12, <1>13, <1>14, <1>15, <1>16, <1>17, <1>18, <1>19, <1>20 DEF IInv

LEMMA RegisterKeepsInv ==
  ASSUME IInv, NEW t \in Threads, NEW s \in Sessions, Register(t, s)
  PROVE  IInv'
  <1> DEFINE top == <<t, depth[t]>>
  <1> USE DEF Holds, Holding, Registered
  <1>1. /\ TypeOK /\ StackShape /\ HandlesNameOneSession /\ Accounting /\ ExclusiveUse
        /\ MemorySafe /\ SoleOpener /\ SoleDestroyer /\ Ownership /\ Issued /\ NoLeak /\ Quiescence
    BY DEF IInv
  <1>2. /\ depth[t] > 0 /\ stack[top] = [kind |-> "opening", session |-> s]
        /\ refCount' = [refCount EXCEPT ![s] = 0]
        /\ released' = [released EXCEPT ![s] = FALSE]
        /\ inUse' = [inUse EXCEPT ![s] = FALSE]
        /\ Become(t, "publishing", s) /\ depth' = depth
        /\ UNCHANGED <<heap, known, library>>
    BY DEF Register, InFrame, Become
  <1>3. /\ top \in Slots
        /\ stack' \in [Slots -> Frame]
        /\ stack'[top] = [kind |-> "publishing", session |-> s]
        /\ \A p \in Slots : p # top => stack'[p] = stack[p]
        /\ StackShape'
    BY <1>1, <1>2, BecomeSlots DEF FrameKinds
  <1>4. PICK h \in Handles :
          /\ IsNextFree(h)
          /\ nextHandle' \in AfterIssuing(h)
          /\ registry' = registry \cup {[handle |-> h, session |-> s]}
          /\ handleOf' = [handleOf EXCEPT ![s] = h]
    BY DEF Register
  <1>5. registry' = registry \cup {[handle |-> h, session |-> s]}
    BY <1>4
  <1>6. /\ \A e \in registry : e.handle # h
        /\ handleOf' \in [Sessions -> Handles \cup {NoHandle}]
        /\ nextHandle' \in Handles \cup {NoHandle}
        /\ registry' \subseteq [handle : Handles, session : Sessions]
    BY <1>1, <1>4, MaxHandleAssumption
       DEF TypeOK, IsNextFree, LiveHandles, AfterIssuing, Handles, NoHandle
  <1>7. \A p \in Slots : Holds(p, Holding, s) => p = top
    <2>1. top \in Slots /\ Holds(top, {"opening"}, s)
      BY <1>2, <1>3
    <2>2. QED
      BY <1>1, <2>1 DEF SoleOpener
  <1>8. Registered(s)' /\ \A r \in Sessions : Registered(r) => Registered(r)'
    <2>1. [handle |-> h, session |-> s] \in registry'
      BY <1>5
    <2>2. [handle |-> h, session |-> s].session = s
      OBVIOUS
    <2>3. Registered(s)'
      BY <2>1, <2>2
    <2>4. QED
      BY <1>5, <2>3
  <1>10. TypeOK'
    BY <1>1, <1>2, <1>3, <1>5, <1>6 DEF TypeOK, library
  <1>11. HandlesNameOneSession'
    BY <1>1, <1>2, <1>3, <1>5, <1>6 DEF HandlesNameOneSession, SoleOpener
  <1>12. Accounting'
    <2> SUFFICES ASSUME NEW r \in Sessions
                 PROVE  (/\ inUse[r] <=> \E p \in Slots : Holds(p, {"using"}, r)
                         /\ refCount[r] = IF inUse[r] THEN 1 ELSE 0)'
      BY DEF Accounting
    <2>1. CASE r = s
      <3>1. inUse'[r] = FALSE /\ refCount'[r] = 0
        BY <2>1, <1>1, <1>2 DEF TypeOK
      <3>2. ASSUME NEW p \in Slots
            PROVE  ~Holds(p, {"using"}, r)'
        <4>1. CASE p = top
          BY <2>1, <4>1, <1>2, <1>3
        <4>2. CASE p # top
          BY <2>1, <4>2, <1>3, <1>7
        <4>3. QED
          BY <4>1, <4>2
      <3>3. QED
        BY <3>1, <3>2
    <2>2. CASE r # s
      <3>1. inUse'[r] = inUse[r] /\ refCount'[r] = refCount[r]
        BY <2>2, <1>1, <1>2 DEF TypeOK
      <3>2. \A p \in Slots : Holds(p, {"using"}, r)' <=> Holds(p, {"using"}, r)
        BY <2>2, <1>2, <1>3
      <3>3. QED
        BY <3>1, <3>2, <1>1 DEF Accounting
    <2>3. QED
      BY <2>1, <2>2
  <1>13. ExclusiveUse'
    BY <1>1, <1>2, <1>3 DEF ExclusiveUse, NoFrame
  <1>14. MemorySafe'
    BY <1>1, <1>2, <1>3, <1>5 DEF MemorySafe, library
  <1>15. SoleOpener'
    BY <1>1, <1>2, <1>3, <1>5 DEF SoleOpener, library
  <1>16. SoleDestroyer'
    BY <1>1, <1>2, <1>3, <1>5 DEF SoleDestroyer, SoleOpener, library
  <1>17. Ownership'
    BY <1>1, <1>2, <1>3, <1>5, <1>6 DEF Ownership, SoleOpener, library, TypeOK
  <1>18. Issued'
    <2>1. /\ h # NoHandle /\ handleOf'[s] = h
          /\ \A r \in Sessions : r # s => handleOf'[r] = handleOf[r]
      BY <1>1, <1>4 DEF TypeOK, Handles, NoHandle
    <2>2. heap[s] = "allocated" /\ \A e \in registry : e.session \in Sessions \ {s}
      BY <1>1, <1>2, <1>3 DEF MemorySafe, SoleOpener, TypeOK
    <2>3. \A e \in registry' : handleOf'[e.session] = e.handle
      BY <1>1, <1>5, <2>1, <2>2 DEF Issued
    <2>4. ASSUME NEW r \in Sessions, NEW p \in Slots
          PROVE  (/\ Holds(p, {"publishing", "using"}, r) => handleOf[r] # NoHandle
                  /\ Holds(p, {"opening"}, r) => handleOf[r] = NoHandle)'
      <3>1. CASE p = top
        BY <3>1, <1>3, <2>1
      <3>2. CASE p # top
        <4>1. r = s => ~Holds(p, {"opening"}, r)'
          BY <3>2, <1>3, <1>7
        <4>2. QED
          BY <3>2, <4>1, <1>1, <1>3, <2>1 DEF Issued
      <3>3. QED
        BY <3>1, <3>2
    <2>5. \A r \in Sessions : heap'[r] = "unborn" => handleOf'[r] = NoHandle
      BY <1>1, <1>2, <2>1, <2>2 DEF Issued
    <2>6. QED
      BY <2>3, <2>4, <2>5 DEF Issued
  <1>19. NoLeak'
    BY <1>1, <1>2, <1>3, <1>8 DEF NoLeak, library
  <1>20. Quiescence'
    BY <1>1, <1>2 DEF Quiescence, library, TypeOK
  <1>21. QED
    BY <1>3, <1>10, <1>11, <1>12, <1>13, <1>14, <1>15, <1>16, <1>17, <1>18, <1>19, <1>20 DEF IInv

\* Popping a publishing frame, whether the open returns the handle or not.
LEMMA PopNonHolderKeepsInv ==
  ASSUME IInv, NEW t \in Threads, NEW s \in Sessions, depth[t] > 0,
         stack[<<t, depth[t]>>] = [kind |-> "publishing", session |-> s], Pop(t),
         known' \subseteq Handles, UNCHANGED <<registry, nextHandle, fields, heap, library>>
  PROVE  IInv'
  <1> DEFINE top == <<t, depth[t]>>
  <1> USE DEF Holds, Holding, Registered
  <1>1. /\ TypeOK /\ StackShape /\ HandlesNameOneSession /\ Accounting /\ ExclusiveUse
        /\ MemorySafe /\ SoleOpener /\ SoleDestroyer /\ Ownership /\ Issued /\ NoLeak /\ Quiescence
    BY DEF IInv
  <1>2. /\ depth[t] > 0 /\ stack[top] = [kind |-> "publishing", session |-> s]
        /\ UNCHANGED <<registry, nextHandle, fields, heap, library>>
    OBVIOUS
  <1>3. /\ top \in Slots
        /\ stack' \in [Slots -> Frame] /\ depth' \in [Threads -> 0..MaxDepth]
        /\ stack'[top] = NoFrame
        /\ \A p \in Slots : p # top => stack'[p] = stack[p]
        /\ StackShape'
    BY <1>1, <1>2, PopSlots
  <1>10. TypeOK'
    BY <1>1, <1>2, <1>3 DEF TypeOK, fields, library
  <1>11. HandlesNameOneSession'
    BY <1>1, <1>2, <1>3 DEF HandlesNameOneSession
  <1>12. Accounting'
    BY <1>1, <1>2, <1>3 DEF Accounting, fields, NoFrame
  <1>13. ExclusiveUse'
    BY <1>1, <1>2, <1>3 DEF ExclusiveUse, NoFrame
  <1>14. MemorySafe'
    BY <1>1, <1>2, <1>3 DEF MemorySafe, SoleOpener, library, NoFrame
  <1>15. SoleOpener'
    BY <1>1, <1>2, <1>3 DEF SoleOpener, library, NoFrame
  <1>16. SoleDestroyer'
    BY <1>1, <1>2, <1>3 DEF SoleDestroyer, SoleOpener, library, NoFrame
  <1>17. Ownership'
    BY <1>1, <1>2, <1>3 DEF Ownership, fields, library
  <1>18. Issued'
    BY <1>1, <1>2, <1>3 DEF Issued, fields, NoFrame
  <1>19. NoLeak'
    BY <1>1, <1>2, <1>3 DEF NoLeak, library, NoFrame
  <1>20. Quiescence'
    BY <1>1, <1>2, <1>3, MaxDepthAssumption DEF Quiescence, library, TypeOK
  <1>21. QED
    BY <1>3, <1>10, <1>11, <1>12, <1>13, <1>14, <1>15, <1>16, <1>17, <1>18, <1>19, <1>20 DEF IInv

LEMMA PublishKeepsInv ==
  ASSUME IInv, NEW t \in Threads, NEW s \in Sessions, Publish(t, s)
  PROVE  IInv'
  <1> DEFINE top == <<t, depth[t]>>
  <1>1. TypeOK /\ Issued
    BY DEF IInv
  <1>2. /\ depth[t] > 0 /\ stack[top] = [kind |-> "publishing", session |-> s]
        /\ Pop(t) /\ known' = known \cup {handleOf[s]}
        /\ UNCHANGED <<registry, nextHandle, fields, heap, library>>
    BY DEF Publish, InFrame
  <1>3. top \in Slots
    BY <1>1, <1>2, MaxDepthAssumption DEF TypeOK, Slots, Depths
  <1>4. known' \subseteq Handles
    BY <1>1, <1>2, <1>3 DEF TypeOK, Issued, Holds
  <1>5. QED
    BY <1>2, <1>4, PopNonHolderKeepsInv

\* remove_decode_session, for either of its callers: slot top held nothing and
\* afterwards holds the destruction if remove handed the session over.
LEMMA UnlinkKeepsInv ==
  ASSUME IInv, NEW e \in registry, Unlink(e), UNCHANGED <<heap, known, library>>,
         NEW top \in Slots, stack[top].kind \notin Holding,
         stack' \in [Slots -> Frame], depth' \in [Threads -> 0..MaxDepth], StackShape',
         \A p \in Slots : p # top => stack'[p] = stack[p],
         IF DestroyOnRemove(e.session)
           THEN stack'[top] = [kind |-> "destroying", session |-> e.session]
           ELSE stack'[top] = NoFrame
  PROVE  IInv'
  <1> DEFINE x == e.session
  <1> USE DEF Holds, Holding, Registered
  <1>1. /\ TypeOK /\ StackShape /\ HandlesNameOneSession /\ Accounting /\ ExclusiveUse
        /\ MemorySafe /\ SoleOpener /\ SoleDestroyer /\ Ownership /\ Issued /\ NoLeak /\ Quiescence
    BY DEF IInv
  <1>2. /\ x \in Sessions
        /\ registry' = registry \ {e}
        /\ released' = [released EXCEPT ![x] = TRUE]
        /\ UNCHANGED <<nextHandle, refCount, inUse, handleOf, heap, known, phase, detached>>
    BY <1>1 DEF TypeOK, Unlink, library
  <1>3. \A p \in Slots : p # top => stack'[p] = stack[p]
    OBVIOUS
  <1>4. /\ refCount[x] = 0 => stack'[top] = [kind |-> "destroying", session |-> x]
        /\ refCount[x] # 0 => stack'[top] = NoFrame
        /\ stack[top].kind \notin Holding
    BY DEF DestroyOnRemove
  <1>5. \A f \in registry : f.session = x => f = e
    BY <1>1 DEF HandlesNameOneSession
  <1>6. ~Registered(x)' /\ \A r \in Sessions : r # x => (Registered(r)' <=> Registered(r))
    BY <1>2, <1>5
  <1>7. \A p \in Slots : /\ ~Holds(p, {"opening"}, x)
                         /\ ~Holds(p, {"destroying"}, x)
    <2>1. Registered(x)
      OBVIOUS
    <2>2. QED
      BY <2>1, <1>1, <1>2 DEF SoleOpener, SoleDestroyer
  <1>8. refCount[x] = 0 => \A p \in Slots : ~Holds(p, {"using"}, x)
    BY <1>1, <1>2 DEF Accounting
  <1>9. x \notin detached /\ heap[x] = "allocated" /\ phase = "loaded"
    BY <1>1 DEF Ownership, MemorySafe, Quiescence
  <1>10. TypeOK'
    BY <1>1, <1>2 DEF TypeOK
  <1>11. HandlesNameOneSession'
    BY <1>1, <1>2 DEF HandlesNameOneSession
  <1>12. Accounting'
    BY <1>1, <1>2, <1>3, <1>4 DEF Accounting, NoFrame
  <1>13. ExclusiveUse'
    BY <1>1, <1>3, <1>4 DEF ExclusiveUse, NoFrame
  <1>14. MemorySafe'
    BY <1>1, <1>2, <1>3, <1>4, <1>9 DEF MemorySafe, NoFrame
  <1>15. SoleOpener'
    BY <1>1, <1>2, <1>3, <1>4, <1>6, <1>7 DEF SoleOpener, NoFrame
  <1>16. SoleDestroyer'
    BY <1>1, <1>2, <1>3, <1>4, <1>6, <1>7, <1>8, <1>9 DEF SoleDestroyer, NoFrame
  <1>17. Ownership'
    BY <1>1, <1>2, <1>5, <1>6 DEF Ownership, TypeOK
  <1>18. Issued'
    BY <1>1, <1>2, <1>3, <1>4 DEF Issued, NoFrame
  <1>19. NoLeak'
    <2> SUFFICES ASSUME NEW r \in Sessions, heap[r] = "allocated"
                 PROVE  Registered(r)' \/ r \in detached \/ \E p \in Slots : Holds(p, Holding, r)'
      BY <1>2 DEF NoLeak
    <2>1. CASE r = x /\ refCount[x] = 0
      BY <2>1, <1>4
    <2>2. CASE r = x /\ refCount[x] # 0
      <3>1. PICK p \in Slots : Holds(p, {"using"}, x)
        BY <2>2, <1>1, <1>2 DEF Accounting
      <3>2. QED
        BY <2>2, <3>1, <1>3, <1>4
    <2>3. CASE r # x
      BY <2>3, <1>1, <1>3, <1>4, <1>6 DEF NoLeak
    <2>4. QED
      BY <2>1, <2>2, <2>3
  <1>20. Quiescence'
    BY <1>2, <1>9, <1>1 DEF Quiescence
  <1>21. QED
    BY <1>10, <1>11, <1>12, <1>13, <1>14, <1>15, <1>16, <1>17, <1>18, <1>19, <1>20 DEF IInv

LEMMA ReleaseDecoderKeepsInv ==
  ASSUME IInv, NEW t \in Threads, NEW h \in Handles, ReleaseDecoder(t, h)
  PROVE  IInv'
  <1> DEFINE top == <<t, depth[t] + 1>>
  <1>1. TypeOK /\ StackShape
    BY DEF IInv
  <1>2. depth[t] < MaxDepth /\ UNCHANGED <<heap, known, library>>
    BY DEF ReleaseDecoder
  <1>3. PICK e \in registry :
          /\ Unlink(e)
          /\ IF DestroyOnRemove(e.session)
               THEN Push(t, "destroying", e.session)
               ELSE UNCHANGED <<stack, depth>>
    BY DEF ReleaseDecoder
  <1>4. e.session \in Sessions
    BY <1>1 DEF TypeOK
  <1>5. top \in Slots /\ stack[top] = NoFrame
    BY <1>1, <1>2, MaxDepthAssumption DEF TypeOK, StackShape, Slots, Depths
  <1>6. stack[top].kind \notin Holding
    BY <1>5 DEF NoFrame, Holding
  <1>7. CASE DestroyOnRemove(e.session)
    <2>1. Push(t, "destroying", e.session)
      BY <1>3, <1>7
    <2>2. /\ stack' \in [Slots -> Frame] /\ depth' \in [Threads -> 0..MaxDepth]
          /\ stack'[top] = [kind |-> "destroying", session |-> e.session]
          /\ \A p \in Slots : p # top => stack'[p] = stack[p]
          /\ StackShape'
      BY <2>1, <1>1, <1>4, PushSlots DEF FrameKinds
    <2>3. QED
      BY <2>2, <1>2, <1>3, <1>5, <1>6, <1>7, UnlinkKeepsInv
  <1>8. CASE ~DestroyOnRemove(e.session)
    <2>1. UNCHANGED <<stack, depth>>
      BY <1>3, <1>8
    <2>2. stack' \in [Slots -> Frame] /\ depth' \in [Threads -> 0..MaxDepth] /\ StackShape'
      BY <2>1, <1>1 DEF TypeOK, StackShape
    <2>3. stack'[top] = NoFrame /\ \A p \in Slots : p # top => stack'[p] = stack[p]
      BY <2>1, <1>5
    <2>4. QED
      BY <2>2, <2>3, <1>2, <1>3, <1>5, <1>6, <1>8, UnlinkKeepsInv
  <1>9. QED
    BY <1>7, <1>8

LEMMA PublishFailsKeepsInv ==
  ASSUME IInv, NEW t \in Threads, NEW s \in Sessions, PublishFails(t, s)
  PROVE  IInv'
  <1> DEFINE top == <<t, depth[t]>>
  <1>1. TypeOK /\ StackShape
    BY DEF IInv
  <1>2. /\ depth[t] > 0 /\ stack[top] = [kind |-> "publishing", session |-> s]
        /\ UNCHANGED <<heap, known, library>>
    BY DEF PublishFails, InFrame
  <1>3. top \in Slots /\ stack[top].kind \notin Holding
    BY <1>1, <1>2, MaxDepthAssumption DEF TypeOK, Slots, Depths, Holding
  <1>4. ASSUME NEW e \in registry, Unlink(e),
               IF DestroyOnRemove(e.session) THEN Become(t, "destroying", e.session) ELSE Pop(t)
        PROVE  IInv'
    <2>1. e.session \in Sessions
      BY <1>1 DEF TypeOK
    <2>2. CASE DestroyOnRemove(e.session)
      <3>1. Become(t, "destroying", e.session)
        BY <1>4, <2>2
      <3>2. /\ stack' \in [Slots -> Frame]
            /\ stack'[top] = [kind |-> "destroying", session |-> e.session]
            /\ \A p \in Slots : p # top => stack'[p] = stack[p]
            /\ StackShape'
        BY <3>1, <2>1, <1>1, <1>2, BecomeSlots DEF FrameKinds
      <3>3. depth' \in [Threads -> 0..MaxDepth]
        BY <3>1, <1>1 DEF Become, TypeOK
      <3>4. QED
        BY <3>2, <3>3, <1>2, <1>3, <1>4, <2>2, UnlinkKeepsInv
    <2>3. CASE ~DestroyOnRemove(e.session)
      <3>1. Pop(t)
        BY <1>4, <2>3
      <3>2. /\ stack' \in [Slots -> Frame] /\ depth' \in [Threads -> 0..MaxDepth]
            /\ stack'[top] = NoFrame
            /\ \A p \in Slots : p # top => stack'[p] = stack[p]
            /\ StackShape'
        BY <3>1, <1>1, <1>2, PopSlots
      <3>3. QED
        BY <3>2, <1>2, <1>3, <1>4, <2>3, UnlinkKeepsInv
    <2>4. QED
      BY <2>2, <2>3
  <1>5. ASSUME Pop(t), UNCHANGED <<registry, nextHandle, fields>>
        PROVE  IInv'
    BY <1>1, <1>2, <1>5, PopNonHolderKeepsInv DEF TypeOK
  <1>6. QED
    BY <1>4, <1>5 DEF PublishFails

LEMMA AcquireKeepsInv ==
  ASSUME IInv, NEW t \in Threads, NEW h \in Handles, Acquire(t, h)
  PROVE  IInv'
  <1> DEFINE top == <<t, depth[t] + 1>>
  <1> USE DEF Holds, Holding, Registered
  <1>1. /\ TypeOK /\ StackShape /\ HandlesNameOneSession /\ Accounting /\ ExclusiveUse
        /\ MemorySafe /\ SoleOpener /\ SoleDestroyer /\ Ownership /\ Issued /\ NoLeak /\ Quiescence
    BY DEF IInv
  <1>2. PICK e \in registry :
          /\ ~released[e.session] /\ ~inUse[e.session]
          /\ refCount' = [refCount EXCEPT ![e.session] = @ + 1]
          /\ inUse' = [inUse EXCEPT ![e.session] = TRUE]
          /\ Push(t, "using", e.session)
    BY DEF Acquire, MayAcquire
  <1> DEFINE x == e.session
  <1>3. /\ UNCHANGED <<registry, nextHandle, released, handleOf, heap, known, phase, detached>>
        /\ phase = "loaded"
    BY DEF Acquire, MayAcquire, InJava, library
  <1>4. x \in Sessions /\ Registered(x) /\ heap[x] = "allocated" /\ x \notin detached
    BY <1>1 DEF TypeOK, MemorySafe, Ownership
  <1>5. /\ top \in Slots /\ stack[top] = NoFrame
        /\ stack' \in [Slots -> Frame] /\ depth' \in [Threads -> 0..MaxDepth]
        /\ stack'[top] = [kind |-> "using", session |-> x]
        /\ \A p \in Slots : p # top => stack'[p] = stack[p]
        /\ StackShape'
    BY <1>1, <1>2, <1>4, PushSlots DEF FrameKinds
  <1>6. /\ inUse[x] = FALSE /\ refCount[x] = 0
        /\ \A p \in Slots : ~Holds(p, Holding, x)
    BY <1>1, <1>2, <1>4 DEF TypeOK, Accounting, SoleOpener, SoleDestroyer
  <1>7. /\ inUse'[x] = TRUE /\ refCount'[x] = 1
        /\ \A r \in Sessions : r # x => inUse'[r] = inUse[r] /\ refCount'[r] = refCount[r]
    BY <1>1, <1>2, <1>4, <1>6 DEF TypeOK
  <1>10. TypeOK'
    BY <1>1, <1>2, <1>3, <1>5 DEF TypeOK
  <1>11. HandlesNameOneSession'
    BY <1>1, <1>3 DEF HandlesNameOneSession
  <1>12. Accounting'
    <2> SUFFICES ASSUME NEW r \in Sessions
                 PROVE  (/\ inUse[r] <=> \E p \in Slots : Holds(p, {"using"}, r)
                         /\ refCount[r] = IF inUse[r] THEN 1 ELSE 0)'
      BY DEF Accounting
    <2>1. CASE r = x
      BY <2>1, <1>5, <1>7
    <2>2. CASE r # x
      <3>1. \A p \in Slots : Holds(p, {"using"}, r)' <=> Holds(p, {"using"}, r)
        BY <2>2, <1>5 DEF NoFrame
      <3>2. QED
        BY <2>2, <3>1, <1>1, <1>7 DEF Accounting
    <2>3. QED
      BY <2>1, <2>2
  <1>13. ExclusiveUse'
    BY <1>1, <1>4, <1>5, <1>6 DEF ExclusiveUse
  <1>14. MemorySafe'
    BY <1>1, <1>3, <1>4, <1>5 DEF MemorySafe
  <1>15. SoleOpener'
    BY <1>1, <1>3, <1>4, <1>5, <1>6 DEF SoleOpener
  <1>16. SoleDestroyer'
    BY <1>1, <1>3, <1>4, <1>5, <1>6 DEF SoleDestroyer
  <1>17. Ownership'
    BY <1>1, <1>3, <1>4, <1>7 DEF Ownership
  <1>18. Issued'
    <2>1. handleOf[x] # NoHandle
      BY <1>1 DEF Issued, TypeOK, Handles, NoHandle
    <2>2. QED
      BY <2>1, <1>1, <1>3, <1>5 DEF Issued
  <1>19. NoLeak'
    BY <1>1, <1>3, <1>5 DEF NoLeak, NoFrame
  <1>20. Quiescence'
    BY <1>1, <1>3 DEF Quiescence
  <1>21. QED
    BY <1>5, <1>10, <1>11, <1>12, <1>13, <1>14, <1>15, <1>16, <1>17, <1>18, <1>19, <1>20 DEF IInv

LEMMA ReleaseReferenceKeepsInv ==
  ASSUME IInv, NEW t \in Threads, NEW s \in Sessions, ReleaseReference(t, s)
  PROVE  IInv'
  <1> DEFINE top == <<t, depth[t]>>
  <1> USE DEF Holds, Holding, Registered
  <1>1. /\ TypeOK /\ StackShape /\ HandlesNameOneSession /\ Accounting /\ ExclusiveUse
        /\ MemorySafe /\ SoleOpener /\ SoleDestroyer /\ Ownership /\ Issued /\ NoLeak /\ Quiescence
    BY DEF IInv
  <1>2. /\ depth[t] > 0 /\ stack[top] = [kind |-> "using", session |-> s]
        /\ refCount' = [refCount EXCEPT ![s] = Decremented(s)]
        /\ inUse' = [inUse EXCEPT ![s] = FALSE]
        /\ IF DestroyOnRelease(s) THEN Become(t, "destroying", s) ELSE Pop(t)
        /\ UNCHANGED <<registry, nextHandle, released, handleOf, heap, known, phase, detached>>
    BY DEF ReleaseReference, InFrame, library
  <1>3. top \in Slots
    BY <1>1, <1>2, MaxDepthAssumption DEF TypeOK, Slots, Depths
  <1>4. /\ refCount[s] = 1 /\ inUse[s]
        /\ \A p \in Slots : Holds(p, {"using"}, s) => p = top
    BY <1>1, <1>2, <1>3 DEF Accounting, ExclusiveUse
  <1>5. \A p \in Slots : ~Holds(p, {"opening", "destroying"}, s)
    BY <1>1, <1>2, <1>3 DEF SoleOpener, SoleDestroyer
  <1>6. Decremented(s) = 0 /\ (DestroyOnRelease(s) <=> released[s])
    BY <1>1, <1>4 DEF Decremented, DestroyOnRelease, TypeOK
  <1>7. /\ stack' \in [Slots -> Frame] /\ depth' \in [Threads -> 0..MaxDepth]
        /\ IF released[s] THEN stack'[top] = [kind |-> "destroying", session |-> s]
                          ELSE stack'[top] = NoFrame
        /\ \A p \in Slots : p # top => stack'[p] = stack[p]
        /\ StackShape'
    <2>1. CASE released[s]
      <3>1. Become(t, "destroying", s) /\ depth' = depth
        BY <2>1, <1>2, <1>6 DEF Become
      <3>2. QED
        BY <3>1, <2>1, <1>1, <1>2, BecomeSlots DEF FrameKinds, TypeOK
    <2>2. CASE ~released[s]
      <3>1. Pop(t)
        BY <2>2, <1>2, <1>6
      <3>2. QED
        BY <3>1, <2>2, <1>1, <1>2, PopSlots
    <2>3. QED
      BY <2>1, <2>2
  <1>8. /\ inUse'[s] = FALSE /\ refCount'[s] = 0
        /\ \A r \in Sessions : r # s => inUse'[r] = inUse[r] /\ refCount'[r] = refCount[r]
    BY <1>1, <1>2, <1>6 DEF TypeOK
  <1>9. /\ Registered(s) => ~released[s]
        /\ released[s] => ~Registered(s) /\ s \notin detached
        /\ heap[s] = "allocated"
    <2>1. heap[s] = "allocated" /\ (Registered(s) => ~released[s])
      BY <1>1, <1>2, <1>3 DEF MemorySafe, Ownership
    <2>2. s \notin detached
      BY <1>1, <1>2, <1>3 DEF Quiescence
    <2>3. QED
      BY <2>1, <2>2
  <1>10. TypeOK'
    BY <1>1, <1>2, <1>6, <1>7 DEF TypeOK
  <1>11. HandlesNameOneSession'
    BY <1>1, <1>2 DEF HandlesNameOneSession
  <1>12. Accounting'
    <2> SUFFICES ASSUME NEW r \in Sessions
                 PROVE  (/\ inUse[r] <=> \E p \in Slots : Holds(p, {"using"}, r)
                         /\ refCount[r] = IF inUse[r] THEN 1 ELSE 0)'
      BY DEF Accounting
    <2>1. CASE r = s
      BY <2>1, <1>4, <1>7, <1>8 DEF NoFrame
    <2>2. CASE r # s
      <3>1. \A p \in Slots : Holds(p, {"using"}, r)' <=> Holds(p, {"using"}, r)
        BY <2>2, <1>2, <1>7 DEF NoFrame
      <3>2. QED
        BY <2>2, <3>1, <1>1, <1>8 DEF Accounting
    <2>3. QED
      BY <2>1, <2>2
  <1>13. ExclusiveUse'
    BY <1>1, <1>7 DEF ExclusiveUse, NoFrame
  <1>14. MemorySafe'
    BY <1>1, <1>2, <1>7, <1>9 DEF MemorySafe, NoFrame
  <1>15. SoleOpener'
    BY <1>1, <1>2, <1>5, <1>7 DEF SoleOpener, NoFrame
  <1>16. SoleDestroyer'
    BY <1>1, <1>2, <1>4, <1>5, <1>7, <1>9 DEF SoleDestroyer, NoFrame
  <1>17. Ownership'
    BY <1>1, <1>2, <1>8 DEF Ownership
  <1>18. Issued'
    BY <1>1, <1>2, <1>7 DEF Issued, NoFrame
  <1>19. NoLeak'
    <2> SUFFICES ASSUME NEW r \in Sessions, heap[r] = "allocated"
                 PROVE  Registered(r) \/ r \in detached \/ \E p \in Slots : Holds(p, Holding, r)'
      BY <1>2 DEF NoLeak
    <2>1. CASE r = s
      BY <2>1, <1>1, <1>3, <1>4, <1>7 DEF Ownership
    <2>2. CASE r # s
      BY <2>2, <1>1, <1>2, <1>7 DEF NoLeak
    <2>3. QED
      BY <2>1, <2>2
  <1>20. Quiescence'
    BY <1>1, <1>2 DEF Quiescence
  <1>21. QED
    BY <1>7, <1>10, <1>11, <1>12, <1>13, <1>14, <1>15, <1>16, <1>17, <1>18, <1>19, <1>20 DEF IInv

LEMMA DestroyKeepsInv ==
  ASSUME IInv, NEW t \in Threads, NEW s \in Sessions, Destroy(t, s)
  PROVE  IInv'
  <1> DEFINE top == <<t, depth[t]>>
  <1> USE DEF Holds, Holding, Registered
  <1>1. /\ TypeOK /\ StackShape /\ HandlesNameOneSession /\ Accounting /\ ExclusiveUse
        /\ MemorySafe /\ SoleOpener /\ SoleDestroyer /\ Ownership /\ Issued /\ NoLeak /\ Quiescence
    BY DEF IInv
  <1>2. /\ depth[t] > 0 /\ stack[top] = [kind |-> "destroying", session |-> s]
        /\ heap' = [heap EXCEPT ![s] = "freed"]
        /\ Pop(t)
        /\ UNCHANGED <<registry, nextHandle, fields, known, library>>
    BY DEF Destroy, InFrame
  <1>3. /\ top \in Slots
        /\ stack' \in [Slots -> Frame] /\ depth' \in [Threads -> 0..MaxDepth]
        /\ stack'[top] = NoFrame
        /\ \A p \in Slots : p # top => stack'[p] = stack[p]
        /\ StackShape'
    BY <1>1, <1>2, PopSlots
  <1>4. /\ \A p \in Slots : Holds(p, Holding, s) => p = top
        /\ ~Registered(s) /\ s \notin detached
    BY <1>1, <1>2, <1>3 DEF SoleDestroyer
  <1>5. heap'[s] = "freed" /\ \A r \in Sessions : r # s => heap'[r] = heap[r]
    BY <1>1, <1>2 DEF TypeOK
  <1>10. TypeOK'
    BY <1>1, <1>2, <1>3 DEF TypeOK, fields, library
  <1>11. HandlesNameOneSession'
    BY <1>1, <1>2 DEF HandlesNameOneSession
  <1>12. Accounting'
    BY <1>1, <1>2, <1>3 DEF Accounting, NoFrame, fields
  <1>13. ExclusiveUse'
    BY <1>1, <1>3 DEF ExclusiveUse, NoFrame
  <1>14. MemorySafe'
    <2>1. \A r \in Sessions, p \in Slots : Holds(p, Holding, r)' => heap'[r] = "allocated"
      BY <1>1, <1>3, <1>4, <1>5 DEF MemorySafe, NoFrame
    <2>2. \A e \in registry : e.session \in Sessions /\ e.session # s
      BY <1>1, <1>4 DEF TypeOK
    <2>3. QED
      BY <1>1, <1>2, <1>4, <1>5, <2>1, <2>2 DEF MemorySafe, TypeOK, library
  <1>15. SoleOpener'
    BY <1>1, <1>2, <1>3 DEF SoleOpener, NoFrame, library
  <1>16. SoleDestroyer'
    BY <1>1, <1>2, <1>3 DEF SoleDestroyer, NoFrame, library
  <1>17. Ownership'
    BY <1>1, <1>2 DEF Ownership, fields, library
  <1>18. Issued'
    BY <1>1, <1>2, <1>3, <1>5 DEF Issued, NoFrame, fields
  <1>19. NoLeak'
    BY <1>1, <1>2, <1>3, <1>5 DEF NoLeak, library, NoFrame
  <1>20. Quiescence'
    BY <1>1, <1>2 DEF Quiescence, library
  <1>21. QED
    BY <1>3, <1>10, <1>11, <1>12, <1>13, <1>14, <1>15, <1>16, <1>17, <1>18, <1>19, <1>20 DEF IInv

LEMMA UnloadKeepsInv ==
  ASSUME IInv, Unload
  PROVE  IInv'
  <1> USE DEF Holds, Holding, Registered
  <1>1. /\ TypeOK /\ StackShape /\ HandlesNameOneSession /\ Accounting /\ ExclusiveUse
        /\ MemorySafe /\ SoleOpener /\ SoleDestroyer /\ Ownership /\ Issued /\ NoLeak /\ Quiescence
    BY DEF IInv
  <1>2. /\ phase = "loaded" /\ phase' = "unloading"
        /\ \A t \in Threads : depth[t] = 0
        /\ detached' = {e.session : e \in registry}
        /\ registry' = {}
        /\ UNCHANGED <<nextHandle, refCount, released, inUse, handleOf, heap, stack, depth, known>>
    BY DEF Unload, TakenFromRegistry, fields
  <1>3. \A p \in Slots : stack[p] = NoFrame
    BY <1>1, <1>2 DEF StackShape, Slots, Depths
  <1>4. \A p \in Slots, r \in Sessions : ~Holds(p, FrameKinds \ {"none"}, r)
    BY <1>3 DEF NoFrame
  <1>5. \A r \in Sessions : ~inUse[r] /\ refCount[r] = 0
    BY <1>1, <1>3 DEF Accounting, NoFrame
  <1>6. detached = {}
    BY <1>1, <1>2 DEF Quiescence
  <1>10. TypeOK'
    BY <1>1, <1>2 DEF TypeOK
  <1>11. StackShape'
    BY <1>1, <1>2 DEF StackShape
  <1>12. HandlesNameOneSession'
    BY <1>2 DEF HandlesNameOneSession
  <1>13. Accounting' /\ ExclusiveUse'
    BY <1>1, <1>2 DEF Accounting, ExclusiveUse
  <1>14. MemorySafe'
    BY <1>1, <1>2 DEF MemorySafe
  <1>15. SoleOpener' /\ SoleDestroyer'
    BY <1>2, <1>3 DEF SoleOpener, SoleDestroyer, NoFrame
  <1>16. Ownership'
    BY <1>2, <1>5 DEF Ownership
  <1>17. Issued'
    BY <1>1, <1>2 DEF Issued
  <1>18. NoLeak'
    BY <1>1, <1>2, <1>3, <1>6 DEF NoLeak, NoFrame
  <1>19. Quiescence'
    BY <1>2 DEF Quiescence
  <1>20. QED
    BY <1>10, <1>11, <1>12, <1>13, <1>14, <1>15, <1>16, <1>17, <1>18, <1>19 DEF IInv

LEMMA DestroyDetachedKeepsInv ==
  ASSUME IInv, NEW s \in Sessions, DestroyDetached(s)
  PROVE  IInv'
  <1> USE DEF Holds, Holding, Registered
  <1>1. /\ TypeOK /\ StackShape /\ HandlesNameOneSession /\ Accounting /\ ExclusiveUse
        /\ MemorySafe /\ SoleOpener /\ SoleDestroyer /\ Ownership /\ Issued /\ NoLeak /\ Quiescence
    BY DEF IInv
  <1>2. /\ s \in detached /\ detached' = detached \ {s}
        /\ heap' = [heap EXCEPT ![s] = "freed"]
        /\ UNCHANGED <<registry, nextHandle, refCount, released, inUse, handleOf, stack, depth, known, phase>>
    BY DEF DestroyDetached, fields
  <1>3. phase = "unloading" /\ registry = {} /\ \A t \in Threads : depth[t] = 0
    BY <1>1, <1>2 DEF Quiescence
  <1>4. \A p \in Slots : stack[p] = NoFrame
    BY <1>1, <1>3 DEF StackShape, Slots, Depths
  <1>5. heap'[s] = "freed" /\ \A r \in Sessions : r # s => heap'[r] = heap[r]
    BY <1>1, <1>2 DEF TypeOK
  <1>10. TypeOK'
    BY <1>1, <1>2 DEF TypeOK
  <1>11. StackShape'
    BY <1>1, <1>2 DEF StackShape
  <1>12. HandlesNameOneSession'
    BY <1>1, <1>2 DEF HandlesNameOneSession
  <1>13. Accounting' /\ ExclusiveUse'
    BY <1>1, <1>2 DEF Accounting, ExclusiveUse
  <1>14. MemorySafe'
    BY <1>1, <1>2, <1>3, <1>4, <1>5 DEF MemorySafe, NoFrame, TypeOK
  <1>15. SoleOpener' /\ SoleDestroyer'
    BY <1>2, <1>4 DEF SoleOpener, SoleDestroyer, NoFrame
  <1>16. Ownership'
    BY <1>1, <1>2 DEF Ownership
  <1>17. Issued'
    BY <1>1, <1>2, <1>5 DEF Issued
  <1>18. NoLeak'
    BY <1>1, <1>2, <1>5 DEF NoLeak
  <1>19. Quiescence'
    BY <1>1, <1>2 DEF Quiescence
  <1>20. QED
    BY <1>10, <1>11, <1>12, <1>13, <1>14, <1>15, <1>16, <1>17, <1>18, <1>19 DEF IInv

LEMMA UnloadedKeepsInv ==
  ASSUME IInv, Unloaded
  PROVE  IInv'
  <1>1. /\ phase = "unloading" /\ phase' = "unloaded" /\ detached = {}
        /\ UNCHANGED <<registry, nextHandle, refCount, released, inUse, handleOf, heap, stack, depth,
                       known, detached>>
    BY DEF Unloaded, fields
  <1>2. TypeOK' /\ StackShape' /\ Quiescence'
    BY <1>1 DEF IInv, TypeOK, StackShape, Quiescence
  <1>3. HandlesNameOneSession' /\ Accounting' /\ ExclusiveUse' /\ MemorySafe'
    BY <1>1 DEF IInv, HandlesNameOneSession, Accounting, ExclusiveUse, MemorySafe, Holds
  <1>4. SoleOpener' /\ SoleDestroyer' /\ Ownership' /\ Issued' /\ NoLeak'
    BY <1>1 DEF IInv, SoleOpener, SoleDestroyer, Ownership, Issued, NoLeak, Holds, Registered
  <1>5. QED
    BY <1>2, <1>3, <1>4 DEF IInv

LEMMA StutterKeepsInv ==
  ASSUME IInv, UNCHANGED vars
  PROVE  IInv'
  <1>1. UNCHANGED <<registry, nextHandle, refCount, released, inUse, handleOf, heap, stack, depth,
                    known, phase, detached>>
    BY DEF vars, fields, library
  <1>2. TypeOK' /\ StackShape' /\ Quiescence'
    BY <1>1 DEF IInv, TypeOK, StackShape, Quiescence
  <1>3. HandlesNameOneSession' /\ Accounting' /\ ExclusiveUse' /\ MemorySafe'
    BY <1>1 DEF IInv, HandlesNameOneSession, Accounting, ExclusiveUse, MemorySafe, Holds
  <1>4. SoleOpener' /\ SoleDestroyer' /\ Ownership' /\ Issued' /\ NoLeak'
    BY <1>1 DEF IInv, SoleOpener, SoleDestroyer, Ownership, Issued, NoLeak, Holds, Registered
  <1>5. QED
    BY <1>2, <1>3, <1>4 DEF IInv

(***************************************************************************)
(* The theorems.                                                           *)
(***************************************************************************)

LEMMA InitInv == Init => IInv
  <1> SUFFICES ASSUME Init PROVE IInv
    OBVIOUS
  <1>1. \A p \in Slots : stack[p] = NoFrame
    BY DEF Init
  <1>2. TypeOK
    BY MaxHandleAssumption, MaxDepthAssumption
       DEF Init, TypeOK, Frame, NoFrame, FrameKinds, Handles, NoHandle
  <1>3. StackShape
    BY <1>1 DEF Init, StackShape, Slots, Depths
  <1>4. HandlesNameOneSession /\ Accounting /\ ExclusiveUse /\ MemorySafe
    BY <1>1 DEF Init, HandlesNameOneSession, Accounting, ExclusiveUse, MemorySafe, Holds, Holding, NoFrame
  <1>5. SoleOpener /\ SoleDestroyer /\ Ownership /\ Issued /\ NoLeak /\ Quiescence
    BY <1>1 DEF Init, SoleOpener, SoleDestroyer, Ownership, Issued, NoLeak, Quiescence,
                Holds, Holding, Registered, NoFrame, NoHandle
  <1>6. QED
    BY <1>2, <1>3, <1>4, <1>5 DEF IInv

LEMMA NextKeepsInv == IInv /\ [Next]_vars => IInv'
  <1> SUFFICES ASSUME IInv, [Next]_vars PROVE IInv'
    OBVIOUS
  <1>1. ASSUME NEW t \in Threads, NEW s \in Sessions,
               OpenStep(t, s) \/ ReleaseReference(t, s) \/ Destroy(t, s)
        PROVE  IInv'
    BY <1>1, BeginOpenKeepsInv, AbandonOpenKeepsInv, RegisterKeepsInv, PublishKeepsInv,
       PublishFailsKeepsInv, ReleaseReferenceKeepsInv, DestroyKeepsInv DEF OpenStep
  <1>2. ASSUME NEW t \in Threads, NEW h \in Handles, Acquire(t, h) \/ ReleaseDecoder(t, h)
        PROVE  IInv'
    BY <1>2, AcquireKeepsInv, ReleaseDecoderKeepsInv
  <1>3. CASE Unload
    BY <1>3, UnloadKeepsInv
  <1>4. ASSUME NEW s \in Sessions, DestroyDetached(s)
        PROVE  IInv'
    BY <1>4, DestroyDetachedKeepsInv
  <1>5. CASE Unloaded
    BY <1>5, UnloadedKeepsInv
  <1>6. CASE UNCHANGED vars
    BY <1>6, StutterKeepsInv
  <1>7. QED
    BY <1>1, <1>2, <1>3, <1>4, <1>5, <1>6 DEF Next, Terminated

\* The invariant behind close-while-decoding holds for any number of threads,
\* sessions and handles and any depth of nested calls.
THEOREM InvariantHolds == Spec => []IInv
  <1>1. QED
    BY InitInv, NextKeepsInv, PTL DEF Spec

\* Every variable keeps its type.
THEOREM TypeCorrect == Spec => []TypeOK
  <1>1. IInv => TypeOK
    BY DEF IInv
  <1>2. QED
    BY <1>1, InvariantHolds, PTL

\* A live handle names one session and a session has one handle, also after
\* reserve_decode_session_handle_locked has wrapped round.
THEOREM HandlesAreUnique == Spec => []HandlesNameOneSession
  <1>1. IInv => HandlesNameOneSession
    BY DEF IInv
  <1>2. QED
    BY <1>1, InvariantHolds, PTL

\* Two native operations are never inside the same libFLAC decoder.
THEOREM UseIsExclusive == Spec => []ExclusiveUse
  <1>1. IInv => ExclusiveUse
    BY DEF IInv
  <1>2. QED
    BY <1>1, InvariantHolds, PTL

\* Neither an operation, the registry nor the unload list ever refers to a
\* freed session: releaseDecoder during a decode defers the destruction.
THEOREM NoUseAfterFree == Spec => []MemorySafe
  <1>1. IInv => MemorySafe
    BY DEF IInv
  <1>2. QED
    BY <1>1, InvariantHolds, PTL

\* A session is destroyed by one party, after its last operation has ended.
THEOREM DestroyedByOneParty == Spec => []SoleDestroyer
  <1>1. IInv => SoleDestroyer
    BY DEF IInv
  <1>2. QED
    BY <1>1, InvariantHolds, PTL

\* Allocated sessions always have an owner that will release them.
THEOREM NothingLeaks == Spec => []NoLeak
  <1>1. IInv => NoLeak
    BY DEF IInv
  <1>2. QED
    BY <1>1, InvariantHolds, PTL

\* After JNI_OnUnload has finished, no session is allocated.
THEOREM UnloadIsComplete == Spec => []UnloadFreesEverything
  <1>1. IInv => UnloadFreesEverything
    <2> SUFFICES ASSUME IInv, phase = "unloaded", NEW s \in Sessions, heap[s] = "allocated"
                 PROVE  FALSE
      BY DEF UnloadFreesEverything
    <2>1. registry = {} /\ detached = {} /\ \A t \in Threads : depth[t] = 0
      BY DEF IInv, Quiescence
    <2>2. \A p \in Slots : stack[p] = NoFrame
      BY <2>1 DEF IInv, StackShape, Slots, Depths
    <2>3. QED
      BY <2>1, <2>2 DEF IInv, NoLeak, Registered, Holds, Holding, NoFrame
  <1>2. QED
    BY <1>1, InvariantHolds, PTL

(***************************************************************************)
(* The registry implements NativeLifetime.                                 *)
(***************************************************************************)

LEMMA SameLife ==
  ASSUME \A r \in Sessions : LifeOf(r)' = LifeOf(r)
  PROVE  LifeMap' = LifeMap
  BY DEF LifeMap

LEMMA OneLife ==
  ASSUME NEW s \in Sessions, NEW v, LifeOf(s)' = v,
         \A r \in Sessions : r # s => LifeOf(r)' = LifeOf(r)
  PROVE  LifeMap' = [LifeMap EXCEPT ![s] = v]
  BY DEF LifeMap

LEMMA SameBusy ==
  ASSUME \A p \in Slots, r \in Sessions : Holds(p, {"using"}, r)' <=> Holds(p, {"using"}, r)
  PROVE  BusyMap' = BusyMap
  BY DEF BusyMap

LEMMA InitLife == Init => Lifetime!Init
  <1> SUFFICES ASSUME Init PROVE Lifetime!Init
    OBVIOUS
  <1>1. LifeMap = [s \in Sessions |-> "absent"]
    BY DEF Init, LifeMap, LifeOf
  <1>2. BusyMap = [s \in Sessions |-> FALSE]
    BY DEF Init, BusyMap, Holds, NoFrame
  <1>3. QED
    BY <1>1, <1>2 DEF Lifetime!Init

\* Steps of an open: only the registration publishes the session.
LEMMA OpenImplements ==
  ASSUME IInv, NEW t \in Threads, NEW s \in Sessions,
         BeginOpen(t, s) \/ AbandonOpen(t, s) \/ Register(t, s) \/ Publish(t, s)
  PROVE  [Lifetime!Next]_Lifetime!vars
  <1> USE DEF Holds
  <1>1. TypeOK /\ StackShape /\ MemorySafe /\ Issued
    BY DEF IInv
  <1>2. CASE BeginOpen(t, s)
    <2>1. /\ Push(t, "opening", s) /\ heap[s] = "unborn" /\ heap' = [heap EXCEPT ![s] = "allocated"]
          /\ UNCHANGED <<registry, handleOf>>
      BY <1>2 DEF BeginOpen, fields
    <2>2. /\ stack[<<t, depth[t] + 1>>] = NoFrame
          /\ stack'[<<t, depth[t] + 1>>] = [kind |-> "opening", session |-> s]
          /\ \A p \in Slots : p # <<t, depth[t] + 1>> => stack'[p] = stack[p]
      BY <1>1, <2>1, PushSlots DEF FrameKinds
    <2>3. BusyMap' = BusyMap
      BY <2>2, SameBusy DEF NoFrame
    <2>4. \A r \in Sessions : LifeOf(r)' = LifeOf(r)
      BY <1>1, <2>1 DEF LifeOf, Issued, Registered, TypeOK
    <2>5. QED
      BY <2>3, <2>4, SameLife DEF Lifetime!vars
  <1>3. CASE AbandonOpen(t, s)
    <2>1. /\ depth[t] > 0 /\ stack[<<t, depth[t]>>] = [kind |-> "opening", session |-> s]
          /\ Become(t, "destroying", s) /\ UNCHANGED <<registry, handleOf, heap>>
      BY <1>3 DEF AbandonOpen, InFrame, fields
    <2>2. /\ stack'[<<t, depth[t]>>] = [kind |-> "destroying", session |-> s]
          /\ \A p \in Slots : p # <<t, depth[t]>> => stack'[p] = stack[p]
      BY <1>1, <2>1, BecomeSlots DEF FrameKinds
    <2>3. BusyMap' = BusyMap
      BY <2>1, <2>2, SameBusy
    <2>4. \A r \in Sessions : LifeOf(r)' = LifeOf(r)
      BY <2>1 DEF LifeOf, Registered
    <2>5. QED
      BY <2>3, <2>4, SameLife DEF Lifetime!vars
  <1>4. CASE Register(t, s)
    <2>1. /\ depth[t] > 0 /\ stack[<<t, depth[t]>>] = [kind |-> "opening", session |-> s]
          /\ Become(t, "publishing", s) /\ heap' = heap
      BY <1>4 DEF Register, InFrame
    <2>2. /\ <<t, depth[t]>> \in Slots
          /\ stack'[<<t, depth[t]>>] = [kind |-> "publishing", session |-> s]
          /\ \A p \in Slots : p # <<t, depth[t]>> => stack'[p] = stack[p]
      BY <1>1, <2>1, BecomeSlots DEF FrameKinds
    <2>3. PICK h \in Handles : /\ registry' = registry \cup {[handle |-> h, session |-> s]}
                               /\ handleOf' = [handleOf EXCEPT ![s] = h]
      BY <1>4 DEF Register
    <2>4. BusyMap' = BusyMap
      BY <2>1, <2>2, SameBusy
    <2>5. LifeOf(s) = "absent"
      BY <1>1, <2>1, <2>2 DEF Issued, LifeOf
    <2>6. LifeOf(s)' = "live"
      <3>1. [handle |-> h, session |-> s] \in registry' /\ [handle |-> h, session |-> s].session = s
        BY <2>3
      <3>2. handleOf'[s] = h /\ h # NoHandle
        BY <1>1, <2>3 DEF TypeOK, Handles, NoHandle
      <3>3. Registered(s)'
        BY <3>1 DEF Registered
      <3>4. QED
        BY <3>2, <3>3 DEF LifeOf
    <2>7. \A r \in Sessions : r # s => LifeOf(r)' = LifeOf(r)
      BY <1>1, <2>1, <2>3 DEF LifeOf, Registered, TypeOK
    <2>8. LifeMap' = [LifeMap EXCEPT ![s] = "live"] /\ LifeMap[s] = "absent"
      BY <2>5, <2>6, <2>7, OneLife DEF LifeMap
    <2>9. QED
      BY <2>4, <2>8 DEF Lifetime!Next, Lifetime!Publish
  <1>5. CASE Publish(t, s)
    <2>1. /\ depth[t] > 0 /\ stack[<<t, depth[t]>>] = [kind |-> "publishing", session |-> s]
          /\ Pop(t) /\ UNCHANGED <<registry, handleOf, heap>>
      BY <1>5 DEF Publish, InFrame, fields
    <2>2. /\ stack'[<<t, depth[t]>>] = NoFrame
          /\ \A p \in Slots : p # <<t, depth[t]>> => stack'[p] = stack[p]
      BY <1>1, <2>1, PopSlots
    <2>3. BusyMap' = BusyMap
      BY <2>1, <2>2, SameBusy DEF NoFrame
    <2>4. \A r \in Sessions : LifeOf(r)' = LifeOf(r)
      BY <2>1 DEF LifeOf, Registered
    <2>5. QED
      BY <2>3, <2>4, SameLife DEF Lifetime!vars
  <1>6. QED
    BY <1>2, <1>3, <1>4, <1>5

\* Unlinking an entry closes its session, whoever asked for it.
LEMMA UnlinkImplements ==
  ASSUME IInv, NEW e \in registry, Unlink(e), heap' = heap, BusyMap' = BusyMap
  PROVE  Lifetime!Next
  <1> DEFINE x == e.session
  <1>1. TypeOK /\ HandlesNameOneSession /\ MemorySafe /\ Issued
    BY DEF IInv
  <1>2. /\ x \in Sessions /\ handleOf[x] # NoHandle /\ heap[x] = "allocated"
        /\ registry' = registry \ {e} /\ handleOf' = handleOf
    BY <1>1 DEF TypeOK, Issued, MemorySafe, Unlink, Handles, NoHandle
  <1>3. \A f \in registry : f.session = x => f = e
    BY <1>1 DEF HandlesNameOneSession
  <1>4. ~Registered(x)' /\ Registered(x) /\ \A r \in Sessions : r # x => (Registered(r)' <=> Registered(r))
    BY <1>2, <1>3 DEF Registered
  <1>5. LifeOf(x) = "live" /\ LifeOf(x)' = "closing"
    BY <1>2, <1>4 DEF LifeOf
  <1>6. \A r \in Sessions : r # x => LifeOf(r)' = LifeOf(r)
    BY <1>2, <1>4 DEF LifeOf
  <1>7. LifeMap' = [LifeMap EXCEPT ![x] = "closing"] /\ LifeMap[x] = "live"
    BY <1>2, <1>5, <1>6, OneLife DEF LifeMap
  <1>8. QED
    BY <1>2, <1>7 DEF Lifetime!Next, Lifetime!Close

LEMMA CloseImplements ==
  ASSUME IInv, NEW t \in Threads,
         \/ \E s \in Sessions : PublishFails(t, s)
         \/ \E h \in Handles : ReleaseDecoder(t, h)
  PROVE  [Lifetime!Next]_Lifetime!vars
  <1> USE DEF Holds
  <1>1. TypeOK /\ StackShape
    BY DEF IInv
  <1>2. ASSUME NEW s \in Sessions, PublishFails(t, s)
        PROVE  [Lifetime!Next]_Lifetime!vars
    <2>1. depth[t] > 0 /\ stack[<<t, depth[t]>>] = [kind |-> "publishing", session |-> s] /\ heap' = heap
      BY <1>2 DEF PublishFails, InFrame
    <2>2. Pop(t) => BusyMap' = BusyMap
      <3> SUFFICES ASSUME Pop(t) PROVE BusyMap' = BusyMap
        OBVIOUS
      <3>1. /\ stack'[<<t, depth[t]>>] = NoFrame
            /\ \A p \in Slots : p # <<t, depth[t]>> => stack'[p] = stack[p]
        BY <1>1, <2>1, PopSlots
      <3>2. QED
        BY <2>1, <3>1, SameBusy DEF NoFrame
    <2>3. ASSUME NEW x \in Sessions, Become(t, "destroying", x)
          PROVE  BusyMap' = BusyMap
      <3>1. /\ stack'[<<t, depth[t]>>] = [kind |-> "destroying", session |-> x]
            /\ \A p \in Slots : p # <<t, depth[t]>> => stack'[p] = stack[p]
        BY <1>1, <2>1, <2>3, BecomeSlots DEF FrameKinds
      <3>2. QED
        BY <2>1, <3>1, SameBusy
    <2>4. ASSUME NEW e \in registry, Unlink(e),
                 IF DestroyOnRemove(e.session) THEN Become(t, "destroying", e.session) ELSE Pop(t)
          PROVE  Lifetime!Next
      <3>1. e.session \in Sessions
        BY <1>1 DEF TypeOK
      <3>2. BusyMap' = BusyMap
        BY <2>2, <2>3, <2>4, <3>1
      <3>3. QED
        BY <2>1, <2>4, <3>2, UnlinkImplements
    <2>5. ASSUME Pop(t), UNCHANGED <<registry, nextHandle, fields>>
          PROVE  UNCHANGED Lifetime!vars
      <3>1. \A r \in Sessions : LifeOf(r)' = LifeOf(r)
        BY <2>1, <2>5 DEF LifeOf, Registered, fields
      <3>2. QED
        BY <2>2, <2>5, <3>1, SameLife DEF Lifetime!vars
    <2>6. QED
      BY <1>2, <2>4, <2>5 DEF PublishFails
  <1>3. ASSUME NEW h \in Handles, ReleaseDecoder(t, h)
        PROVE  Lifetime!Next
    <2>1. PICK e \in registry :
            /\ Unlink(e)
            /\ IF DestroyOnRemove(e.session)
                 THEN Push(t, "destroying", e.session)
                 ELSE UNCHANGED <<stack, depth>>
      BY <1>3 DEF ReleaseDecoder
    <2>2. heap' = heap /\ e.session \in Sessions
      BY <1>1, <1>3 DEF ReleaseDecoder, TypeOK
    <2>3. CASE Push(t, "destroying", e.session)
      <3>1. /\ stack[<<t, depth[t] + 1>>] = NoFrame
            /\ stack'[<<t, depth[t] + 1>>] = [kind |-> "destroying", session |-> e.session]
            /\ \A p \in Slots : p # <<t, depth[t] + 1>> => stack'[p] = stack[p]
        BY <1>1, <2>2, <2>3, PushSlots DEF FrameKinds
      <3>2. BusyMap' = BusyMap
        BY <3>1, SameBusy DEF NoFrame
      <3>3. QED
        BY <2>1, <2>2, <3>2, UnlinkImplements
    <2>4. CASE UNCHANGED <<stack, depth>>
      <3>1. BusyMap' = BusyMap
        BY <2>4, SameBusy
      <3>2. QED
        BY <2>1, <2>2, <3>1, UnlinkImplements
    <2>5. QED
      BY <2>1, <2>3, <2>4
  <1>4. QED
    BY <1>2, <1>3

\* An operation begins and ends in the abstract specification too.
LEMMA UseImplements ==
  ASSUME IInv, NEW t \in Threads,
         \/ \E h \in Handles : Acquire(t, h)
         \/ \E s \in Sessions : ReleaseReference(t, s)
  PROVE  Lifetime!Next
  <1> USE DEF Holds
  <1>1. TypeOK /\ StackShape /\ Accounting /\ ExclusiveUse /\ Issued
    BY DEF IInv
  <1>2. ASSUME NEW h \in Handles, Acquire(t, h)
        PROVE  Lifetime!Next
    <2>1. PICK e \in registry : ~inUse[e.session] /\ Push(t, "using", e.session)
      BY <1>2 DEF Acquire, MayAcquire
    <2> DEFINE x == e.session
    <2>2. UNCHANGED <<registry, handleOf, heap>>
      BY <1>2 DEF Acquire, MayAcquire
    <2>3. x \in Sessions /\ handleOf[x] # NoHandle
      BY <1>1 DEF TypeOK, Issued, Handles, NoHandle
    <2>4. /\ <<t, depth[t] + 1>> \in Slots /\ stack[<<t, depth[t] + 1>>] = NoFrame
          /\ stack'[<<t, depth[t] + 1>>] = [kind |-> "using", session |-> x]
          /\ \A p \in Slots : p # <<t, depth[t] + 1>> => stack'[p] = stack[p]
      BY <1>1, <2>1, <2>3, PushSlots DEF FrameKinds
    <2>5. LifeMap' = LifeMap
      <3>1. \A r \in Sessions : LifeOf(r)' = LifeOf(r)
        BY <2>2 DEF LifeOf, Registered
      <3>2. QED
        BY <3>1, SameLife
    <2>6. LifeMap[x] = "live"
      BY <2>3 DEF LifeMap, LifeOf, Registered
    <2>7. BusyMap[x] = FALSE
      BY <1>1, <2>1, <2>3 DEF BusyMap, Accounting
    <2>8. BusyMap' = [BusyMap EXCEPT ![x] = TRUE]
      <3>1. \A r \in Sessions : (\E p \in Slots : Holds(p, {"using"}, r)') <=>
                                (r = x \/ \E p \in Slots : Holds(p, {"using"}, r))
        BY <2>4 DEF NoFrame
      <3>2. QED
        BY <2>3, <3>1 DEF BusyMap
    <2>9. QED
      BY <2>3, <2>5, <2>6, <2>7, <2>8 DEF Lifetime!Next, Lifetime!Begin
  <1>3. ASSUME NEW s \in Sessions, ReleaseReference(t, s)
        PROVE  Lifetime!Next
    <2>1. /\ depth[t] > 0 /\ stack[<<t, depth[t]>>] = [kind |-> "using", session |-> s]
          /\ IF DestroyOnRelease(s) THEN Become(t, "destroying", s) ELSE Pop(t)
          /\ UNCHANGED <<registry, handleOf, heap>>
      BY <1>3 DEF ReleaseReference, InFrame
    <2>2. <<t, depth[t]>> \in Slots
      BY <1>1, <2>1, MaxDepthAssumption DEF TypeOK, Slots, Depths
    <2>3. /\ stack'[<<t, depth[t]>>].kind # "using"
          /\ \A p \in Slots : p # <<t, depth[t]>> => stack'[p] = stack[p]
      <3>1. CASE Become(t, "destroying", s)
        <4>1. /\ stack'[<<t, depth[t]>>] = [kind |-> "destroying", session |-> s]
              /\ \A p \in Slots : p # <<t, depth[t]>> => stack'[p] = stack[p]
          BY <3>1, <1>1, <2>1, BecomeSlots DEF FrameKinds
        <4>2. QED
          BY <4>1
      <3>2. CASE Pop(t)
        BY <3>2, <1>1, <2>1, PopSlots DEF NoFrame
      <3>3. QED
        BY <2>1, <3>1, <3>2
    <2>4. LifeMap' = LifeMap
      <3>1. \A r \in Sessions : LifeOf(r)' = LifeOf(r)
        BY <2>1 DEF LifeOf, Registered
      <3>2. QED
        BY <3>1, SameLife
    <2>5. BusyMap[s] = TRUE
      BY <2>1, <2>2 DEF BusyMap
    <2>6. BusyMap' = [BusyMap EXCEPT ![s] = FALSE]
      <3>1. \A p \in Slots : Holds(p, {"using"}, s) => p = <<t, depth[t]>>
        BY <1>1, <2>1, <2>2 DEF ExclusiveUse
      <3>2. \A r \in Sessions : (\E p \in Slots : Holds(p, {"using"}, r)') <=>
                                (r # s /\ \E p \in Slots : Holds(p, {"using"}, r))
        BY <2>1, <2>3, <3>1
      <3>3. QED
        BY <3>2 DEF BusyMap
    <2>7. QED
      BY <2>4, <2>5, <2>6 DEF Lifetime!Next, Lifetime!End
  <1>4. QED
    BY <1>2, <1>3

\* A destruction kills a closed session; one that was never published is gone
\* without a trace.
LEMMA DestroyImplements ==
  ASSUME IInv, NEW s \in Sessions,
         (\E t \in Threads : Destroy(t, s)) \/ DestroyDetached(s)
  PROVE  [Lifetime!Next]_Lifetime!vars
  <1> USE DEF Holds
  <1>1. TypeOK /\ StackShape /\ SoleDestroyer /\ MemorySafe /\ Ownership /\ Quiescence
    BY DEF IInv
  <1>2. /\ heap' = [heap EXCEPT ![s] = "freed"] /\ UNCHANGED <<registry, handleOf>>
    BY DEF Destroy, DestroyDetached, fields
  <1>3. /\ ~Registered(s) /\ heap[s] = "allocated"
        /\ \A p \in Slots : ~Holds(p, {"using"}, s)
        /\ BusyMap' = BusyMap
    <2>1. ASSUME NEW t \in Threads, Destroy(t, s)
          PROVE  <1>3
      <3>1. depth[t] > 0 /\ stack[<<t, depth[t]>>] = [kind |-> "destroying", session |-> s] /\ Pop(t)
        BY <2>1 DEF Destroy, InFrame
      <3>2. /\ <<t, depth[t]>> \in Slots
            /\ stack'[<<t, depth[t]>>] = NoFrame
            /\ \A p \in Slots : p # <<t, depth[t]>> => stack'[p] = stack[p]
        BY <1>1, <3>1, PopSlots
      <3>3. BusyMap' = BusyMap
        BY <3>1, <3>2, SameBusy DEF NoFrame
      <3>4. ~Registered(s) /\ \A q \in Slots : Holds(q, Holding, s) => q = <<t, depth[t]>>
        BY <1>1, <3>1, <3>2 DEF SoleDestroyer
      <3>5. heap[s] = "allocated"
        BY <1>1, <3>1, <3>2 DEF MemorySafe, Holding
      <3>6. QED
        BY <3>1, <3>3, <3>4, <3>5 DEF Holding
    <2>2. ASSUME DestroyDetached(s)
          PROVE  <1>3
      <3>1. s \in detached /\ UNCHANGED <<stack, depth>>
        BY <2>2 DEF DestroyDetached
      <3>2. registry = {} /\ \A t \in Threads : depth[t] = 0
        BY <1>1, <3>1 DEF Quiescence
      <3>3. \A p \in Slots : stack[p] = NoFrame
        BY <1>1, <3>2 DEF StackShape, Slots, Depths
      <3>4. BusyMap' = BusyMap
        BY <3>1, SameBusy
      <3>5. QED
        BY <1>1, <3>1, <3>2, <3>3, <3>4 DEF MemorySafe, Registered, NoFrame
    <2>3. QED
      BY <2>1, <2>2
  <1>4. \A r \in Sessions : r # s => LifeOf(r)' = LifeOf(r)
    BY <1>1, <1>2 DEF LifeOf, Registered, TypeOK
  <1>5. CASE handleOf[s] = NoHandle
    <2>1. LifeOf(s)' = LifeOf(s)
      BY <1>2, <1>5 DEF LifeOf
    <2>2. QED
      BY <1>3, <1>4, <2>1, SameLife DEF Lifetime!vars
  <1>6. CASE handleOf[s] # NoHandle
    <2>1. LifeOf(s) = "closing" /\ LifeOf(s)' = "dead"
      BY <1>1, <1>2, <1>3, <1>6 DEF LifeOf, Registered, TypeOK
    <2>2. LifeMap' = [LifeMap EXCEPT ![s] = "dead"] /\ LifeMap[s] = "closing"
      BY <1>4, <2>1, OneLife DEF LifeMap
    <2>3. BusyMap[s] = FALSE
      BY <1>3 DEF BusyMap
    <2>4. QED
      BY <1>3, <2>2, <2>3 DEF Lifetime!Next, Lifetime!Destroy
  <1>7. QED
    BY <1>5, <1>6

LEMMA UnloadImplements ==
  ASSUME IInv, Unload
  PROVE  Lifetime!Next
  <1>1. TypeOK /\ StackShape /\ MemorySafe /\ Issued
    BY DEF IInv
  <1>2. registry' = {} /\ (\A t \in Threads : depth[t] = 0) /\ UNCHANGED <<stack, heap, handleOf>>
    BY DEF Unload, TakenFromRegistry, fields
  <1>3. \A p \in Slots : stack[p] = NoFrame
    BY <1>1, <1>2 DEF StackShape, Slots, Depths
  <1>4. BusyMap' = BusyMap /\ \A s \in Sessions : ~BusyMap[s]
    BY <1>2, <1>3, SameBusy DEF BusyMap, Holds, NoFrame
  <1>5. \A s \in Sessions : LifeOf(s)' = IF LifeOf(s) = "live" THEN "closing" ELSE LifeOf(s)
    BY <1>1, <1>2 DEF LifeOf, Registered, MemorySafe
  <1>6. LifeMap' = [s \in Sessions |-> IF LifeMap[s] = "live" THEN "closing" ELSE LifeMap[s]]
    BY <1>5 DEF LifeMap
  <1>7. QED
    BY <1>4, <1>6 DEF Lifetime!Next, Lifetime!CloseAll

\* The handle registry implements the abstract life of its sessions: operations
\* on a session exclude each other and its destruction, and none starts after
\* the close.
THEOREM RegistryImplementsLifetime == Spec => ImplementsLifetime
  <1>1. ASSUME IInv, [Next]_vars
        PROVE  [Lifetime!Next]_Lifetime!vars
    <2>1. ASSUME NEW t \in Threads, NEW s \in Sessions,
                 OpenStep(t, s) \/ ReleaseReference(t, s) \/ Destroy(t, s)
          PROVE  [Lifetime!Next]_Lifetime!vars
      BY <1>1, <2>1, OpenImplements, CloseImplements, UseImplements, DestroyImplements DEF OpenStep
    <2>2. ASSUME NEW t \in Threads, NEW h \in Handles, Acquire(t, h) \/ ReleaseDecoder(t, h)
          PROVE  [Lifetime!Next]_Lifetime!vars
      BY <1>1, <2>2, CloseImplements, UseImplements
    <2>3. CASE Unload
      BY <1>1, <2>3, UnloadImplements
    <2>4. ASSUME NEW s \in Sessions, DestroyDetached(s)
          PROVE  [Lifetime!Next]_Lifetime!vars
      BY <1>1, <2>4, DestroyImplements
    <2>5. CASE Unloaded \/ UNCHANGED vars
      <3>1. UNCHANGED <<registry, handleOf, heap, stack>>
        BY <2>5 DEF Unloaded, vars, fields
      <3>2. \A r \in Sessions : LifeOf(r)' = LifeOf(r)
        BY <3>1 DEF LifeOf, Registered
      <3>3. BusyMap' = BusyMap
        BY <3>1, SameBusy DEF Holds
      <3>4. QED
        BY <3>2, <3>3, SameLife DEF Lifetime!vars
    <2>6. QED
      BY <1>1, <2>1, <2>2, <2>3, <2>4, <2>5 DEF Next, Terminated
  <1>2. QED
    BY <1>1, InitLife, InvariantHolds, PTL DEF Spec, ImplementsLifetime, Lifetime!Spec

(***************************************************************************)
(* The first round of the handle counter.                                  *)
(***************************************************************************)

\* A step that issues no handle keeps FirstRound if Java learns only handles
\* that were issued, and every open in progress keeps its secret and its entry.
LEMMA NoIssueKeepsRound ==
  ASSUME FirstRound, UNCHANGED <<handleOf, nextHandle>>,
         ~CounterWentRound => known' \subseteq {handleOf[s] : s \in Numbered},
         \A s \in Sessions, p \in Slots :
           Holds(p, {"publishing"}, s)' => Holds(p, {"publishing"}, s),
         ~CounterWentRound => \A s \in Sessions, p \in Slots :
           Holds(p, {"publishing"}, s)' => handleOf[s] \notin known' /\ Registered(s)'
  PROVE  FirstRound'
  <1>1. Numbered' = Numbered
    BY DEF Numbered
  <1>2. CounterWentRound' <=> CounterWentRound
    BY <1>1 DEF CounterWentRound
  <1>3. IsFiniteSet(Numbered)'
    BY <1>1 DEF FirstRound
  <1>4. CountsSessions'
    BY <1>1, <1>2 DEF FirstRound, CountsSessions
  <1>5. SecretUntilReturned'
    <2> SUFFICES ASSUME ~CounterWentRound
                 PROVE  (/\ known \subseteq {handleOf[s] : s \in Numbered}
                         /\ \A s \in Sessions, p \in Slots : Holds(p, {"publishing"}, s) =>
                              /\ handleOf[s] \notin known /\ Registered(s)
                              /\ \A q \in Slots : Holds(q, {"publishing"}, s) => q = p)'
      BY <1>2 DEF SecretUntilReturned
    <2>1. known' \subseteq {handleOf'[s] : s \in Numbered'}
      BY <1>1
    <2>2. ASSUME NEW s \in Sessions, NEW p \in Slots, Holds(p, {"publishing"}, s)'
          PROVE  /\ handleOf'[s] \notin known' /\ Registered(s)'
                 /\ \A q \in Slots : Holds(q, {"publishing"}, s)' => q = p
      <3>1. handleOf'[s] \notin known' /\ Registered(s)'
        BY <2>2
      <3>2. \A q \in Slots : Holds(q, {"publishing"}, s)' => q = p
        BY <2>2 DEF FirstRound, SecretUntilReturned
      <3>3. QED
        BY <3>1, <3>2
    <2>3. QED
      BY <2>1, <2>2
  <1>6. QED
    BY <1>3, <1>4, <1>5 DEF FirstRound

\* In the first round every handle Java knows was issued, and is at most the
\* number of sessions.
LEMMA KnownAreCounted ==
  ASSUME IInv, FirstRound, ~CounterWentRound
  PROVE  /\ Cardinality(Numbered) \in Nat
         /\ \A h \in known : h <= Cardinality(Numbered)
         /\ \A h \in LiveHandles : h <= Cardinality(Numbered)
  <1>1. Cardinality(Numbered) \in Nat
    BY FS_CardinalityType DEF FirstRound
  <1>2. \A h \in known : h <= Cardinality(Numbered)
    BY DEF FirstRound, CountsSessions, SecretUntilReturned
  <1>3. ASSUME NEW h \in LiveHandles
        PROVE  h <= Cardinality(Numbered)
    <2>1. PICK e \in registry : e.handle = h
      BY DEF LiveHandles
    <2>2. e.session \in Sessions /\ handleOf[e.session] = h /\ h # NoHandle
      BY <2>1 DEF IInv, TypeOK, Issued, Handles, NoHandle
    <2>3. e.session \in Numbered
      BY <2>2 DEF Numbered
    <2>4. QED
      BY <2>2, <2>3 DEF FirstRound, CountsSessions
  <1>4. QED
    BY <1>1, <1>2, <1>3

\* reserve_decode_session_handle_locked, until the counter has gone round, takes
\* the counter itself: the number of sessions so far, and one.
LEMMA FirstRoundIssues ==
  ASSUME IInv, FirstRound, NEW t \in Threads, NEW s \in Sessions, Register(t, s),
         ~CounterWentRound'
  PROVE  /\ s \notin Numbered /\ Numbered' = Numbered \cup {s}
         /\ IsFiniteSet(Numbered')
         /\ Cardinality(Numbered') = Cardinality(Numbered) + 1
         /\ Cardinality(Numbered') <= MaxHandle
         /\ ~CounterWentRound
         /\ handleOf' = [handleOf EXCEPT ![s] = Cardinality(Numbered')]
         /\ registry' = registry \cup {[handle |-> Cardinality(Numbered'), session |-> s]}
         /\ nextHandle' \in AfterIssuing(Cardinality(Numbered'))
  <1> DEFINE n == Cardinality(Numbered)
  <1>1. TypeOK /\ StackShape /\ Issued
    BY DEF IInv
  <1>2. PICK h \in Handles :
          /\ IsNextFree(h)
          /\ nextHandle' \in AfterIssuing(h)
          /\ registry' = registry \cup {[handle |-> h, session |-> s]}
          /\ handleOf' = [handleOf EXCEPT ![s] = h]
    BY DEF Register
  <1>3. handleOf[s] = NoHandle
    <2>1. depth[t] > 0 /\ stack[<<t, depth[t]>>] = [kind |-> "opening", session |-> s]
      BY DEF Register, InFrame
    <2>2. <<t, depth[t]>> \in Slots
      BY <1>1, <2>1, MaxDepthAssumption DEF TypeOK, Slots, Depths
    <2>3. Holds(<<t, depth[t]>>, {"opening"}, s)
      BY <2>1 DEF Holds
    <2>4. QED
      BY <1>1, <2>2, <2>3 DEF Issued
  <1>4. s \notin Numbered /\ Numbered' = Numbered \cup {s}
    <2>1. h # NoHandle /\ handleOf'[s] = h /\ \A r \in Sessions : r # s => handleOf'[r] = handleOf[r]
      BY <1>1, <1>2 DEF TypeOK, Handles, NoHandle
    <2>2. QED
      BY <1>3, <2>1 DEF Numbered
  <1>5. n \in Nat /\ IsFiniteSet(Numbered') /\ Cardinality(Numbered') = n + 1
    BY <1>4, FS_CardinalityType, FS_AddElement DEF FirstRound
  <1>6. n + 1 <= MaxHandle
    BY <1>5, MaxHandleAssumption DEF CounterWentRound
  <1>7. ~CounterWentRound
    BY <1>5, <1>6, MaxHandleAssumption DEF CounterWentRound
  <1>8. nextHandle = n + 1
    BY <1>5, <1>6, <1>7, MaxHandleAssumption DEF FirstRound, CountsSessions
  <1>9. n + 1 \notin LiveHandles
    BY <1>5, <1>7, KnownAreCounted
  <1>10. h = n + 1
    <2>1. n + 1 # NoHandle
      BY <1>5 DEF NoHandle
    <2>2. PassedOver(h) = IF n + 1 <= h THEN (n + 1)..(h - 1)
                          ELSE ((n + 1)..MaxHandle) \cup (1..(h - 1))
      BY <1>8, <2>1 DEF PassedOver
    <2>3. n + 1 \notin PassedOver(h)
      BY <1>2, <1>9 DEF IsNextFree
    <2>4. h \in Int /\ n + 1 \in Int /\ MaxHandle \in Int
      BY <1>2, <1>5, MaxHandleAssumption DEF Handles
    <2>5. QED
      BY <1>6, <2>2, <2>3, <2>4
  <1>11. QED
    BY <1>2, <1>4, <1>5, <1>6, <1>7, <1>10

\* Registering a session in the first round: its handle is new to everybody.
LEMMA RegisterKeepsRound ==
  ASSUME IInv, FirstRound, NEW t \in Threads, NEW s \in Sessions, Register(t, s)
  PROVE  FirstRound'
  <1> DEFINE top == <<t, depth[t]>>
             n == Cardinality(Numbered)
  <1>1. TypeOK /\ StackShape /\ Issued
    BY DEF IInv
  <1>2. /\ depth[t] > 0 /\ stack[top] = [kind |-> "opening", session |-> s]
        /\ Become(t, "publishing", s) /\ known' = known
    BY DEF Register, InFrame, Become
  <1>3. /\ top \in Slots /\ stack'[top] = [kind |-> "publishing", session |-> s]
        /\ \A p \in Slots : p # top => stack'[p] = stack[p]
    BY <1>1, <1>2, BecomeSlots DEF FrameKinds
  <1>4. IsFiniteSet(Numbered')
    <2>1. PICK h \in Handles : handleOf' = [handleOf EXCEPT ![s] = h]
      BY DEF Register
    <2>2. Numbered' = Numbered \cup {s}
      BY <1>1, <2>1 DEF TypeOK, Numbered, Handles, NoHandle
    <2>3. QED
      BY <2>2, FS_AddElement DEF FirstRound
  <1>5. CASE CounterWentRound'
    BY <1>4, <1>5 DEF FirstRound, CountsSessions, SecretUntilReturned
  <1>6. CASE ~CounterWentRound'
    <2>1. /\ s \notin Numbered /\ Numbered' = Numbered \cup {s}
          /\ Cardinality(Numbered') = n + 1 /\ n + 1 <= MaxHandle
          /\ ~CounterWentRound
          /\ handleOf' = [handleOf EXCEPT ![s] = n + 1]
          /\ registry' = registry \cup {[handle |-> n + 1, session |-> s]}
          /\ nextHandle' \in AfterIssuing(n + 1)
      BY <1>6, FirstRoundIssues
    <2>2. n \in Nat /\ \A h \in known : h <= n
      BY <2>1, KnownAreCounted
    <2>3. handleOf'[s] = n + 1 /\ \A r \in Sessions : r # s => handleOf'[r] = handleOf[r]
      BY <1>1, <2>1 DEF TypeOK
    <2>4. \A r \in Numbered : r \in Sessions /\ r # s /\ handleOf[r] \in Nat /\ handleOf[r] <= n
      BY <1>1, <2>1 DEF FirstRound, CountsSessions, Numbered, TypeOK, Handles, NoHandle
    <2>5. CountsSessions'
      <3>1. ASSUME NEW r \in Numbered', NEW q \in Numbered', handleOf'[r] = handleOf'[q]
            PROVE  r = q
        <4>1. CASE r = s \/ q = s
          BY <3>1, <4>1, <2>1, <2>2, <2>3, <2>4
        <4>2. CASE r # s /\ q # s
          <5>1. r \in Numbered /\ q \in Numbered
            BY <4>2, <2>1
          <5>2. handleOf[r] = handleOf[q]
            BY <3>1, <4>2, <5>1, <2>3, <2>4
          <5>3. QED
            BY <5>1, <5>2, <2>1 DEF FirstRound, CountsSessions
        <4>3. QED
          BY <4>1, <4>2
      <3>2. \A r \in Numbered' : handleOf'[r] <= n + 1
        BY <2>1, <2>2, <2>3, <2>4
      <3>3. n + 1 < MaxHandle => nextHandle' = n + 2
        BY <2>1, <2>2, MaxHandleAssumption DEF AfterIssuing
      <3>4. QED
        BY <2>1, <2>2, <3>1, <3>2, <3>3 DEF CountsSessions
    <2>6. SecretUntilReturned'
      <3>1. known' \subseteq {handleOf'[r] : r \in Numbered'}
        <4>1. known \subseteq {handleOf[r] : r \in Numbered}
          BY <2>1 DEF FirstRound, SecretUntilReturned
        <4>2. \A r \in Numbered : r \in Numbered' /\ handleOf'[r] = handleOf[r]
          BY <2>1, <2>3, <2>4
        <4>3. QED
          BY <4>1, <4>2, <1>2
      <3>2. ASSUME NEW r \in Sessions, NEW p \in Slots, Holds(p, {"publishing"}, r)'
            PROVE  /\ handleOf'[r] \notin known' /\ Registered(r)'
                   /\ \A q \in Slots : Holds(q, {"publishing"}, r)' => q = p
        <4>1. \A q \in Slots : Holds(q, {"publishing"}, s)' => q = top
          BY <1>1, <1>3, <2>1 DEF Holds, Issued, Numbered
        <4>2. CASE r = s
          <5>1. handleOf'[r] \notin known'
            BY <4>2, <1>2, <2>2, <2>3
          <5>2. Registered(r)'
            <6>1. [handle |-> n + 1, session |-> s] \in registry'
              BY <2>1
            <6>2. [handle |-> n + 1, session |-> s].session = r
              BY <4>2
            <6>3. QED
              BY <6>1, <6>2 DEF Registered
          <5>3. QED
            BY <5>1, <5>2, <4>1, <4>2, <3>2
        <4>3. CASE r # s
          <5>1. \A q \in Slots : Holds(q, {"publishing"}, r)' => Holds(q, {"publishing"}, r)
            BY <4>3, <1>3 DEF Holds
          <5>2. /\ handleOf[r] \notin known /\ Registered(r)
                /\ \A q \in Slots : Holds(q, {"publishing"}, r) => q = p
            BY <3>2, <5>1, <2>1 DEF FirstRound, SecretUntilReturned
          <5>3. handleOf'[r] \notin known' /\ Registered(r)'
            BY <5>2, <4>3, <1>2, <2>1, <2>3 DEF Registered
          <5>4. QED
            BY <5>1, <5>2, <5>3
        <4>4. QED
          BY <4>2, <4>3
      <3>3. QED
        BY <3>1, <3>2 DEF SecretUntilReturned
    <2>7. QED
      BY <1>4, <2>5, <2>6 DEF FirstRound
  <1>7. QED
    BY <1>5, <1>6

\* What a stack operation does to the frames of opens that have not returned.
LEMMA PushPublishing ==
  ASSUME TypeOK, StackShape, NEW t \in Threads, NEW k \in FrameKinds \ {"none", "publishing"},
         NEW s \in Sessions, Push(t, k, s)
  PROVE  \A r \in Sessions, p \in Slots :
           Holds(p, {"publishing"}, r)' => Holds(p, {"publishing"}, r)
  <1>1. /\ stack'[<<t, depth[t] + 1>>] = [kind |-> k, session |-> s]
        /\ \A p \in Slots : p # <<t, depth[t] + 1>> => stack'[p] = stack[p]
    BY PushSlots
  <1>2. QED
    BY <1>1 DEF Holds

LEMMA BecomePublishing ==
  ASSUME TypeOK, StackShape, NEW t \in Threads, NEW k \in FrameKinds \ {"none", "publishing"},
         NEW s \in Sessions, depth[t] > 0, Become(t, k, s)
  PROVE  /\ <<t, depth[t]>> \in Slots
         /\ \A r \in Sessions, p \in Slots :
              Holds(p, {"publishing"}, r)' => p # <<t, depth[t]>> /\ Holds(p, {"publishing"}, r)
  <1>1. /\ <<t, depth[t]>> \in Slots
        /\ stack'[<<t, depth[t]>>] = [kind |-> k, session |-> s]
        /\ \A p \in Slots : p # <<t, depth[t]>> => stack'[p] = stack[p]
    BY BecomeSlots
  <1>2. QED
    BY <1>1 DEF Holds

LEMMA PopPublishing ==
  ASSUME TypeOK, StackShape, NEW t \in Threads, depth[t] > 0, Pop(t)
  PROVE  /\ <<t, depth[t]>> \in Slots
         /\ \A r \in Sessions, p \in Slots :
              Holds(p, {"publishing"}, r)' => p # <<t, depth[t]>> /\ Holds(p, {"publishing"}, r)
  <1>1. /\ <<t, depth[t]>> \in Slots
        /\ stack'[<<t, depth[t]>>] = NoFrame
        /\ \A p \in Slots : p # <<t, depth[t]>> => stack'[p] = stack[p]
    BY PopSlots
  <1>2. QED
    BY <1>1 DEF Holds, NoFrame

\* Unlinking the entry of another handle leaves a session's entry where it is.
LEMMA UnlinkKeepsOthers ==
  ASSUME IInv, NEW e \in registry, Unlink(e), NEW r \in Sessions,
         Registered(r), handleOf[r] # e.handle
  PROVE  Registered(r)'
  <1>1. PICK f \in registry : f.session = r
    BY DEF Registered
  <1>2. f # e
    BY <1>1 DEF IInv, Issued
  <1>3. QED
    BY <1>1, <1>2 DEF Unlink, Registered

\* A close can only take a session whose handle Java knows.
LEMMA ReleaseDecoderKeepsRound ==
  ASSUME IInv, FirstRound, NEW t \in Threads, NEW h \in Handles, ReleaseDecoder(t, h)
  PROVE  FirstRound'
  <1>1. TypeOK /\ StackShape
    BY DEF IInv
  <1>2. PICK e \in registry :
          /\ e.handle = h /\ Unlink(e)
          /\ Push(t, "destroying", e.session) \/ UNCHANGED <<stack, depth>>
    BY DEF ReleaseDecoder
  <1>3. e.session \in Sessions /\ h \in known /\ known' = known
    BY <1>1 DEF ReleaseDecoder, TypeOK
  <1>4. \A s \in Sessions, p \in Slots : Holds(p, {"publishing"}, s)' => Holds(p, {"publishing"}, s)
    <2>1. CASE Push(t, "destroying", e.session)
      BY <2>1, <1>1, <1>3, PushPublishing DEF FrameKinds
    <2>2. CASE UNCHANGED <<stack, depth>>
      BY <2>2 DEF Holds
    <2>3. QED
      BY <1>2, <2>1, <2>2
  <1>5. ASSUME ~CounterWentRound, NEW s \in Sessions, NEW p \in Slots, Holds(p, {"publishing"}, s)'
        PROVE  handleOf[s] \notin known' /\ Registered(s)'
    <2>1. handleOf[s] \notin known /\ Registered(s)
      BY <1>4, <1>5 DEF FirstRound, SecretUntilReturned
    <2>2. QED
      BY <2>1, <1>2, <1>3, UnlinkKeepsOthers
  <1>6. ~CounterWentRound => known' \subseteq {handleOf[s] : s \in Numbered}
    BY <1>3 DEF FirstRound, SecretUntilReturned
  <1>7. QED
    BY <1>2, <1>4, <1>5, <1>6, NoIssueKeepsRound DEF Unlink

\* An open that gives up takes back its own entry only.
LEMMA PublishFailsKeepsRound ==
  ASSUME IInv, FirstRound, NEW t \in Threads, NEW s \in Sessions, PublishFails(t, s)
  PROVE  FirstRound'
  <1> DEFINE top == <<t, depth[t]>>
  <1>1. TypeOK /\ StackShape /\ Issued
    BY DEF IInv
  <1>2. depth[t] > 0 /\ stack[top] = [kind |-> "publishing", session |-> s] /\ known' = known
    BY DEF PublishFails, InFrame
  <1>3. \/ \E e \in registry :
             /\ e.handle = handleOf[s] /\ Unlink(e)
             /\ Become(t, "destroying", e.session) \/ Pop(t)
        \/ Pop(t) /\ UNCHANGED <<registry, nextHandle, fields>>
    BY DEF PublishFails
  <1>4. /\ top \in Slots /\ UNCHANGED <<handleOf, nextHandle>>
        /\ \A r \in Sessions, p \in Slots :
             Holds(p, {"publishing"}, r)' => p # top /\ Holds(p, {"publishing"}, r)
    <2>1. ASSUME NEW e \in registry, Unlink(e), Become(t, "destroying", e.session)
          PROVE  <1>4
      <3>1. e.session \in Sessions
        BY <1>1 DEF TypeOK
      <3>2. QED
        BY <2>1, <3>1, <1>1, <1>2, BecomePublishing DEF FrameKinds, Unlink
    <2>2. CASE Pop(t) /\ UNCHANGED <<handleOf, nextHandle>>
      BY <2>2, <1>1, <1>2, PopPublishing
    <2>3. QED
      BY <1>3, <2>1, <2>2 DEF Unlink, fields
  <1>5. ASSUME ~CounterWentRound, NEW r \in Sessions, NEW p \in Slots, Holds(p, {"publishing"}, r)'
        PROVE  handleOf[r] \notin known' /\ Registered(r)'
    <2>1. Holds(top, {"publishing"}, s) /\ Holds(p, {"publishing"}, r)
      BY <1>2, <1>4, <1>5 DEF Holds
    <2>2. /\ handleOf[r] \notin known /\ Registered(r)
          /\ \A q \in Slots : Holds(q, {"publishing"}, r) => q = p
      BY <1>5, <2>1 DEF FirstRound, SecretUntilReturned
    <2>3. r # s
      BY <1>4, <1>5, <2>1, <2>2
    <2>4. r \in Numbered /\ s \in Numbered
      BY <1>1, <1>4, <2>1 DEF Issued, Numbered, Holds
    <2>5. handleOf[r] # handleOf[s]
      BY <1>5, <2>3, <2>4 DEF FirstRound, CountsSessions
    <2>6. Registered(r)'
      BY <1>3, <2>2, <2>5, UnlinkKeepsOthers DEF Registered
    <2>7. QED
      BY <1>2, <2>2, <2>6
  <1>6. ~CounterWentRound => known' \subseteq {handleOf[r] : r \in Numbered}
    BY <1>2 DEF FirstRound, SecretUntilReturned
  <1>7. QED
    BY <1>4, <1>5, <1>6, NoIssueKeepsRound

\* The return of an open tells Java that handle and no other.
LEMMA PublishKeepsRound ==
  ASSUME IInv, FirstRound, NEW t \in Threads, NEW s \in Sessions, Publish(t, s)
  PROVE  FirstRound'
  <1> DEFINE top == <<t, depth[t]>>
  <1>1. TypeOK /\ StackShape /\ Issued
    BY DEF IInv
  <1>2. /\ depth[t] > 0 /\ stack[top] = [kind |-> "publishing", session |-> s]
        /\ known' = known \cup {handleOf[s]} /\ Pop(t)
        /\ UNCHANGED <<registry, nextHandle, handleOf>>
    BY DEF Publish, InFrame, fields
  <1>3. /\ top \in Slots /\ Holds(top, {"publishing"}, s)
        /\ \A r \in Sessions, p \in Slots :
             Holds(p, {"publishing"}, r)' => p # top /\ Holds(p, {"publishing"}, r)
    BY <1>1, <1>2, PopPublishing DEF Holds
  <1>4. s \in Numbered
    BY <1>1, <1>3 DEF Issued, Numbered, Holds
  <1>5. ASSUME ~CounterWentRound, NEW r \in Sessions, NEW p \in Slots, Holds(p, {"publishing"}, r)'
        PROVE  handleOf[r] \notin known' /\ Registered(r)'
    <2>1. /\ handleOf[r] \notin known /\ Registered(r)
          /\ \A q \in Slots : Holds(q, {"publishing"}, r) => q = p
      BY <1>3, <1>5 DEF FirstRound, SecretUntilReturned
    <2>2. r # s
      BY <1>3, <1>5, <2>1
    <2>3. r \in Numbered
      BY <1>1, <1>3, <1>5 DEF Issued, Numbered, Holds
    <2>4. handleOf[r] # handleOf[s]
      BY <1>4, <1>5, <2>2, <2>3 DEF FirstRound, CountsSessions
    <2>5. QED
      BY <1>2, <2>1, <2>4 DEF Registered
  <1>6. ~CounterWentRound => known' \subseteq {handleOf[r] : r \in Numbered}
    BY <1>2, <1>4 DEF FirstRound, SecretUntilReturned
  <1>7. QED
    BY <1>2, <1>3, <1>5, <1>6, NoIssueKeepsRound

\* A step that leaves the registry, the counter and what Java knows alone and
\* puts no publishing frame on a stack.
LEMMA QuietKeepsRound ==
  ASSUME FirstRound, UNCHANGED <<registry, handleOf, nextHandle, known>>,
         \A s \in Sessions, p \in Slots :
           Holds(p, {"publishing"}, s)' => Holds(p, {"publishing"}, s)
  PROVE  FirstRound'
  <1>1. ~CounterWentRound => known' \subseteq {handleOf[s] : s \in Numbered}
    BY DEF FirstRound, SecretUntilReturned
  <1>2. ~CounterWentRound => \A s \in Sessions, p \in Slots :
          Holds(p, {"publishing"}, s)' => handleOf[s] \notin known' /\ Registered(s)'
    BY DEF FirstRound, SecretUntilReturned, Registered
  <1>3. QED
    BY <1>1, <1>2, NoIssueKeepsRound

\* The calls that neither open nor close a session.
LEMMA UseKeepsRound ==
  ASSUME IInv, FirstRound, NEW t \in Threads, NEW s \in Sessions,
         BeginOpen(t, s) \/ AbandonOpen(t, s) \/ ReleaseReference(t, s) \/ Destroy(t, s)
  PROVE  FirstRound'
  <1>1. TypeOK /\ StackShape
    BY DEF IInv
  <1>2. UNCHANGED <<registry, handleOf, nextHandle, known>>
    BY DEF BeginOpen, AbandonOpen, ReleaseReference, Destroy, fields
  <1>3. \/ Push(t, "opening", s)
        \/ depth[t] > 0 /\ (Become(t, "destroying", s) \/ Pop(t))
    BY DEF BeginOpen, AbandonOpen, ReleaseReference, Destroy, InFrame
  <1>4. \A r \in Sessions, p \in Slots : Holds(p, {"publishing"}, r)' => Holds(p, {"publishing"}, r)
    <2>1. CASE Push(t, "opening", s)
      BY <2>1, <1>1, PushPublishing DEF FrameKinds
    <2>2. CASE depth[t] > 0 /\ Become(t, "destroying", s)
      BY <2>2, <1>1, BecomePublishing DEF FrameKinds
    <2>3. CASE depth[t] > 0 /\ Pop(t)
      BY <2>3, <1>1, PopPublishing
    <2>4. QED
      BY <1>3, <2>1, <2>2, <2>3
  <1>5. QED
    BY <1>2, <1>4, QuietKeepsRound

LEMMA AcquireKeepsRound ==
  ASSUME IInv, FirstRound, NEW t \in Threads, NEW h \in Handles, Acquire(t, h)
  PROVE  FirstRound'
  <1>1. TypeOK /\ StackShape
    BY DEF IInv
  <1>2. PICK e \in registry : Push(t, "using", e.session)
    BY DEF Acquire
  <1>3. e.session \in Sessions
    BY <1>1 DEF TypeOK
  <1>4. \A r \in Sessions, p \in Slots : Holds(p, {"publishing"}, r)' => Holds(p, {"publishing"}, r)
    BY <1>1, <1>2, <1>3, PushPublishing DEF FrameKinds
  <1>5. QED
    BY <1>4, QuietKeepsRound DEF Acquire

\* An unload finds no open in progress.
LEMMA UnloadKeepsRound ==
  ASSUME IInv, FirstRound, Unload
  PROVE  FirstRound'
  <1>1. TypeOK /\ StackShape
    BY DEF IInv
  <1>2. UNCHANGED <<handleOf, nextHandle, stack, known>> /\ \A t \in Threads : depth[t] = 0
    BY DEF Unload, fields
  <1>3. \A p \in Slots : stack[p] = NoFrame
    BY <1>1, <1>2 DEF StackShape, Slots, Depths
  <1>4. \A s \in Sessions, p \in Slots : ~Holds(p, {"publishing"}, s)'
    BY <1>2, <1>3 DEF Holds, NoFrame
  <1>5. ~CounterWentRound => known' \subseteq {handleOf[s] : s \in Numbered}
    BY <1>2 DEF FirstRound, SecretUntilReturned
  <1>6. QED
    BY <1>2, <1>4, <1>5, NoIssueKeepsRound

LEMMA InitRound == Init => FirstRound
  <1> SUFFICES ASSUME Init PROVE FirstRound
    OBVIOUS
  <1>1. Numbered = {}
    BY DEF Init, Numbered
  <1>2. IsFiniteSet(Numbered) /\ Cardinality(Numbered) = 0
    BY <1>1, FS_EmptySet
  <1>3. CountsSessions
    BY <1>1, <1>2 DEF CountsSessions, Init
  <1>4. SecretUntilReturned
    BY DEF SecretUntilReturned, Init, Holds, NoFrame
  <1>5. QED
    BY <1>2, <1>3, <1>4 DEF FirstRound

LEMMA NextKeepsRound == IInv /\ FirstRound /\ [Next]_vars => FirstRound'
  <1> SUFFICES ASSUME IInv, FirstRound, [Next]_vars PROVE FirstRound'
    OBVIOUS
  <1>1. ASSUME NEW t \in Threads, NEW s \in Sessions,
               OpenStep(t, s) \/ ReleaseReference(t, s) \/ Destroy(t, s)
        PROVE  FirstRound'
    BY <1>1, RegisterKeepsRound, PublishKeepsRound, PublishFailsKeepsRound, UseKeepsRound DEF OpenStep
  <1>2. ASSUME NEW t \in Threads, NEW h \in Handles, Acquire(t, h) \/ ReleaseDecoder(t, h)
        PROVE  FirstRound'
    BY <1>2, AcquireKeepsRound, ReleaseDecoderKeepsRound
  <1>3. CASE Unload
    BY <1>3, UnloadKeepsRound
  <1>4. CASE (\E s \in Sessions : DestroyDetached(s)) \/ Unloaded \/ UNCHANGED vars
    <2>1. UNCHANGED <<registry, handleOf, nextHandle, known, stack>>
      BY <1>4 DEF DestroyDetached, Unloaded, vars, fields
    <2>2. QED
      BY <2>1, QuietKeepsRound DEF Holds
  <1>5. QED
    BY <1>1, <1>2, <1>3, <1>4 DEF Next, Terminated

\* Until the counter has gone round, handles are issued in order and none twice,
\* and the handle of an open that has not returned is known to nobody.
THEOREM FirstRoundHolds == Spec => []FirstRound
  <1>1. QED
    BY InitRound, NextKeepsRound, InvariantHolds, PTL DEF Spec

\* A pull open that reads its session's STREAMINFO after it has left the registry
\* mutex reads live memory, until the counter has gone round.
THEOREM OpenReadsLiveSession == Spec => []PublishingSafe
  <1>1. IInv /\ FirstRound => PublishingSafe
    <2> SUFFICES ASSUME IInv, FirstRound, ~CounterWentRound, NEW p \in Slots,
                        stack[p].kind = "publishing"
                 PROVE  heap[stack[p].session] = "allocated"
      BY DEF PublishingSafe
    <2>1. stack[p].session \in Sessions
      <3>1. PICK t \in Threads, d \in Depths : p = <<t, d>>
        BY DEF Slots
      <3>2. QED
        BY <3>1 DEF IInv, StackShape, NoFrame
    <2>2. Registered(stack[p].session)
      BY <2>1 DEF FirstRound, SecretUntilReturned, Holds
    <2>3. QED
      BY <2>2 DEF IInv, MemorySafe, Registered
  <1>2. QED
    BY <1>1, InvariantHolds, FirstRoundHolds, PTL

\* What one step may do to the handles Java knows.
LEMMA StaleStep ==
  ASSUME IInv, FirstRound, [Next]_vars
  PROVE  ~CounterWentRound' => \A h \in known : h \notin LiveHandles => h \notin LiveHandles'
  <1> SUFFICES ASSUME ~CounterWentRound', NEW h \in known, h \notin LiveHandles, h \in LiveHandles'
               PROVE  FALSE
    OBVIOUS
  <1>1. PICK t \in Threads, s \in Sessions : Register(t, s)
    <2>1. ~(registry' \subseteq registry)
      BY DEF LiveHandles
    <2>2. QED
      BY <2>1 DEF Next, Terminated, OpenStep, BeginOpen, AbandonOpen, Publish, PublishFails, Unlink,
         Acquire, ReleaseReference, ReleaseDecoder, Destroy, Unload, DestroyDetached, Unloaded, vars
  <1>2. /\ ~CounterWentRound
        /\ Cardinality(Numbered') = Cardinality(Numbered) + 1
        /\ registry' = registry \cup {[handle |-> Cardinality(Numbered'), session |-> s]}
    BY <1>1, FirstRoundIssues
  <1>3. Cardinality(Numbered) \in Nat /\ h <= Cardinality(Numbered)
    BY <1>2, KnownAreCounted
  <1>4. h = Cardinality(Numbered) + 1
    BY <1>2 DEF LiveHandles
  <1>5. QED
    BY <1>3, <1>4

\* Until the counter has gone round, acquire_decode_session and remove_decode_session
\* reject a closed session's handle for good.
THEOREM NoHandleRevives == Spec => StaleHandlesStayStale
  <1>1. QED
    BY StaleStep, InvariantHolds, FirstRoundHolds, PTL DEF Spec, StaleHandlesStayStale

-----------------------------------------------------------------------------

(***************************************************************************)
(* The steps of an encoder are steps of the registry.                      *)
(***************************************************************************)

\* The frame on top of a stack is one of the slots, and holds its session.
LEMMA TopFrame ==
  ASSUME IInv, NEW t \in Threads, NEW s \in Sessions, NEW k \in FrameKinds, InFrame(t, k, s)
  PROVE  /\ Top(t) \in Slots /\ stack[Top(t)] = [kind |-> k, session |-> s]
         /\ stack[Top(t)].kind = k /\ stack[Top(t)].session = s
         /\ depth[t] > 0 /\ phase = "loaded"
  <1>1. depth[t] \in Depths
    BY MaxDepthAssumption DEF IInv, TypeOK, Depths, InFrame
  <1>2. /\ Top(t) \in Slots /\ depth[t] > 0 /\ depth[t] # 0
        /\ stack[Top(t)] = [kind |-> k, session |-> s]
    BY <1>1 DEF InFrame, Top, Slots, Depths
  <1>3. stack[Top(t)].kind = k /\ stack[Top(t)].session = s
    BY <1>2
  <1>4. phase = "loaded"
    BY <1>2 DEF IInv, Quiescence
  <1>5. QED
    BY <1>2, <1>3, <1>4

\* finishEncoder removes the handle of the context it uses: a release of that
\* handle which leaves the context to the finish, or nothing at all.
LEMMA FinishRemovesIsRelease ==
  ASSUME EncInv, NEW t \in Threads, NEW s \in Sessions, FinishRemoves(t, s)
  PROVE  \/ UNCHANGED vars
         \/ handleOf[s] \in Handles /\ ReleaseDecoder(t, handleOf[s])
  <1>1. /\ InFrame(t, "using", s) /\ duty[Top(t)] = "remove"
        /\ UNCHANGED <<heap, stack, depth, known, library>>
    BY DEF FinishRemoves, Proceed
  <1>2. /\ Top(t) \in Slots /\ stack[Top(t)] = [kind |-> "using", session |-> s]
        /\ phase = "loaded"
    BY <1>1, TopFrame DEF EncInv, FrameKinds
  <1>3. Holds(Top(t), {"using"}, s)
    BY <1>2 DEF Holds
  <1>4. handleOf[s] \in known /\ handleOf[s] \in Handles
    BY <1>2, <1>3 DEF EncInv, HandlesAreNew, IInv, TypeOK
  <1>5. refCount[s] = 1
    BY <1>2, <1>3 DEF EncInv, IInv, Accounting
  <1>6. depth[t] < MaxDepth
    BY <1>1, <1>2 DEF EncInv, DutyFollowsCall, Top
  <1>7. CASE handleOf[s] \notin LiveHandles /\ UNCHANGED <<registry, nextHandle, fields>>
    BY <1>1, <1>7 DEF vars
  <1>8. ASSUME NEW e \in registry, e.handle = handleOf[s], Unlink(e)
        PROVE  handleOf[s] \in Handles /\ ReleaseDecoder(t, handleOf[s])
    <2>1. e.session = s
      <3>1. e.session \in Sessions /\ handleOf[e.session] = e.handle
        BY DEF EncInv, IInv, TypeOK, Issued
      <3>2. handleOf[e.session] # NoHandle
        BY <1>4, <1>8, <3>1 DEF Handles, NoHandle
      <3>3. QED
        BY <1>8, <3>1, <3>2 DEF EncInv, HandlesAreNew
    <2>2. ~DestroyOnRemove(e.session)
      BY <1>5, <2>1 DEF DestroyOnRemove
    <2>3. InJava(t)
      BY <1>1, <1>2 DEF InJava
    <2>4. QED
      BY <1>1, <1>4, <1>6, <1>8, <2>2, <2>3 DEF ReleaseDecoder
  <1>9. QED
    BY <1>7, <1>8 DEF FinishRemoves

LEMMA EncoderStepIsRegistryStep ==
  ASSUME EncInv, [EncNext]_allVars
  PROVE  [Next]_vars
  <1>1. ASSUME NEW t \in Threads, NEW s \in Sessions, BeginOpenEncoder(t, s) \/ OpenEncoderStep(t, s)
        PROVE  [Next]_vars
    <2>1. CASE BeginOpenEncoder(t, s) \/ AbandonEncoder(t, s) \/ RegisterContext(t, s)
               \/ PublishContext(t, s)
      BY <2>1 DEF BeginOpenEncoder, AbandonEncoder, RegisterContext, PublishContext, Next, OpenStep
    <2>2. CASE PrepareOutput(t, s) \/ NewEncoder(t, s) \/ BuildMetadata(t, s) \/ SetMetadata(t, s)
               \/ InitEncoder(t, s)
      <3>1. UNCHANGED vars
        BY <2>2 DEF PrepareOutput, NewEncoder, BuildMetadata, SetMetadata, InitEncoder, OpenStage
      <3>2. QED
        BY <3>1
    <2>3. QED
      BY <1>1, <2>1, <2>2 DEF OpenEncoderStep
  <1>2. ASSUME NEW t \in Threads, NEW s \in Sessions, WriteEncoderReturns(t, s) \/ FinishEncoderStep(t, s)
        PROVE  [Next]_vars
    <2>1. CASE WriteEncoderReturns(t, s) \/ FinishEncoderReturns(t, s)
      BY <2>1 DEF WriteEncoderReturns, FinishEncoderReturns, Next
    <2>2. CASE FinishRemoves(t, s)
      <3>1. CASE UNCHANGED vars
        BY <3>1
      <3>2. CASE handleOf[s] \in Handles /\ ReleaseDecoder(t, handleOf[s])
        BY <3>2 DEF Next
      <3>3. QED
        BY <2>2, <3>1, <3>2, FinishRemovesIsRelease
    <2>3. CASE FinishStream(t, s) \/ FlushStream(t, s)
      <3>1. UNCHANGED vars
        BY <2>3 DEF FinishStream, FlushStream
      <3>2. QED
        BY <3>1
    <2>4. QED
      BY <1>2, <2>1, <2>2, <2>3 DEF FinishEncoderStep
  <1>3. ASSUME NEW t \in Threads, NEW s \in Sessions, DestroyContext(t, s)
        PROVE  [Next]_vars
    BY <1>3 DEF DestroyContext, DestroyStep, Next
  <1>4. ASSUME NEW t \in Threads, NEW h \in Handles,
               BeginWriteEncoder(t, h) \/ BeginFinishEncoder(t, h) \/ ReleaseEncoder(t, h)
        PROVE  [Next]_vars
    BY <1>4 DEF BeginWriteEncoder, BeginFinishEncoder, AcquireContext, ReleaseEncoder, Next
  <1>5. CASE UnloadContexts
    BY <1>5 DEF UnloadContexts, Next
  <1>6. CASE FinishUnload
    <2>1. CASE Unloaded
      BY <2>1 DEF Next
    <2>2. ASSUME NEW s \in detached, DestroyStep(s) \/ DestroyDetached(s)
          PROVE  [Next]_vars
      BY <2>2 DEF DestroyStep, Next, EncInv, IInv, TypeOK
    <2>3. QED
      BY <1>6, <2>1, <2>2 DEF FinishUnload
  <1>7. CASE Terminated \/ UNCHANGED allVars
    BY <1>7 DEF Terminated, allVars
  <1>8. QED
    BY <1>1, <1>2, <1>3, <1>4, <1>5, <1>6, <1>7 DEF EncNext, UnwindEncoder

(***************************************************************************)
(* Types.                                                                  *)
(***************************************************************************)

LEMMA StageKeepsTypes ==
  ASSUME EncInv, NEW t \in Threads, NEW s \in Sessions, OpenEncoderStep(t, s)
  PROVE  EncTypeOK'
  <1>1. ASSUME NEW from, NEW to \in Stages, NEW new \in SUBSET Resources,
               OpenStage(t, s, from, to, new), attached' \in [Sessions -> BOOLEAN]
        PROVE  EncTypeOK'
    BY <1>1 DEF EncInv, EncTypeOK, OpenStage
  <1>2. owns[s] \in SUBSET Resources
    BY DEF EncInv, EncTypeOK
  <1>3. CASE PrepareOutput(t, s)
    <2>1. owns[s] \cup (IF transport[s] = "file" THEN {} ELSE {"reference"}) \in SUBSET Resources
      BY <1>2 DEF Resources
    <2>2. attached' \in [Sessions -> BOOLEAN]
      BY <1>3 DEF PrepareOutput, EncInv, EncTypeOK
    <2>3. QED
      BY <1>1, <1>3, <2>1, <2>2 DEF PrepareOutput, Stages
  <1>4. CASE NewEncoder(t, s)
    <2>1. owns[s] \cup {"encoder"} \in SUBSET Resources
      BY <1>2 DEF Resources
    <2>2. attached' \in [Sessions -> BOOLEAN]
      BY <1>4 DEF NewEncoder, EncInv, EncTypeOK
    <2>3. QED
      BY <1>1, <1>4, <2>1, <2>2 DEF NewEncoder, Stages
  <1>5. CASE BuildMetadata(t, s)
    <2>1. PICK new \in {{}, {"blocks"}} : OpenStage(t, s, "configured", "built", owns[s] \cup new)
      BY <1>5 DEF BuildMetadata
    <2>2. owns[s] \cup new \in SUBSET Resources
      BY <1>2 DEF Resources
    <2>3. attached' \in [Sessions -> BOOLEAN]
      BY <1>5 DEF BuildMetadata, EncInv, EncTypeOK
    <2>4. QED
      BY <1>1, <2>1, <2>2, <2>3 DEF Stages
  <1>6. CASE SetMetadata(t, s)
    <2>1. attached' \in [Sessions -> BOOLEAN]
      BY <1>6 DEF SetMetadata, EncInv, EncTypeOK
    <2>2. QED
      BY <1>1, <1>2, <1>6, <2>1 DEF SetMetadata, Stages
  <1>7. CASE InitEncoder(t, s)
    <2>1. owns[s] \ {"path"} \in SUBSET Resources
      BY <1>2
    <2>2. attached' \in [Sessions -> BOOLEAN]
      BY <1>7 DEF InitEncoder, EncInv, EncTypeOK
    <2>3. QED
      BY <1>1, <1>7, <2>1, <2>2 DEF InitEncoder, Stages
  <1>8. CASE AbandonEncoder(t, s)
    BY <1>2, <1>8 DEF AbandonEncoder, EncInv, EncTypeOK
  <1>9. CASE RegisterContext(t, s) \/ PublishContext(t, s)
    BY <1>9 DEF RegisterContext, PublishContext, encVars, EncInv, EncTypeOK
  <1>10. QED
    BY <1>3, <1>4, <1>5, <1>6, <1>7, <1>8, <1>9 DEF OpenEncoderStep

LEMMA NextKeepsTypes ==
  ASSUME EncInv, [EncNext]_allVars
  PROVE  EncTypeOK'
  <1>1. ASSUME UNCHANGED encVars
        PROVE  EncTypeOK'
    BY <1>1 DEF encVars, EncInv, EncTypeOK
  <1>2. ASSUME NEW s \in Sessions, DestroyStep(s)
        PROVE  EncTypeOK'
    <2>1. PICK x : owns' = [owns EXCEPT ![s] = @ \ {x}]
      BY <1>2 DEF DestroyStep
    <2>2. QED
      BY <1>2, <2>1 DEF DestroyStep, EncInv, EncTypeOK
  <1>3. ASSUME NEW t \in Threads, NEW s \in Sessions, BeginOpenEncoder(t, s)
        PROVE  EncTypeOK'
    BY <1>3 DEF BeginOpenEncoder, EncInv, EncTypeOK, Resources
  <1>4. ASSUME NEW t \in Threads, NEW s \in Sessions, NEW from, NEW to \in Duties, Proceed(t, s, from, to)
        PROVE  EncTypeOK'
    BY <1>4 DEF Proceed, EncInv, EncTypeOK
  <1>5. ASSUME NEW t \in Threads, NEW s \in Sessions,
               WriteEncoderReturns(t, s) \/ FinishEncoderStep(t, s)
        PROVE  EncTypeOK'
    BY <1>4, <1>5 DEF WriteEncoderReturns, FinishEncoderStep, FinishRemoves, FinishStream, FlushStream,
                      FinishEncoderReturns, Duties
  <1>6. ASSUME NEW t \in Threads, NEW h \in Handles, NEW d \in Duties, AcquireContext(t, h, d)
        PROVE  EncTypeOK'
    BY <1>6 DEF AcquireContext, EncInv, EncTypeOK
  <1>7. ASSUME NEW t \in Threads, NEW h \in Handles,
               BeginWriteEncoder(t, h) \/ BeginFinishEncoder(t, h) \/ ReleaseEncoder(t, h)
        PROVE  EncTypeOK'
    BY <1>1, <1>6, <1>7 DEF BeginWriteEncoder, BeginFinishEncoder, ReleaseEncoder, Duties
  <1>8. CASE UnloadContexts
    BY <1>8 DEF UnloadContexts, EncInv, EncTypeOK
  <1>9. CASE FinishUnload \/ (Terminated /\ UNCHANGED encVars) \/ UNCHANGED allVars
    BY <1>1, <1>2, <1>9 DEF FinishUnload, allVars, EncInv, IInv, TypeOK
  <1>10. ASSUME NEW t \in Threads, NEW s \in Sessions, DestroyContext(t, s)
         PROVE  EncTypeOK'
    BY <1>1, <1>2, <1>10 DEF DestroyContext
  <1>11. QED
    BY <1>3, <1>5, <1>7, <1>8, <1>9, <1>10, StageKeepsTypes DEF EncNext, UnwindEncoder

(***************************************************************************)
(* Handles and duties.                                                     *)
(***************************************************************************)

\* The calls that are operations stay what they are.
SameCalls ==
  \A p \in Slots : stack'[p] = stack[p] \/ (stack'[p].kind # "using" /\ stack[p].kind # "using")

HandlesKept == HandlesAreNew' /\ DutyFollowsCall'

LEMMA SameCallsKeepHandles ==
  ASSUME EncInv, SameCalls, duty' = duty, handleOf' = handleOf, known \subseteq known',
         registry' \subseteq registry
  PROVE  HandlesKept
  <1>1. HandlesAreNew'
    BY DEF EncInv, HandlesAreNew, SameCalls, Holds
  <1>2. LiveHandles' \subseteq LiveHandles
    BY DEF LiveHandles
  <1>3. DutyFollowsCall'
    BY <1>2 DEF EncInv, DutyFollowsCall, SameCalls
  <1>4. QED
    BY <1>1, <1>3 DEF HandlesKept

\* Only the slot q changes, and it holds no operation before or after.
LEMMA OneSlotSameCalls ==
  ASSUME NEW q \in Slots, \A p \in Slots : p # q => stack'[p] = stack[p],
         stack[q].kind # "using", stack'[q].kind # "using"
  PROVE  SameCalls
  BY DEF SameCalls

\* The calls that open context r stay on their stacks.
SameOpening(r) == \A p \in Slots : Holds(p, {"opening"}, r) => stack'[p] = stack[p]

LEMMA OneSlotSameOpening ==
  ASSUME NEW q \in Slots, \A p \in Slots : p # q => stack'[p] = stack[p],
         NEW r \in Sessions, stack[q].kind # "opening" \/ stack[q].session # r
  PROVE  SameOpening(r)
  BY DEF SameOpening, Holds

\* A new call.
LEMMA PushKeepsCalls ==
  ASSUME EncInv, NEW t \in Threads, NEW s \in Sessions, NEW k \in FrameKinds \ {"none"}, Push(t, k, s)
  PROVE  /\ k # "using" => SameCalls
         /\ \A r \in Sessions : SameOpening(r)
  <1> DEFINE q == <<t, depth[t] + 1>>
  <1>1. /\ q \in Slots /\ stack[q] = NoFrame /\ stack'[q] = [kind |-> k, session |-> s]
        /\ \A p \in Slots : p # q => stack'[p] = stack[p]
    BY PushSlots DEF EncInv, IInv
  <1>2. stack[q].kind = "none" /\ stack'[q].kind = k
    BY <1>1 DEF NoFrame
  <1>3. QED
    BY <1>1, <1>2, OneSlotSameCalls, OneSlotSameOpening

\* The call on top goes on as another, or returns.
LEMMA TopKeepsCalls ==
  ASSUME EncInv, NEW t \in Threads, NEW s \in Sessions, NEW k \in FrameKinds, InFrame(t, k, s),
         NEW l \in FrameKinds \ {"none", "using"}, Become(t, l, s) \/ Pop(t)
  PROVE  /\ k # "using" => SameCalls
         /\ \A r \in Sessions : r # s \/ k # "opening" => SameOpening(r)
  <1>1. Top(t) \in Slots /\ stack[Top(t)].kind = k /\ stack[Top(t)].session = s /\ depth[t] > 0
    BY TopFrame DEF EncInv
  <1>2. /\ stack'[Top(t)] = [kind |-> l, session |-> s] \/ stack'[Top(t)] = NoFrame
        /\ \A p \in Slots : p # Top(t) => stack'[p] = stack[p]
    BY <1>1, BecomeSlots, PopSlots DEF EncInv, IInv, Top
  <1>3. stack'[Top(t)].kind # "using"
    BY <1>2 DEF NoFrame
  <1>4. QED
    BY <1>1, <1>2, <1>3, OneSlotSameCalls, OneSlotSameOpening

LEMMA RegisterKeepsHandles ==
  ASSUME EncInv, NEW t \in Threads, NEW s \in Sessions, RegisterContext(t, s)
  PROVE  HandlesKept
  <1>1. /\ InFrame(t, "opening", s) /\ Become(t, "publishing", s) /\ UNCHANGED <<known, duty>>
        /\ \A x \in Sessions : handleOf[x] < handleOf'[s]
    BY DEF RegisterContext, Register, encVars
  <1>2. PICK h \in Handles :
          /\ registry' = registry \cup {[handle |-> h, session |-> s]}
          /\ handleOf' = [handleOf EXCEPT ![s] = h]
    BY DEF RegisterContext, Register
  <1>3. /\ Top(t) \in Slots /\ stack[Top(t)] = [kind |-> "opening", session |-> s]
        /\ depth[t] > 0
    BY <1>1, TopFrame DEF EncInv, FrameKinds
  <1>4. /\ \A p \in Slots : p # Top(t) => stack'[p] = stack[p]
        /\ stack'[Top(t)] = [kind |-> "publishing", session |-> s]
    BY <1>1, <1>3, BecomeSlots DEF EncInv, IInv, FrameKinds, Top
  <1>5. SameCalls
    BY <1>3, <1>4, OneSlotSameCalls
  <1>6. \A x \in Sessions : handleOf[x] < h /\ handleOf[x] \in Nat
    BY <1>1, <1>2 DEF EncInv, IInv, TypeOK, Handles, NoHandle
  <1>7. /\ handleOf'[s] = h /\ h \in Nat
        /\ \A x \in Sessions : x # s => handleOf'[x] = handleOf[x]
    BY <1>2 DEF EncInv, IInv, TypeOK, Handles
  <1>8. \A p \in Slots : stack[p].kind = "using" => stack[p].session # s
    BY <1>3 DEF EncInv, IInv, SoleOpener, Holds, Holding
  <1>9. HandlesAreNew'
    <2>1. ASSUME NEW r \in Sessions, NEW x \in Sessions, handleOf'[r] # NoHandle, handleOf'[r] = handleOf'[x]
          PROVE  r = x
      BY <2>1, <1>6, <1>7 DEF EncInv, HandlesAreNew
    <2>2. ASSUME NEW x \in Sessions, NEW p \in Slots, Holds(p, {"using"}, x)'
          PROVE  handleOf'[x] \in known'
      BY <2>2, <1>1, <1>5, <1>7, <1>8 DEF EncInv, HandlesAreNew, SameCalls, Holds
    <2>3. QED
      BY <2>1, <2>2 DEF HandlesAreNew
  <1>10. DutyFollowsCall'
    <2> SUFFICES ASSUME NEW p \in Slots
                 PROVE  (/\ duty[p] # "none" => stack[p].kind = "using"
                         /\ duty[p] = "remove" => p[2] < MaxDepth
                         /\ duty[p] \in {"finish", "flush", "return"} =>
                              handleOf[stack[p].session] \notin LiveHandles)'
      BY DEF DutyFollowsCall
    <2>1. CASE duty[p] = "none"
      BY <2>1, <1>1
    <2>2. CASE duty[p] # "none"
      <3>1. stack[p].kind = "using" /\ stack'[p] = stack[p] /\ stack[p].session \in Sessions
        BY <2>2, <1>5 DEF EncInv, DutyFollowsCall, SameCalls, IInv, StackShape, Slots, NoFrame
      <3>2. handleOf'[stack[p].session] = handleOf[stack[p].session] /\ handleOf[stack[p].session] # h
        BY <3>1, <1>6, <1>7, <1>8
      <3>3. LiveHandles' \subseteq LiveHandles \cup {h}
        <4>1. \A e \in registry' : e \in registry \/ e.handle = h
          BY <1>2
        <4>2. QED
          BY <4>1 DEF LiveHandles
      <3>4. QED
        BY <1>1, <3>1, <3>2, <3>3 DEF EncInv, DutyFollowsCall
    <2>3. QED
      BY <2>1, <2>2
  <1>11. QED
    BY <1>9, <1>10 DEF HandlesKept
LEMMA AcquireKeepsHandles ==
  ASSUME EncInv, NEW t \in Threads, NEW h \in Handles, NEW d \in Duties, AcquireContext(t, h, d),
         d \in {"write", "remove"}, d = "remove" => depth[t] + 1 < MaxDepth
  PROVE  HandlesKept
  <1> DEFINE top == <<t, depth[t] + 1>>
  <1>1. PICK e \in registry : e.handle = h /\ Push(t, "using", e.session)
    BY DEF AcquireContext, Acquire
  <1>2. /\ h \in known /\ UNCHANGED <<registry, handleOf, known>>
        /\ duty' = [duty EXCEPT ![top] = d]
    BY DEF AcquireContext, Acquire
  <1>3. e.session \in Sessions /\ handleOf[e.session] = h
    BY <1>1 DEF EncInv, IInv, TypeOK, Issued
  <1>4. /\ top \in Slots /\ stack'[top] = [kind |-> "using", session |-> e.session]
        /\ \A p \in Slots : p # top => stack'[p] = stack[p]
    BY <1>1, <1>3, PushSlots DEF EncInv, IInv, FrameKinds
  <1>5. duty'[top] = d /\ \A p \in Slots : p # top => duty'[p] = duty[p]
    BY <1>2, <1>4 DEF EncInv, EncTypeOK
  <1>6. HandlesAreNew'
    BY <1>2, <1>3, <1>4 DEF EncInv, HandlesAreNew, Holds
  <1>7. LiveHandles' = LiveHandles
    BY <1>2 DEF LiveHandles
  <1>8. DutyFollowsCall'
    BY <1>2, <1>4, <1>5, <1>7 DEF EncInv, DutyFollowsCall
  <1>9. QED
    BY <1>6, <1>8 DEF HandlesKept

\* An operation gives its reference back.
LEMMA ReturnKeepsHandles ==
  ASSUME EncInv, NEW t \in Threads, NEW s \in Sessions, NEW from \in Duties,
         Proceed(t, s, from, "none"), ReleaseReference(t, s)
  PROVE  HandlesKept
  <1>1. /\ InFrame(t, "using", s) /\ duty' = [duty EXCEPT ![Top(t)] = "none"]
        /\ UNCHANGED <<registry, handleOf, known>> /\ (Become(t, "destroying", s) \/ Pop(t))
    BY DEF Proceed, ReleaseReference
  <1>2. Top(t) \in Slots /\ depth[t] > 0
    BY <1>1, TopFrame DEF EncInv, FrameKinds, InFrame
  <1>3. \A p \in Slots : p # Top(t) => stack'[p] = stack[p]
    BY <1>1, <1>2, BecomeSlots, PopSlots DEF EncInv, IInv, FrameKinds, Top
  <1>4. stack'[Top(t)].kind # "using"
    <2>1. \/ stack'[Top(t)] = [kind |-> "destroying", session |-> s]
          \/ stack'[Top(t)] = NoFrame
      BY <1>1, <1>2, BecomeSlots, PopSlots DEF EncInv, IInv, FrameKinds, Top
    <2>2. QED
      BY <2>1 DEF NoFrame
  <1>5. duty'[Top(t)] = "none" /\ \A p \in Slots : p # Top(t) => duty'[p] = duty[p]
    BY <1>1, <1>2 DEF EncInv, EncTypeOK
  <1>6. HandlesAreNew'
    BY <1>1, <1>3, <1>4 DEF EncInv, HandlesAreNew, Holds
  <1>7. LiveHandles' = LiveHandles
    BY <1>1 DEF LiveHandles
  <1>8. DutyFollowsCall'
    BY <1>1, <1>3, <1>5, <1>7 DEF EncInv, DutyFollowsCall
  <1>9. QED
    BY <1>6, <1>8 DEF HandlesKept

\* After the removal the handle of the context is dead.
LEMMA FinishKeepsHandles ==
  ASSUME EncInv, NEW t \in Threads, NEW s \in Sessions,
         FinishRemoves(t, s) \/ FinishStream(t, s) \/ FlushStream(t, s)
  PROVE  HandlesKept
  <1>1. PICK from \in Duties, to \in {"finish", "flush", "return"} :
          /\ Proceed(t, s, from, to)
          /\ from \in {"finish", "flush", "return"} \/ FinishRemoves(t, s)
    BY DEF FinishRemoves, FinishStream, FlushStream, Duties
  <1>2. /\ registry' \subseteq registry /\ UNCHANGED <<handleOf, stack, known>>
    BY DEF FinishRemoves, FinishStream, FlushStream, Unlink, fields, vars
  <1>3. /\ InFrame(t, "using", s) /\ duty[Top(t)] = from /\ duty' = [duty EXCEPT ![Top(t)] = to]
    BY <1>1 DEF Proceed
  <1>4. Top(t) \in Slots /\ stack[Top(t)] = [kind |-> "using", session |-> s]
    BY <1>3, TopFrame DEF EncInv, FrameKinds
  <1>5. duty'[Top(t)] = to /\ \A p \in Slots : p # Top(t) => duty'[p] = duty[p]
    BY <1>3, <1>4 DEF EncInv, EncTypeOK
  <1>6. HandlesAreNew'
    BY <1>2 DEF EncInv, HandlesAreNew, Holds
  <1>7. LiveHandles' \subseteq LiveHandles
    BY <1>2 DEF LiveHandles
  <1>8. handleOf[s] \notin LiveHandles'
    <2>1. CASE handleOf[s] \notin LiveHandles
      BY <1>7, <2>1
    <2>2. CASE FinishRemoves(t, s) /\ handleOf[s] \in LiveHandles
      <3>1. PICK e \in registry : e.handle = handleOf[s] /\ Unlink(e)
        BY <2>2 DEF FinishRemoves
      <3>2. \A f \in registry' : f \in registry /\ f # e
        BY <3>1 DEF Unlink
      <3>3. \A f \in registry' : f.handle # handleOf[s]
        BY <3>1, <3>2 DEF EncInv, IInv, HandlesNameOneSession
      <3>4. QED
        BY <3>3 DEF LiveHandles
    <2>3. QED
      BY <1>1, <1>3, <1>4, <2>1, <2>2 DEF EncInv, DutyFollowsCall
  <1>9. DutyFollowsCall'
    BY <1>2, <1>4, <1>5, <1>7, <1>8 DEF EncInv, DutyFollowsCall
  <1>10. QED
    BY <1>6, <1>9 DEF HandlesKept
LEMMA NextKeepsHandles ==
  ASSUME EncInv, [EncNext]_allVars
  PROVE  HandlesKept
  <1>1. ASSUME UNCHANGED <<vars, duty>>
        PROVE  HandlesKept
    BY <1>1, SameCallsKeepHandles DEF vars, fields, SameCalls
  <1>2. ASSUME NEW s \in Sessions, DestroyStep(s)
        PROVE  HandlesKept
    BY <1>1, <1>2 DEF DestroyStep
  <1>3. ASSUME NEW t \in Threads, NEW s \in Sessions, BeginOpenEncoder(t, s) \/ OpenEncoderStep(t, s)
        PROVE  HandlesKept
    <2>1. CASE BeginOpenEncoder(t, s)
      <3>1. Push(t, "opening", s) /\ UNCHANGED <<duty, handleOf, known, registry>>
        BY <2>1 DEF BeginOpenEncoder, BeginOpen, fields
      <3>2. SameCalls
        BY <3>1, PushKeepsCalls DEF FrameKinds
      <3>3. QED
        BY <3>1, <3>2, SameCallsKeepHandles
    <2>2. CASE PrepareOutput(t, s) \/ NewEncoder(t, s) \/ BuildMetadata(t, s) \/ SetMetadata(t, s)
               \/ InitEncoder(t, s)
      BY <1>1, <2>2 DEF PrepareOutput, NewEncoder, BuildMetadata, SetMetadata, InitEncoder, OpenStage
    <2>3. CASE AbandonEncoder(t, s)
      <3>1. /\ InFrame(t, "opening", s) /\ Become(t, "destroying", s)
            /\ UNCHANGED <<duty, handleOf, known, registry>>
        BY <2>3 DEF AbandonEncoder, AbandonOpen, fields
      <3>2. SameCalls
        BY <3>1, TopKeepsCalls DEF FrameKinds
      <3>3. QED
        BY <3>1, <3>2, SameCallsKeepHandles
    <2>4. CASE RegisterContext(t, s)
      BY <2>4, RegisterKeepsHandles
    <2>5. CASE PublishContext(t, s)
      <3>1. /\ InFrame(t, "publishing", s) /\ Pop(t) /\ known \subseteq known'
            /\ UNCHANGED <<duty, handleOf, registry>>
        BY <2>5 DEF PublishContext, Publish, fields, encVars
      <3>2. SameCalls
        BY <3>1, TopKeepsCalls DEF FrameKinds
      <3>3. QED
        BY <3>1, <3>2, SameCallsKeepHandles
    <2>6. QED
      BY <1>3, <2>1, <2>2, <2>3, <2>4, <2>5 DEF OpenEncoderStep
  <1>4. ASSUME NEW t \in Threads, NEW s \in Sessions, WriteEncoderReturns(t, s) \/ FinishEncoderStep(t, s)
        PROVE  HandlesKept
    BY <1>4, ReturnKeepsHandles, FinishKeepsHandles
       DEF WriteEncoderReturns, FinishEncoderStep, FinishEncoderReturns, Duties
  <1>5. ASSUME NEW t \in Threads, NEW s \in Sessions, DestroyContext(t, s)
        PROVE  HandlesKept
    <2>1. CASE Destroy(t, s) /\ UNCHANGED encVars
      <3>1. /\ InFrame(t, "destroying", s) /\ Pop(t) /\ UNCHANGED <<duty, handleOf, known, registry>>
        BY <2>1 DEF Destroy, fields, encVars
      <3>2. SameCalls
        BY <3>1, TopKeepsCalls DEF FrameKinds
      <3>3. QED
        BY <3>1, <3>2, SameCallsKeepHandles
    <2>2. QED
      BY <1>2, <1>5, <2>1 DEF DestroyContext
  <1>6. ASSUME NEW t \in Threads, NEW h \in Handles, BeginWriteEncoder(t, h) \/ BeginFinishEncoder(t, h)
        PROVE  HandlesKept
    <2>1. CASE BeginWriteEncoder(t, h)
      BY <2>1, AcquireKeepsHandles DEF BeginWriteEncoder, Duties
    <2>2. CASE BeginFinishEncoder(t, h)
      BY <2>2, AcquireKeepsHandles DEF BeginFinishEncoder, Duties
    <2>3. QED
      BY <1>6, <2>1, <2>2
  <1>7. ASSUME NEW t \in Threads, NEW h \in Handles, ReleaseEncoder(t, h)
        PROVE  HandlesKept
    <2>1. PICK e \in registry : Unlink(e) /\ (Push(t, "destroying", e.session) \/ UNCHANGED stack)
      BY <1>7 DEF ReleaseEncoder, ReleaseDecoder
    <2>2. registry' \subseteq registry /\ UNCHANGED <<duty, handleOf, known>>
      BY <1>7, <2>1 DEF ReleaseEncoder, ReleaseDecoder, Unlink, encVars
    <2>3. SameCalls
      <3>1. e.session \in Sessions
        BY DEF EncInv, IInv, TypeOK
      <3>2. CASE Push(t, "destroying", e.session)
        BY <3>1, <3>2, PushKeepsCalls DEF FrameKinds
      <3>3. QED
        BY <2>1, <3>2 DEF SameCalls
    <2>4. QED
      BY <2>2, <2>3, SameCallsKeepHandles
  <1>8. CASE UnloadContexts \/ (Unloaded /\ UNCHANGED encVars)
    <2>1. registry' \subseteq registry /\ UNCHANGED <<duty, handleOf, known, stack>>
      BY <1>8 DEF UnloadContexts, Unload, Unloaded, fields, encVars
    <2>2. QED
      BY <2>1, SameCallsKeepHandles DEF SameCalls
  <1>9. ASSUME NEW s \in detached, DestroyDetached(s) /\ UNCHANGED encVars
        PROVE  HandlesKept
    <2>1. registry' \subseteq registry /\ UNCHANGED <<duty, handleOf, known, stack>>
      BY <1>9 DEF DestroyDetached, fields, encVars
    <2>2. QED
      BY <2>1, SameCallsKeepHandles DEF SameCalls
  <1>10. CASE FinishUnload
    BY <1>2, <1>8, <1>9, <1>10 DEF FinishUnload, EncInv, IInv, TypeOK
  <1>11. CASE (Terminated /\ UNCHANGED encVars) \/ UNCHANGED allVars
    BY <1>1, <1>11 DEF Terminated, allVars, encVars
  <1>12. ASSUME NEW t \in Threads, NEW s \in Sessions, BeginOpenEncoder(t, s) \/ UnwindEncoder(t, s)
         PROVE  HandlesKept
    BY <1>3, <1>4, <1>5, <1>12 DEF UnwindEncoder
  <1>13. QED
    BY <1>6, <1>7, <1>8, <1>10, <1>11, <1>12 DEF EncNext

(***************************************************************************)
(* The native objects of a context.                                        *)
(***************************************************************************)

\* A context the step does not touch.
LEMMA ContextKept ==
  ASSUME EncInv, NEW r \in Sessions, owns'[r] = owns[r], stage'[r] = stage[r],
         attached'[r] = attached[r], heap'[r] = heap[r], env' = env,
         "path" \notin owns[r] \/ SameOpening(r)
  PROVE  ContextState(r)'
  <1>1. ContextState(r)
    BY DEF EncInv
  <1>2. "path" \in owns[r] => \E p \in Slots : Holds(p, {"opening"}, r)'
    BY <1>1 DEF ContextState, SameOpening, Holds
  <1>3. QED
    BY <1>1, <1>2 DEF ContextState

\* What destroy_encode_context leaves when it has nothing to release.
LEMMA AllReleased ==
  ASSUME EncInv, NEW s \in Sessions, ToRelease(s) = {}, "path" \notin owns[s]
  PROVE  owns[s] \subseteq (IF env THEN {} ELSE {"reference"})
  <1>1. owns[s] \subseteq Resources
    BY DEF EncInv, EncTypeOK
  <1>2. /\ 1 \in DOMAIN DestroyOrder /\ DestroyOrder[1] = "encoder"
        /\ 2 \in DOMAIN DestroyOrder /\ DestroyOrder[2] = "blocks"
        /\ 3 \in DOMAIN DestroyOrder /\ DestroyOrder[3] = "reference"
    BY DEF DestroyOrder
  <1>3. "encoder" \notin owns[s] /\ "blocks" \notin owns[s]
    BY <1>2 DEF ToRelease
  <1>4. env => "reference" \notin owns[s]
    BY <1>2 DEF ToRelease
  <1>5. QED
    BY <1>1, <1>3, <1>4 DEF Resources

\* It deletes the encoder before the blocks that the encoder refers to.
LEMMA EncoderGoesFirst ==
  ASSUME EncInv, NEW s \in Sessions, DestroyStep(s)
  PROVE  /\ \A r \in Sessions : r # s => owns'[r] = owns[r]
         /\ owns'[s] \subseteq owns[s]
         /\ "encoder" \in owns'[s] => owns'[s] = owns[s]
  <1> DEFINE i == CHOOSE i \in ToRelease(s) : \A j \in ToRelease(s) : i <= j
  <1>1. owns' = [owns EXCEPT ![s] = owns[s] \ {DestroyOrder[i]}]
    BY DEF DestroyStep
  <1>2. owns'[s] = owns[s] \ {DestroyOrder[i]} /\ \A r \in Sessions : r # s => owns'[r] = owns[r]
    BY <1>1 DEF EncInv, EncTypeOK
  <1>3. ASSUME "encoder" \in owns[s]
        PROVE  DestroyOrder[i] = "encoder"
    <2>1. ToRelease(s) \subseteq 1 .. 3
      BY DEF ToRelease, DestroyOrder
    <2>2. 1 \in ToRelease(s) /\ DestroyOrder[1] = "encoder"
      BY <1>3 DEF ToRelease, DestroyOrder
    <2>3. \A j \in ToRelease(s) : 1 <= j
      BY <2>1
    <2>4. i \in ToRelease(s) /\ \A j \in ToRelease(s) : i <= j
      BY <2>2, <2>3
    <2>5. i = 1
      BY <2>1, <2>2, <2>4
    <2>6. QED
      BY <2>2, <2>5
  <1>4. QED
    BY <1>2, <1>3
ContextsKept == \A s \in Sessions : ContextState(s)'

LEMMA BeginOpenKeepsContexts ==
  ASSUME EncInv, NEW t \in Threads, NEW s \in Sessions, BeginOpenEncoder(t, s)
  PROVE  ContextsKept
  <1>1. /\ heap[s] = "unborn" /\ heap' = [heap EXCEPT ![s] = "allocated"] /\ Push(t, "opening", s)
        /\ UNCHANGED <<stage, attached, env>>
    BY DEF BeginOpenEncoder, BeginOpen
  <1>2. PICK new \in SUBSET {"path"} : owns' = [owns EXCEPT ![s] = new]
    BY DEF BeginOpenEncoder
  <1>3. owns'[s] \subseteq {"path"} /\ \A r \in Sessions : r # s => owns'[r] = owns[r]
    BY <1>2 DEF EncInv, EncTypeOK
  <1>4. heap'[s] = "allocated" /\ \A r \in Sessions : r # s => heap'[r] = heap[r]
    BY <1>1 DEF EncInv, IInv, TypeOK
  <1>5. \A r \in Sessions : SameOpening(r)
    BY <1>1, PushKeepsCalls DEF FrameKinds
  <1>6. \E p \in Slots : Holds(p, {"opening"}, s)'
    <2> DEFINE q == <<t, depth[t] + 1>>
    <2>1. q \in Slots /\ stack'[q] = [kind |-> "opening", session |-> s]
      BY <1>1, PushSlots DEF EncInv, IInv, FrameKinds
    <2>2. \A p \in Slots : stack'[p] = [kind |-> "opening", session |-> s] => Holds(p, {"opening"}, s)'
      BY DEF Holds
    <2>3. QED
      BY <2>1, <2>2
  <1>7. ContextState(s)'
    <2>1. ~attached[s] /\ stage[s] = "allocated"
      BY <1>1 DEF EncInv, ContextState
    <2>2. QED
      BY <1>1, <1>3, <1>4, <1>6, <2>1 DEF ContextState
  <1>8. ASSUME NEW r \in Sessions, r # s
        PROVE  ContextState(r)'
    BY <1>1, <1>3, <1>4, <1>5, <1>8, ContextKept
  <1>9. QED
    BY <1>7, <1>8 DEF ContextsKept

\* One stage of the open.
LEMMA StageKeepsContexts ==
  ASSUME EncInv, NEW t \in Threads, NEW s \in Sessions,
         PrepareOutput(t, s) \/ NewEncoder(t, s) \/ BuildMetadata(t, s) \/ SetMetadata(t, s)
         \/ InitEncoder(t, s)
  PROVE  ContextsKept
  <1>1. PICK from \in Stages, to \in Stages, new \in SUBSET Resources :
          /\ OpenStage(t, s, from, to, new)
          /\ from \in {"allocated", "prepared"} => to \in {"prepared", "configured"} /\ UNCHANGED attached
          /\ from = "configured" => to = "built" /\ UNCHANGED attached
          /\ from = "built" =>
               /\ to = "attached" /\ new = owns[s]
               /\ attached' = [attached EXCEPT ![s] = "blocks" \in owns[s]]
          /\ from = "attached" => to = "initialised" /\ new = owns[s] \ {"path"} /\ UNCHANGED attached
          /\ from # "initialised" /\ ("path" \in new => "path" \in owns[s])
    <2>1. owns[s] \in SUBSET Resources
      BY DEF EncInv, EncTypeOK
    <2>2. CASE PrepareOutput(t, s)
      <3> DEFINE new == owns[s] \cup (IF transport[s] = "file" THEN {} ELSE {"reference"})
      <3>1. OpenStage(t, s, "allocated", "prepared", new) /\ UNCHANGED attached
        BY <2>2 DEF PrepareOutput
      <3>2. new \in SUBSET Resources /\ ("path" \in new => "path" \in owns[s])
        BY <2>1 DEF Resources
      <3>3. QED
        BY <3>1, <3>2 DEF Stages
    <2>3. CASE NewEncoder(t, s)
      <3> DEFINE new == owns[s] \cup {"encoder"}
      <3>1. OpenStage(t, s, "prepared", "configured", new) /\ UNCHANGED attached
        BY <2>3 DEF NewEncoder
      <3>2. new \in SUBSET Resources /\ ("path" \in new => "path" \in owns[s])
        BY <2>1 DEF Resources
      <3>3. QED
        BY <3>1, <3>2 DEF Stages
    <2>4. CASE BuildMetadata(t, s)
      <3>1. PICK b \in {{}, {"blocks"}} : OpenStage(t, s, "configured", "built", owns[s] \cup b)
        BY <2>4 DEF BuildMetadata
      <3>2. owns[s] \cup b \in SUBSET Resources /\ ("path" \in owns[s] \cup b => "path" \in owns[s])
        BY <2>1 DEF Resources
      <3>3. UNCHANGED attached
        BY <2>4 DEF BuildMetadata
      <3>4. QED
        BY <3>1, <3>2, <3>3 DEF Stages
    <2>5. CASE SetMetadata(t, s)
      BY <2>1, <2>5 DEF SetMetadata, Stages
    <2>6. CASE InitEncoder(t, s)
      <3>1. owns[s] \ {"path"} \in SUBSET Resources
        BY <2>1
      <3>2. QED
        BY <2>6, <3>1 DEF InitEncoder, Stages
    <2>7. QED
      BY <2>2, <2>3, <2>4, <2>5, <2>6
  <1>2. /\ InFrame(t, "opening", s) /\ stage[s] = from
        /\ stage' = [stage EXCEPT ![s] = to] /\ owns' = [owns EXCEPT ![s] = new]
        /\ UNCHANGED <<heap, stack, env>>
    BY <1>1 DEF OpenStage, vars
  <1>3. /\ stage'[s] = to /\ owns'[s] = new
        /\ \A r \in Sessions : r # s => stage'[r] = stage[r] /\ owns'[r] = owns[r] /\ attached'[r] = attached[r]
    BY <1>1, <1>2 DEF EncInv, EncTypeOK, Stages
  <1>4. Holds(Top(t), {"opening"}, s) /\ Top(t) \in Slots
    BY <1>2, TopFrame DEF EncInv, FrameKinds, Holds
  <1>5. heap[s] = "allocated"
    BY <1>4 DEF EncInv, IInv, MemorySafe, Holds, Holding
  <1>6. ContextState(s)'
    <2>1. from = "built" => attached'[s] = ("blocks" \in owns[s])
      BY <1>1 DEF EncInv, EncTypeOK
    <2>2. from \in {"allocated", "prepared", "configured", "attached"} => attached'[s] = attached[s]
      BY <1>1
    <2>3. ContextState(s)
      BY DEF EncInv
    <2>4. \E p \in Slots : Holds(p, {"opening"}, s)'
      <3>1. \A p \in Slots : Holds(p, {"opening"}, s) => Holds(p, {"opening"}, s)'
        BY <1>2 DEF Holds
      <3>2. QED
        BY <1>4, <3>1
    <2>5. /\ "path" \in new => to # "initialised"
          /\ attached'[s] => to \in {"attached", "initialised"}
          /\ attached'[s] /\ "encoder" \in new => "blocks" \in new
      BY <1>1, <1>2, <2>1, <2>2, <2>3 DEF ContextState, Stages
    <2>6. QED
      BY <1>2, <1>3, <1>5, <2>4, <2>5 DEF ContextState
  <1>7. ASSUME NEW r \in Sessions, r # s
        PROVE  ContextState(r)'
    BY <1>2, <1>3, <1>7, ContextKept DEF SameOpening
  <1>8. QED
    BY <1>6, <1>7 DEF ContextsKept

LEMMA AbandonKeepsContexts ==
  ASSUME EncInv, NEW t \in Threads, NEW s \in Sessions, AbandonEncoder(t, s)
  PROVE  ContextsKept
  <1>1. /\ InFrame(t, "opening", s) /\ Become(t, "destroying", s)
        /\ owns' = [owns EXCEPT ![s] = @ \ {"path"}] /\ UNCHANGED <<heap, stage, attached, env>>
    BY DEF AbandonEncoder, AbandonOpen
  <1>2. owns'[s] = owns[s] \ {"path"} /\ \A r \in Sessions : r # s => owns'[r] = owns[r]
    BY <1>1 DEF EncInv, EncTypeOK
  <1>3. ContextState(s)'
    BY <1>1, <1>2 DEF EncInv, ContextState
  <1>4. \A r \in Sessions : r # s => SameOpening(r)
    BY <1>1, TopKeepsCalls DEF FrameKinds
  <1>5. ASSUME NEW r \in Sessions, r # s
        PROVE  ContextState(r)'
    BY <1>1, <1>2, <1>4, <1>5, ContextKept
  <1>6. QED
    BY <1>3, <1>5 DEF ContextsKept

\* Steps that leave memory and native objects alone.
LEMMA QuietKeepsContexts ==
  ASSUME EncInv, UNCHANGED <<owns, stage, attached, heap, env>>,
         \A r \in Sessions : "path" \notin owns[r] \/ SameOpening(r)
  PROVE  ContextsKept
  BY ContextKept DEF ContextsKept

\* A context is freed: it has no native object left, whoever frees it.
LEMMA FreeKeepsContexts ==
  ASSUME EncInv, NEW s \in Sessions, ToRelease(s) = {}, heap[s] = "allocated",
         heap' = [heap EXCEPT ![s] = "freed"], UNCHANGED <<owns, stage, attached, env>>,
         \A p \in Slots : ~Holds(p, {"opening"}, s),
         \A r \in Sessions : r # s => SameOpening(r)
  PROVE  ContextsKept
  <1>1. "path" \notin owns[s]
    BY DEF EncInv, ContextState
  <1>2. owns[s] \subseteq (IF env THEN {} ELSE {"reference"})
    BY <1>1, AllReleased
  <1>3. heap'[s] = "freed" /\ \A r \in Sessions : r # s => heap'[r] = heap[r]
    BY DEF EncInv, IInv, TypeOK
  <1>4. ContextState(s)'
    BY <1>1, <1>2, <1>3 DEF EncInv, ContextState
  <1>5. ASSUME NEW r \in Sessions, r # s
        PROVE  ContextState(r)'
    BY <1>3, <1>5, ContextKept
  <1>6. QED
    BY <1>4, <1>5 DEF ContextsKept

LEMMA DestroyStepKeepsContexts ==
  ASSUME EncInv, NEW s \in Sessions, DestroyStep(s), heap[s] = "allocated"
  PROVE  ContextsKept
  <1>1. UNCHANGED <<stage, attached, heap, stack, env>>
    BY DEF DestroyStep, vars
  <1>2. ContextState(s)'
    <2>1. ContextState(s)
      BY DEF EncInv
    <2>2. /\ "path" \in owns'[s] => "path" \in owns[s]
          /\ "encoder" \in owns'[s] => "encoder" \in owns[s] /\ owns'[s] = owns[s]
      BY EncoderGoesFirst
    <2>3. \A p \in Slots : Holds(p, {"opening"}, s) => Holds(p, {"opening"}, s)'
      BY <1>1 DEF Holds
    <2>4. QED
      BY <1>1, <2>1, <2>2, <2>3 DEF ContextState
  <1>3. ASSUME NEW r \in Sessions, r # s
        PROVE  ContextState(r)'
    BY <1>1, <1>3, EncoderGoesFirst, ContextKept DEF SameOpening
  <1>4. QED
    BY <1>2, <1>3 DEF ContextsKept
LEMMA NextKeepsContexts ==
  ASSUME EncInv, [EncNext]_allVars
  PROVE  ContextsKept
  <1>1. ASSUME UNCHANGED <<owns, stage, attached, heap, env, stack>>
        PROVE  ContextsKept
    BY <1>1, QuietKeepsContexts DEF SameOpening
  <1>2. ASSUME NEW t \in Threads, NEW s \in Sessions, RegisterContext(t, s) \/ PublishContext(t, s)
        PROVE  ContextsKept
    <2>1. CASE RegisterContext(t, s)
      <3>1. /\ InFrame(t, "opening", s) /\ Become(t, "publishing", s) /\ stage[s] = "initialised"
            /\ UNCHANGED <<owns, stage, attached, heap, env>>
        BY <2>1 DEF RegisterContext, Register, encVars
      <3>2. "path" \notin owns[s]
        BY <3>1 DEF EncInv, ContextState
      <3>3. \A r \in Sessions : r # s => SameOpening(r)
        BY <3>1, TopKeepsCalls DEF FrameKinds
      <3>4. QED
        BY <3>1, <3>2, <3>3, QuietKeepsContexts
    <2>2. CASE PublishContext(t, s)
      <3>1. /\ InFrame(t, "publishing", s) /\ Pop(t) /\ UNCHANGED <<owns, stage, attached, heap, env>>
        BY <2>2 DEF PublishContext, Publish, encVars
      <3>2. \A r \in Sessions : SameOpening(r)
        BY <3>1, TopKeepsCalls DEF FrameKinds
      <3>3. QED
        BY <3>1, <3>2, QuietKeepsContexts
    <2>3. QED
      BY <1>2, <2>1, <2>2
  <1>3. ASSUME NEW t \in Threads, NEW s \in Sessions, OpenEncoderStep(t, s)
        PROVE  ContextsKept
    BY <1>2, <1>3, StageKeepsContexts, AbandonKeepsContexts DEF OpenEncoderStep
  <1>4. ASSUME NEW t \in Threads, NEW s \in Sessions, WriteEncoderReturns(t, s) \/ FinishEncoderReturns(t, s)
        PROVE  ContextsKept
    <2>1. /\ InFrame(t, "using", s) /\ (Become(t, "destroying", s) \/ Pop(t))
          /\ UNCHANGED <<owns, stage, attached, heap, env>>
      BY <1>4 DEF WriteEncoderReturns, FinishEncoderReturns, Proceed, ReleaseReference
    <2>2. \A r \in Sessions : SameOpening(r)
      BY <2>1, TopKeepsCalls DEF FrameKinds
    <2>3. QED
      BY <2>1, <2>2, QuietKeepsContexts
  <1>5. ASSUME NEW t \in Threads, NEW s \in Sessions,
               FinishRemoves(t, s) \/ FinishStream(t, s) \/ FlushStream(t, s)
        PROVE  ContextsKept
    BY <1>1, <1>5 DEF FinishRemoves, FinishStream, FlushStream, Proceed, vars
  <1>6. ASSUME NEW t \in Threads, NEW s \in Sessions, DestroyContext(t, s)
        PROVE  ContextsKept
    <2>1. InFrame(t, "destroying", s)
      BY <1>6 DEF DestroyContext
    <2>2. Holds(Top(t), {"destroying"}, s) /\ Top(t) \in Slots
      BY <2>1, TopFrame DEF EncInv, FrameKinds, Holds
    <2>3. heap[s] = "allocated"
      BY <2>2 DEF EncInv, IInv, MemorySafe, Holds, Holding
    <2>4. CASE ToRelease(s) = {} /\ Destroy(t, s) /\ UNCHANGED encVars
      <3>1. /\ heap' = [heap EXCEPT ![s] = "freed"] /\ Pop(t) /\ UNCHANGED <<owns, stage, attached, env>>
        BY <2>4 DEF Destroy, encVars
      <3>2. \A r \in Sessions : SameOpening(r)
        BY <2>1, <3>1, TopKeepsCalls DEF FrameKinds
      <3>3. \A p \in Slots : ~Holds(p, {"opening"}, s)
        BY <2>2 DEF EncInv, IInv, SoleDestroyer, Holds, Holding
      <3>4. QED
        BY <2>3, <2>4, <3>1, <3>2, <3>3, FreeKeepsContexts
    <2>5. QED
      BY <1>6, <2>3, <2>4, DestroyStepKeepsContexts DEF DestroyContext
  <1>7. ASSUME NEW t \in Threads, NEW h \in Handles, NEW d, AcquireContext(t, h, d)
        PROVE  ContextsKept
    <2>1. PICK e \in registry : Push(t, "using", e.session)
      BY <1>7 DEF AcquireContext, Acquire
    <2>2. e.session \in Sessions
      BY DEF EncInv, IInv, TypeOK
    <2>3. \A r \in Sessions : SameOpening(r)
      BY <2>1, <2>2, PushKeepsCalls DEF FrameKinds
    <2>4. QED
      BY <1>7, <2>3, QuietKeepsContexts DEF AcquireContext, Acquire
  <1>8. ASSUME NEW t \in Threads, NEW h \in Handles, ReleaseEncoder(t, h)
        PROVE  ContextsKept
    <2>1. PICK e \in registry : Push(t, "destroying", e.session) \/ UNCHANGED stack
      BY <1>8 DEF ReleaseEncoder, ReleaseDecoder
    <2>2. e.session \in Sessions
      BY DEF EncInv, IInv, TypeOK
    <2>3. \A r \in Sessions : SameOpening(r)
      <3>1. CASE Push(t, "destroying", e.session)
        BY <2>2, <3>1, PushKeepsCalls DEF FrameKinds
      <3>2. QED
        BY <2>1, <3>1 DEF SameOpening
    <2>4. QED
      BY <1>8, <2>3, QuietKeepsContexts DEF ReleaseEncoder, ReleaseDecoder, encVars
  <1>9. CASE UnloadContexts
    <2>1. /\ UNCHANGED <<owns, stage, attached, heap, stack>> /\ env
      BY <1>9 DEF UnloadContexts, Unload, EncInv
    <2>2. ASSUME NEW r \in Sessions
          PROVE  ContextState(r)'
      <3>1. ContextState(r)
        BY DEF EncInv
      <3>2. \A p \in Slots : Holds(p, {"opening"}, r) => Holds(p, {"opening"}, r)'
        BY <2>1 DEF Holds
      <3>3. QED
        BY <2>1, <3>1, <3>2 DEF ContextState
    <2>3. QED
      BY <2>2 DEF ContextsKept
  <1>10. ASSUME NEW s \in detached, DestroyStep(s) \/ (ToRelease(s) = {} /\ DestroyDetached(s) /\ UNCHANGED encVars)
         PROVE  ContextsKept
    <2>1. s \in Sessions /\ heap[s] = "allocated"
      BY DEF EncInv, IInv, TypeOK, MemorySafe
    <2>2. CASE ToRelease(s) = {} /\ DestroyDetached(s) /\ UNCHANGED encVars
      <3>1. /\ heap' = [heap EXCEPT ![s] = "freed"] /\ UNCHANGED <<owns, stage, attached, env, stack>>
        BY <2>2 DEF DestroyDetached, encVars
      <3>2. \A p \in Slots : ~Holds(p, {"opening"}, s)
        BY <2>1 DEF EncInv, IInv, SoleOpener
      <3>3. QED
        BY <2>1, <2>2, <3>1, <3>2, FreeKeepsContexts DEF SameOpening
    <2>3. QED
      BY <1>10, <2>1, <2>2, DestroyStepKeepsContexts
  <1>11. CASE FinishUnload
    <2>1. CASE Unloaded /\ UNCHANGED encVars
      BY <1>1, <2>1 DEF Unloaded, encVars
    <2>2. QED
      BY <1>10, <1>11, <2>1 DEF FinishUnload
  <1>12. CASE (Terminated /\ UNCHANGED encVars) \/ UNCHANGED allVars
    BY <1>1, <1>12 DEF Terminated, allVars, encVars, vars
  <1>13. ASSUME NEW t \in Threads, NEW s \in Sessions, BeginOpenEncoder(t, s) \/ UnwindEncoder(t, s)
         PROVE  ContextsKept
    BY <1>3, <1>4, <1>5, <1>6, <1>13, BeginOpenKeepsContexts DEF UnwindEncoder, FinishEncoderStep
  <1>14. QED
    BY <1>7, <1>8, <1>9, <1>11, <1>12, <1>13 DEF EncNext, BeginWriteEncoder, BeginFinishEncoder

(***************************************************************************)
(* Theorems.                                                               *)
(***************************************************************************)

LEMMA EncoderInit == EncInit => EncInv
  <1> SUFFICES ASSUME EncInit PROVE EncInv
    OBVIOUS
  <1>1. IInv
    BY InitInv DEF EncInit
  <1>2. EncTypeOK
    BY DEF EncInit, EncTypeOK, Transports, Stages, Resources, Duties
  <1>3. \A p \in Slots : stack[p] = NoFrame
    BY DEF EncInit, Init
  <1>4. HandlesAreNew
    BY <1>3 DEF EncInit, Init, HandlesAreNew, Holds, NoFrame
  <1>5. DutyFollowsCall
    BY DEF EncInit, DutyFollowsCall
  <1>6. \A s \in Sessions : ContextState(s)
    BY DEF EncInit, Init, ContextState
  <1>7. QED
    BY <1>1, <1>2, <1>4, <1>5, <1>6 DEF EncInit, EncInv

LEMMA EncoderNext == EncInv /\ [EncNext]_allVars => EncInv'
  <1> SUFFICES ASSUME EncInv, [EncNext]_allVars PROVE EncInv'
    OBVIOUS
  <1>1. IInv'
    BY EncoderStepIsRegistryStep, NextKeepsInv DEF EncInv
  <1>2. EncTypeOK' /\ HandlesAreNew' /\ DutyFollowsCall'
    BY NextKeepsTypes, NextKeepsHandles DEF HandlesKept
  <1>3. \A s \in Sessions : ContextState(s)'
    BY NextKeepsContexts DEF ContextsKept
  <1>4. phase' = "loaded" => env'
    <2>1. UNCHANGED env \/ UnloadContexts
      <3>1. ASSUME NEW t \in Threads, NEW s \in Sessions, OpenEncoderStep(t, s)
            PROVE  UNCHANGED env
        BY <3>1 DEF OpenEncoderStep, PrepareOutput, NewEncoder, BuildMetadata, SetMetadata, InitEncoder,
                    OpenStage, AbandonEncoder, RegisterContext, PublishContext, encVars
      <3>2. ASSUME NEW t \in Threads, NEW s \in Sessions, WriteEncoderReturns(t, s) \/ FinishEncoderStep(t, s)
            PROVE  UNCHANGED env
        BY <3>2 DEF WriteEncoderReturns, FinishEncoderStep, FinishRemoves, FinishStream, FlushStream,
                    FinishEncoderReturns, Proceed
      <3>3. ASSUME NEW t \in Threads, NEW s \in Sessions, BeginOpenEncoder(t, s) \/ DestroyContext(t, s)
            PROVE  UNCHANGED env
        BY <3>3 DEF BeginOpenEncoder, DestroyContext, DestroyStep, encVars
      <3>4. ASSUME NEW t \in Threads, NEW s \in Sessions, BeginOpenEncoder(t, s) \/ UnwindEncoder(t, s)
            PROVE  UNCHANGED env
        BY <3>1, <3>2, <3>3, <3>4 DEF UnwindEncoder
      <3>5. ASSUME NEW t \in Threads, NEW h \in Handles,
                   BeginWriteEncoder(t, h) \/ BeginFinishEncoder(t, h) \/ ReleaseEncoder(t, h)
            PROVE  UNCHANGED env
        BY <3>5 DEF BeginWriteEncoder, BeginFinishEncoder, AcquireContext, ReleaseEncoder, encVars
      <3>6. CASE FinishUnload \/ (Terminated /\ UNCHANGED encVars) \/ UNCHANGED allVars
        BY <3>6 DEF FinishUnload, DestroyStep, encVars, allVars
      <3>7. QED
        BY <3>4, <3>5, <3>6 DEF EncNext
    <2>2. UnloadContexts => phase' = "unloading"
      BY DEF UnloadContexts, Unload
    <2>3. phase' = "loaded" => phase = "loaded"
      BY EncoderStepIsRegistryStep
         DEF Next, OpenStep, BeginOpen, AbandonOpen, Register, Publish, PublishFails,
             ReleaseReference, Destroy, Acquire, ReleaseDecoder, Unload, DestroyDetached, Unloaded,
             Terminated, vars, library
    <2>4. QED
      BY <2>1, <2>2, <2>3 DEF EncInv
  <1>5. QED
    BY <1>1, <1>2, <1>3, <1>4 DEF EncInv

\* The registry's invariant, and what the life of a context adds to it, hold of
\* every encoder: a partial open, a write, a finish, a release and the unload.
THEOREM EncoderInvariantHolds == EncSpec => []EncInv
  <1>1. QED
    BY EncoderInit, EncoderNext, PTL DEF EncSpec

\* The encoder's sections are steps of the decoder's registry or leave it alone,
\* finishEncoder's removal of its own handle included.
THEOREM EncoderImplementsRegistry == EncSpec => ImplementsRegistry
  <1>1. EncInit => Init
    BY DEF EncInit
  <1>2. EncInv /\ [EncNext]_allVars => [Next]_vars
    BY EncoderStepIsRegistryStep
  <1>3. QED
    BY <1>1, <1>2, EncoderInvariantHolds, PTL DEF EncSpec, ImplementsRegistry, Spec

\* So a context is never in two native operations, never used after it is freed,
\* destroyed by one party only, and never leaked.
THEOREM EncoderContextsAreSafe ==
  EncSpec => [](ExclusiveUse /\ MemorySafe /\ SoleDestroyer /\ NoLeak)
  <1>1. EncInv => ExclusiveUse /\ MemorySafe /\ SoleDestroyer /\ NoLeak
    BY DEF EncInv, IInv
  <1>2. QED
    BY <1>1, EncoderInvariantHolds, PTL

\* destroy_encode_context: the metadata blocks outlive the encoder that refers to
\* them, and a context that is gone has released its native objects, after an
\* open that failed half way too.
THEOREM NativeObjectsAreReleased == EncSpec => []ContextResources
  <1>1. EncInv => ContextResources
    BY DEF EncInv, ContextState, ContextResources
  <1>2. QED
    BY <1>1, EncoderInvariantHolds, PTL

\* finishEncoder: once it has removed its handle, nobody else can reach the
\* context, whatever the finish does next.
THEOREM FinishExcludesOthers == EncSpec => []FinishIsFinal
  <1>1. EncInv => FinishIsFinal
    BY DEF EncInv, IInv, ExclusiveUse, DutyFollowsCall, FinishIsFinal, Holds
  <1>2. QED
    BY <1>1, EncoderInvariantHolds, PTL
=============================================================================
