--------------------------- MODULE EncodeRegistry ---------------------------
(***************************************************************************)
(* Encoder contexts of native/src/jflac_jni.c: how open_encoder_internal   *)
(* assembles one, the registry that owns it, write, finish and release,    *)
(* and destroy_encode_context, which must cope with every partial state.   *)
(*                                                                         *)
(* The registry sections repeat those of the decoder statement for         *)
(* statement ("Registry state mirrors decoder sessions"), so this module   *)
(* builds on DecodeRegistry and reads Sessions as EncodeContext objects.   *)
(* What differs is added here: the native objects a context owns, the      *)
(* order in which they go, and finishEncoder, which removes its own handle *)
(* before it lets libFLAC finish and throws remove's answer away.          *)
(***************************************************************************)
EXTENDS DecodeRegistry

(***************************************************************************)
(* What an open holds: the UTF-8 path belongs to the call, the global      *)
(* reference to the Java output, the libFLAC encoder and the metadata      *)
(* blocks to the context.                                                  *)
(***************************************************************************)
Resources == {"path", "encoder", "blocks", "reference"}
Transports == {"file", "stream", "channel"}
Stages == {"allocated", "prepared", "configured", "built", "attached", "initialised"}

(***************************************************************************)
(* What the operation in a slot is doing.                                  *)
(*   write      in stream_encoder_process_interleaved                      *)
(*   remove     a finish between acquire and remove_encode_context         *)
(*   finish     in stream_encoder_finish                                   *)
(*   flush      in OutputStream.flush                                      *)
(*   return     a finish about to give its reference back                  *)
(* A write or finish that fails throws, and does the same to the context.  *)
(***************************************************************************)
Duties == {"none", "write", "remove", "finish", "flush", "return"}

VARIABLES
  transport,  \* output_stream, output_channel or neither, per context
  stage,      \* how far the open of a context has come
  owns,       \* the native objects held for a context
  attached,   \* libFLAC's encoder refers to the context's metadata blocks
  duty,       \* per slot, what the operation is doing
  env         \* does JNI_OnUnload have a JNI environment?

encVars == <<transport, stage, owns, attached, duty, env>>
allVars == <<vars, encVars>>

EncInit ==
  /\ Init
  /\ transport = [s \in Sessions |-> "file"]
  /\ stage = [s \in Sessions |-> "allocated"]
  /\ owns = [s \in Sessions |-> {}]
  /\ attached = [s \in Sessions |-> FALSE]
  /\ duty = [p \in Slots |-> "none"]
  /\ env = TRUE

Top(t) == <<t, depth[t]>>

\* Java runs on thread t: at the bottom of its stack, in the channel, the
\* metadata's getters or the output while an encoder is opened, or in the output
\* an operation writes to.
InEncoderJava(t) ==
  /\ InJava(t)
  /\ depth[t] > 0 => \/ stage[stack[Top(t)].session] \in {"allocated", "configured", "attached"}
                     \/ duty[Top(t)] \in {"write", "finish", "flush"}

-----------------------------------------------------------------------------
(* open_encoder_internal.                                                  *)

\* The request has been read and validated, with only the path to free until
\* then; the context is allocated.
BeginOpenEncoder(t, s) ==
  /\ InEncoderJava(t)
  /\ BeginOpen(t, s)
  /\ \E output \in Transports :
       /\ transport' = [transport EXCEPT ![s] = output]
       /\ owns' = [owns EXCEPT ![s] = IF output = "file" THEN {"path"} ELSE {}]
  /\ UNCHANGED <<stage, attached, duty, env>>

\* One stage of the open: what the context owns changes to new.
OpenStage(t, s, from, to, new) ==
  /\ InFrame(t, "opening", s) /\ stage[s] = from
  /\ stage' = [stage EXCEPT ![s] = to]
  /\ owns' = [owns EXCEPT ![s] = new]
  /\ UNCHANGED <<vars, transport, duty, env>>

\* prepare_encode_output_stream and prepare_encode_output_channel.  The global
\* reference is taken before a channel is asked for its position, which may throw.
PrepareOutput(t, s) ==
  /\ OpenStage(t, s, "allocated", "prepared",
               owns[s] \cup (IF transport[s] = "file" THEN {} ELSE {"reference"}))
  /\ UNCHANGED attached

\* stream_encoder_new, then the thread count and the setters, which may refuse.
NewEncoder(t, s) ==
  /\ OpenStage(t, s, "prepared", "configured", owns[s] \cup {"encoder"})
  /\ UNCHANGED attached

\* Metadata was requested, or not.  A builder that fails leaves no block.
BuildMetadata(t, s) ==
  /\ \E new \in {{}, {"blocks"}} : OpenStage(t, s, "configured", "built", owns[s] \cup new)
  /\ UNCHANGED attached

\* The encoder keeps pointers to the blocks; the context keeps owning them.
SetMetadata(t, s) ==
  /\ OpenStage(t, s, "built", "attached", owns[s])
  /\ attached' = [attached EXCEPT ![s] = "blocks" \in owns[s]]

\* The output is opened and the header written; the path is freed.
InitEncoder(t, s) ==
  /\ OpenStage(t, s, "attached", "initialised", owns[s] \ {"path"})
  /\ UNCHANGED attached

\* Any stage fails, or the registry entry cannot be allocated: the context is
\* destroyed as far as it exists, and the call frees the path.
AbandonEncoder(t, s) ==
  /\ AbandonOpen(t, s)
  /\ owns' = [owns EXCEPT ![s] = @ \ {"path"}]
  /\ UNCHANGED <<transport, stage, attached, duty, env>>

\* register_encode_context.  Bound: the counter of 2^63 handles does not go
\* round, so a handle names one context for ever.
RegisterContext(t, s) ==
  /\ stage[s] = "initialised"
  /\ Register(t, s)
  /\ \A x \in Sessions : handleOf[x] < handleOf'[s]
  /\ UNCHANGED encVars

PublishContext(t, s) == Publish(t, s) /\ UNCHANGED encVars

\* Steps an open takes by itself once it is on the stack.
OpenEncoderStep(t, s) ==
  \/ PrepareOutput(t, s) \/ NewEncoder(t, s) \/ BuildMetadata(t, s) \/ SetMetadata(t, s)
  \/ InitEncoder(t, s) \/ AbandonEncoder(t, s) \/ RegisterContext(t, s) \/ PublishContext(t, s)

-----------------------------------------------------------------------------
(* Operations.                                                             *)

\* acquire_encode_context: the decoder's conditions, and the encoder exists.
AcquireContext(t, h, d) ==
  /\ InEncoderJava(t)
  /\ \A e \in registry : e.handle = h => "encoder" \in owns[e.session]
  /\ Acquire(t, h)
  /\ duty' = [duty EXCEPT ![<<t, depth[t] + 1>>] = d]
  /\ UNCHANGED <<transport, stage, owns, attached, env>>

\* The operation goes on to another duty.
Proceed(t, s, from, to) ==
  /\ InFrame(t, "using", s) /\ duty[Top(t)] = from
  /\ duty' = [duty EXCEPT ![Top(t)] = to]
  /\ UNCHANGED <<transport, stage, owns, attached, env>>

BeginWriteEncoder(t, h) == AcquireContext(t, h, "write")

WriteEncoderReturns(t, s) == Proceed(t, s, "write", "none") /\ ReleaseReference(t, s)

\* Bound: the removal below is a nested section and needs a level of depth too.
BeginFinishEncoder(t, h) == depth[t] + 1 < MaxDepth /\ AcquireContext(t, h, "remove")

FinishKeepsHandle(t, s) ==             \* mutant: finish leaves the handle registered
  Proceed(t, s, "remove", "finish") /\ UNCHANGED vars

\* finishEncoder removes the handle it was given.  Another thread may have
\* released it since the acquire; what remove returns is not looked at.
FinishRemoves(t, s) ==
  /\ Proceed(t, s, "remove", "finish")
  /\ \/ \E e \in registry : e.handle = handleOf[s] /\ Unlink(e)
     \/ handleOf[s] \notin LiveHandles /\ UNCHANGED <<registry, nextHandle, fields>>
  /\ UNCHANGED <<heap, stack, depth, known, library>>

\* stream_encoder_finish returns; only a success on an OutputStream is flushed.
FinishStream(t, s) ==
  /\ \/ transport[s] = "stream" /\ Proceed(t, s, "finish", "flush")
     \/ Proceed(t, s, "finish", "return")
  /\ UNCHANGED vars

FlushStream(t, s) == Proceed(t, s, "flush", "return") /\ UNCHANGED vars

FinishDestroys(t, s) ==                \* mutant: finish destroys, whatever refers to it
  /\ Proceed(t, s, "return", "none")
  /\ Become(t, "destroying", s)
  /\ UNCHANGED <<registry, nextHandle, fields, heap, known, library>>

FinishEncoderReturns(t, s) == Proceed(t, s, "return", "none") /\ ReleaseReference(t, s)

FinishEncoderStep(t, s) ==
  FinishRemoves(t, s) \/ FinishStream(t, s) \/ FlushStream(t, s) \/ FinishEncoderReturns(t, s)

ReleaseEncoder(t, h) ==
  InEncoderJava(t) /\ ReleaseDecoder(t, h) /\ UNCHANGED encVars

-----------------------------------------------------------------------------
(* destroy_encode_context and JNI_OnUnload.                                *)

BlocksFirst == <<"blocks", "encoder", "reference">>     \* mutant: the encoder still refers to them
DestroyOrder == <<"encoder", "blocks", "reference">>

\* What destroy_encode_context still has to release; without a JNI environment
\* it deliberately leaves the global reference.
ToRelease(s) ==
  {i \in DOMAIN DestroyOrder :
     DestroyOrder[i] \in owns[s] /\ (DestroyOrder[i] = "reference" => env)}

DestroyStep(s) ==
  /\ ToRelease(s) # {}
  /\ LET i == CHOOSE i \in ToRelease(s) : \A j \in ToRelease(s) : i <= j
     IN  owns' = [owns EXCEPT ![s] = @ \ {DestroyOrder[i]}]
  /\ UNCHANGED <<vars, transport, stage, attached, duty, env>>

DestroyContext(t, s) ==
  /\ InFrame(t, "destroying", s)
  /\ \/ DestroyStep(s)
     \/ ToRelease(s) = {} /\ Destroy(t, s) /\ UNCHANGED encVars

\* JNI_OnUnload asks the JVM for an environment, and goes on without one.
UnloadContexts ==
  /\ Unload
  /\ env' \in BOOLEAN
  /\ UNCHANGED <<transport, stage, owns, attached, duty>>

\* destroy_all_encode_contexts, and the end of the unload.
FinishUnload ==
  \/ Unloaded /\ UNCHANGED encVars
  \/ \E s \in detached :
       \/ DestroyStep(s)
       \/ ToRelease(s) = {} /\ DestroyDetached(s) /\ UNCHANGED encVars

-----------------------------------------------------------------------------
\* Steps a native call takes by itself once it is on the stack.
UnwindEncoder(t, s) ==
  OpenEncoderStep(t, s) \/ WriteEncoderReturns(t, s) \/ FinishEncoderStep(t, s) \/ DestroyContext(t, s)

EncNext ==
  \/ \E t \in Threads, s \in Sessions : BeginOpenEncoder(t, s) \/ UnwindEncoder(t, s)
  \/ \E t \in Threads, h \in Handles :
       BeginWriteEncoder(t, h) \/ BeginFinishEncoder(t, h) \/ ReleaseEncoder(t, h)
  \/ UnloadContexts \/ FinishUnload
  \/ Terminated /\ UNCHANGED encVars

EncSpec == EncInit /\ [][EncNext]_allVars

\* As in DecodeRegistry: a Java callback returns after finitely many nested
\* calls, and the JVM finishes an unload it has begun.
EncFairness ==
  /\ \A t \in Threads, s \in Sessions : SF_allVars(UnwindEncoder(t, s))
  /\ WF_allVars(FinishUnload)

FairEncSpec == EncSpec /\ EncFairness

-----------------------------------------------------------------------------
(* Properties.                                                             *)

\* Encoder contexts go through the registry exactly as decoder sessions do,
\* finishEncoder's removal of its own handle included; everything proved of the
\* decoder registry (exclusive use, no use after free, no leak) carries over.
ImplementsRegistry == Spec

\* libFLAC's encoder refers to the metadata blocks until it is deleted, so they
\* outlive it on every path; a context that is gone, after a partial open too,
\* has released each of its native objects, and the open its path.
ContextResources ==
  \A s \in Sessions :
    /\ attached[s] /\ "encoder" \in owns[s] => "blocks" \in owns[s]
    /\ heap[s] = "freed" => owns[s] \subseteq (IF env THEN {} ELSE {"reference"})

\* The comment of finishEncoder: once it has taken hold of a context nobody else
\* starts to write or finish it, and its handle is dead before the stream is
\* finalised, whether or not that succeeds.
FinishIsFinal ==
  \A s \in Sessions, p \in Slots :
    Holds(p, {"using"}, s) /\ duty[p] \in {"finish", "flush", "return"} =>
      handleOf[s] \notin LiveHandles /\ \A q \in Slots : Holds(q, {"using"}, s) => q = p
-----------------------------------------------------------------------------
(* The inductive invariant behind them, beside the registry's.             *)

EncTypeOK ==
  /\ transport \in [Sessions -> Transports] /\ stage \in [Sessions -> Stages]
  /\ owns \in [Sessions -> SUBSET Resources] /\ attached \in [Sessions -> BOOLEAN]
  /\ duty \in [Slots -> Duties] /\ env \in BOOLEAN

\* No two contexts ever had the same handle, and Java knows those in use.
HandlesAreNew ==
  /\ \A r, s \in Sessions : handleOf[r] # NoHandle /\ handleOf[r] = handleOf[s] => r = s
  /\ \A s \in Sessions, p \in Slots : Holds(p, {"using"}, s) => handleOf[s] \in known

\* Only an operation has a duty; one that will remove its handle has room for
\* the section, and one that has removed it left no entry.
DutyFollowsCall ==
  \A p \in Slots :
    /\ duty[p] # "none" => stack[p].kind = "using"
    /\ duty[p] = "remove" => p[2] < MaxDepth
    /\ duty[p] \in {"finish", "flush", "return"} => handleOf[stack[p].session] \notin LiveHandles

\* What a context owns at each point of its life: nothing at first, the path
\* while the open runs, the blocks as long as the encoder refers to them, and
\* nothing again at the end.
ContextState(s) ==
  /\ heap[s] = "unborn" => owns[s] = {} /\ ~attached[s] /\ stage[s] = "allocated"
  /\ "path" \in owns[s] => stage[s] # "initialised" /\ \E p \in Slots : Holds(p, {"opening"}, s)
  /\ attached[s] => stage[s] \in {"attached", "initialised"}
  /\ attached[s] /\ "encoder" \in owns[s] => "blocks" \in owns[s]
  /\ heap[s] = "freed" => owns[s] \subseteq (IF env THEN {} ELSE {"reference"})

EncInv ==
  /\ IInv /\ EncTypeOK /\ HandlesAreNew /\ DutyFollowsCall
  /\ \A s \in Sessions : ContextState(s)
  /\ phase = "loaded" => env
=============================================================================
