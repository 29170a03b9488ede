---------------------------- MODULE MetadataEdit ----------------------------
(***************************************************************************)
(* Reading and replacing the metadata of a FLAC file: readMetadata and     *)
(* writeMetadata of native/src/jflac_jni.c with the table of blocks they   *)
(* build, and the Kotlin code around them (FlacMetadataReader, the edit    *)
(* session of FlacMetadataEditor, NativeMetadataMapping).                  *)
(*                                                                         *)
(* A file is the sequence of its metadata blocks; <<>> is a file libFLAC   *)
(* cannot read.  Payloads are opaque, except that a Vorbis comment is a    *)
(* list of entries in the file and a map from keys to lists of values in   *)
(* the JVM.  One call runs at a time: both keep all their state on the     *)
(* native stack.                                                           *)
(***************************************************************************)
EXTENDS MetadataBlocks, SequencesExt

CONSTANTS
  Files,       \* the files the editor is given
  Samples,     \* the blocks of its requests
  Comments,    \* the comments an edit session sets
  MaxBlocks,   \* bound: blocks in one request
  MaxEdits     \* bound: edits in a behaviour

ASSUME BoundsAssumption == MaxBlocks \in Nat /\ MaxEdits \in Nat

-----------------------------------------------------------------------------
(* Blocks in the JVM and in the file.                                      *)

Keys == <<"A", "B">>
Block(k, v) == [kind |-> k, value |-> v]
StreamInfo == Block("streaminfo", 0)

\* An entry of a file may lack its key; in the JVM a key may lack values.
Entry == {"A", "B", ""} \X Nat
Blocks(comments) == [kind : Kinds \ {"vorbis"}, value : Nat] \cup [kind : {"vorbis"}, value : comments]
NativeBlocks == {StreamInfo} \cup Blocks(Seq(Entry))

ASSUME ValuesAssumption ==
  /\ Files \subseteq Seq(NativeBlocks)
  /\ \A c \in Comments : c \in [DOMAIN c -> Seq(Nat)] /\ DOMAIN c \in SUBSET {"A", "B"}
  /\ Samples \subseteq Blocks(Comments)

\* The elements of s at the positions ps, in their order.  (The position with
\* n positions up to it is counted, not found by a recursion, so that the
\* provers can reason about it.)
Nth(ps, n) == CHOOSE p \in ps : Cardinality({q \in ps : q <= p}) = n
At(s, ps) == [n \in 1..Cardinality(ps) |-> s[Nth(ps, n)]]

Where(k, bs) == {i \in DOMAIN bs : bs[i].kind = k}
CountOf(k, bs) == Cardinality(Where(k, bs))
Without(k, bs) == At(bs, DOMAIN bs \ Where(k, bs))

\* toVorbisCommentEntries: a key without values has no entry.
EntriesOf(comments, k) ==
  IF k \in DOMAIN comments THEN [i \in DOMAIN comments[k] |-> <<k, comments[k][i]>>] ELSE <<>>
Flatten(comments) == EntriesOf(comments, Keys[1]) \o EntriesOf(comments, Keys[2])

\* toPublicMetadata drops entries without a key: no '=', or nothing before it.
Group(entries) ==
  LET of(k) == At(entries, {i \in DOMAIN entries : entries[i][1] = k})
  IN  [k \in {e[1] : e \in ToSet(entries)} \ {""} |-> [i \in DOMAIN of(k) |-> of(k)[i][2]]]

ToNative(b) == IF b.kind = "vorbis" THEN [b EXCEPT !.value = Flatten(@)] ELSE b
ToPublic(b) == IF b.kind = "vorbis" THEN [b EXCEPT !.value = Group(@)] ELSE b

MapBlocks(Op(_), bs) == [i \in DOMAIN bs |-> Op(bs[i])]

\* validateFlacEncodingMetadata, as far as the shape of a request goes.
Valid(bs) == CountOf("vorbis", bs) <= 1 /\ CountOf("seektable", bs) <= 1

Requests == {bs \in UNION {[1..n -> Samples] : n \in 0..MaxBlocks} : Valid(bs)}

NoView == <<StreamInfo>>     \* nothing has been read; STREAMINFO is not an editable block

VARIABLES
  file,       \* the metadata blocks on disk
  call,       \* the native call in progress: none, read or write
  phase,      \* where it is
  pc,         \* the step of the builder or converter that runs
  cursor,     \* the element of the table, or the block of the chain
  pass,       \* the conversion pass of a read
  ptr,        \* per variable: null, live, or freed and not reset
  slots,      \* the table: per block null, live, freed, or owned by the chain
  fault,      \* something was lost, released twice or released without being held
  pending,    \* a Java exception is pending
  request,    \* order and blocks of the write
  chain,      \* the metadata chain in memory
  typed,      \* the typed arrays of a read
  order,      \* its order table: kind and index
  view,       \* FlacMetadata.blocks of the last read
  outcome,    \* how the last call ended
  edits       \* writes so far

vars == <<file, call, phase, pc, cursor, pass, ptr, slots, fault, pending, request, chain,
          typed, order, view, outcome, edits>>
memory == <<ptr, slots, fault, pending>>
data == <<file, request, chain, typed, order, view, edits>>
place == <<pc, cursor, pass>>

-----------------------------------------------------------------------------
(* Pointers.                                                               *)

NullPointers == [p \in Pointers |-> "null"]
Misused(ps) == \E p \in ps : ptr[p] = "freed" \/ (ptr[p] = "null" /\ p \notin NullSafe)

\* A step succeeds: taking over a live object loses it.
Do(step) ==
  \E got \in SUBSET step.maybe :
    /\ ptr' = [p \in Pointers |->
                 IF p \in step.take \cup got THEN "live"
                 ELSE IF p \in step.maybe THEN "null"
                 ELSE IF p \in step.drop /\ ptr[p] = "live" THEN "freed" ELSE ptr[p]]
    /\ fault' = (fault \/ Misused(step.drop) \/ \E p \in step.take \cup step.maybe : ptr[p] = "live")

Release(ps) == Do(Drop(ps, {}, Never))

Holding == {p \in Pointers : ptr[p] = "live"} # {} \/ \E i \in DOMAIN slots : slots[i] = "live"

\* destroy_metadata_blocks, with ps released too.  The table is set to NULL.
DestroyTable(ps) ==
  LET bad == \E i \in DOMAIN slots : slots[i] \in {"freed", "chained"}
  IN  /\ ptr' = [p \in Pointers |-> IF p = "table" \/ ptr[p] = "null" THEN "null"
                                    ELSE IF p \in ps THEN "freed" ELSE ptr[p]]
      /\ fault' = (fault \/ Misused(ps) \/ (ptr["table"] = "live" /\ bad))
      /\ slots' = IF ptr["table"] = "live" THEN <<>> ELSE slots

-----------------------------------------------------------------------------
(* Calls.                                                                  *)

Begin(kind) ==
  /\ call = "none"
  /\ call' = kind /\ phase' = "path" /\ outcome' = "none"
  /\ ptr' = NullPointers /\ slots' = <<>> /\ pending' = FALSE
  /\ pc' = 1 /\ cursor' = 1 /\ pass' = 1
  /\ chain' = <<>> /\ order' = <<>> /\ typed' = [k \in Kinds \cup {"streaminfo"} |-> <<>>]
  /\ UNCHANGED <<file, fault>>

\* Back to Java.
Return(result) ==
  /\ call' = "none" /\ phase' = "idle" /\ outcome' = result
  /\ UNCHANGED <<place, request, typed, order, edits>>

\* FlacMetadataReader.read.
BeginRead ==
  Begin("read") /\ view' = NoView /\ UNCHANGED <<request, edits>>

BeginWrite(o, bs) ==
  /\ edits < MaxEdits /\ Valid(bs)
  /\ Begin("write")
  /\ request' = [order |-> o, blocks |-> bs]
  /\ view' = NoView /\ edits' = edits + 1

\* FlacMetadataEditor.replace, with grouped fields or with an ordered list; an
\* edit session with replaceBlocks comes to the same.
Replace == \E o \in {"grouped", "ordered"}, bs \in Requests : BeginWrite(o, bs)

\* What an edit session does to the blocks it was given.
SetComments(bs, c) ==
  IF DOMAIN c = {} THEN Without("vorbis", bs)
  ELSE IF CountOf("vorbis", bs) = 0 THEN <<Block("vorbis", c)>> \o bs
  ELSE [bs EXCEPT ![SelectInSeq(bs, LAMBDA b : b.kind = "vorbis")] = Block("vorbis", c)]
RemovePictures(bs) == Without("picture", bs)

\* FlacMetadataEditor.edit: read, let the session change the blocks, replace.
Edit ==
  /\ view # NoView
  /\ \E bs \in {SetComments(view, c) : c \in Comments} \cup {RemovePictures(view)}
                 \cup {Append(view, Block("picture", 2))} : BeginWrite("ordered", bs)

\* Path, chain, its contents, iterator: the same in both calls.
Setup ==
  [path |-> Get("path", {}, Either), chain |-> Get("chain", {"path"}, Silent),
   read |-> Drop({"path"}, {"path", "chain"}, Silent), iterator |-> Get("iterator", {"chain"}, Silent)]
AfterSetup == [path |-> "chain", chain |-> "read", read |-> "iterator",
               iterator |-> IF call = "read" THEN "count" ELSE "first"]

SetupStep ==
  /\ phase \in DOMAIN Setup
  /\ \/ /\ phase = "read" => file # <<>>
        /\ Do(Setup[phase])
        /\ phase' = AfterSetup[phase]
        /\ chain' = IF phase = "read" THEN file ELSE chain
        /\ UNCHANGED <<file, call, place, slots, pending, request, typed, order, view, outcome, edits>>
     \/ /\ Release(Setup[phase].undo)
        /\ Return("threw")
        /\ UNCHANGED <<file, slots, pending, chain, view>>

\* Any later failure of a call that has built no table: iterator and chain go.
GiveUp ==
  /\ Release({"iterator", "chain"})
  /\ Return("threw")
  /\ UNCHANGED <<file, slots, pending, chain, view>>

-----------------------------------------------------------------------------
(* readMetadata.                                                           *)

Passes == <<"streaminfo", "vorbis", "picture", "application", "seektable", "cuesheet", "padding", "unknown">>

\* The counting pass rejects what the payload cannot represent.
CountBlocks ==
  /\ call = "read" /\ phase = "count"
  /\ IF CountOf("streaminfo", chain) > 0 /\ CountOf("vorbis", chain) <= 1
       THEN /\ phase' = "convert"
            /\ UNCHANGED <<call, place, memory, data, outcome>>
       ELSE GiveUp

\* The next block of this pass, from the start of the chain for a new one; the
\* array of the pass may fail to be allocated.
NextBlock ==
  LET matches == {i \in cursor..Len(chain) : chain[i].kind = Passes[pass]}
  IN  /\ phase = "convert"
      /\ \/ GiveUp
         \/ /\ matches # {}
            /\ cursor' = CHOOSE i \in matches : \A j \in matches : i <= j
            /\ phase' = "converting" /\ pc' = 1
            /\ UNCHANGED <<call, pass, memory, data, outcome>>
         \/ /\ matches = {} /\ pass < Len(Passes)
            /\ pass' = pass + 1 /\ cursor' = 1
            /\ UNCHANGED <<call, phase, pc, memory, data, outcome>>
         \/ /\ matches = {} /\ pass = Len(Passes)
            /\ phase' = "order"
            /\ UNCHANGED <<call, place, memory, data, outcome>>

Converter == Converters[Passes[pass]]

ConverterStep ==
  /\ phase = "converting" /\ pc <= Len(Converter.steps)
  /\ Do(Converter.steps[pc])
  /\ pc' \in After(Converter, pc)
  /\ UNCHANGED <<call, phase, cursor, pass, slots, pending, data, outcome>>

\* The converter returns NULL with an exception pending.
ConverterFails ==
  /\ phase = "converting" /\ pc <= Len(Converter.steps)
  /\ Converter.steps[pc].fail # {}
  /\ Release(Converter.steps[pc].undo \cup {"iterator", "chain"})
  /\ pending' = TRUE
  /\ Return("threw")
  /\ UNCHANGED <<file, slots, chain, view>>

\* The object goes into the array of its type.
Converted ==
  /\ phase = "converting" /\ pc > Len(Converter.steps)
  /\ \/ GiveUp
     \/ /\ typed' = [typed EXCEPT ![Passes[pass]] = Append(@, ToPublic(chain[cursor]))]
        /\ phase' = "convert" /\ cursor' = cursor + 1
        /\ ptr' = [p \in Pointers |-> IF p \in Locals /\ ptr[p] = "freed" THEN "null" ELSE ptr[p]]
        /\ UNCHANGED <<call, pc, pass, slots, fault, pending, file, request, chain, order, view, outcome, edits>>

IndexNotReset(i) == Len(typed[chain[i].kind])      \* mutant: picture_index = 0 is left out
IndexOf(i) == Cardinality({j \in 1..(i - 1) : chain[j].kind = chain[i].kind})

\* The final pass: type and index of every block but STREAMINFO.
OrderTable ==
  /\ phase = "order"
  /\ \/ GiveUp
     \/ /\ LET rows == [i \in DOMAIN chain |-> [kind |-> chain[i].kind, index |-> IndexOf(i)]]
           IN  order' = Without("streaminfo", rows)
        /\ phase' = "payload"
        /\ UNCHANGED <<call, place, memory, file, request, chain, typed, view, outcome, edits>>

\* toPublicMetadata: getOrNull and mapNotNull drop a row that names no block.
Rebuild ==
  LET known == At(order, {i \in DOMAIN order : order[i].index < Len(typed[order[i].kind])})
  IN  [i \in DOMAIN known |-> typed[known[i].kind][known[i].index + 1]]

ReturnPayload ==
  /\ phase = "payload"
  /\ \/ GiveUp
     \/ /\ Release({"iterator", "chain"})
        /\ view' = Rebuild
        /\ Return("returned")
        /\ UNCHANGED <<file, slots, pending, chain>>

-----------------------------------------------------------------------------
(* writeMetadata: the old blocks go, in memory.                            *)

FirstBlock ==
  /\ phase = "first"
  /\ IF chain[1].kind = "streaminfo"
       THEN phase' = "delete" /\ UNCHANGED <<call, place, memory, data, outcome>>
       ELSE GiveUp

DeleteBlock ==
  /\ phase = "delete"
  /\ \/ GiveUp
     \/ /\ Len(chain) > 1
        /\ chain' = RemoveAt(chain, 2)
        /\ UNCHANGED <<call, phase, place, memory, file, request, typed, order, view, outcome, edits>>
     \/ /\ Len(chain) = 1
        /\ phase' = "table"
        /\ UNCHANGED <<call, place, memory, data, outcome>>

-----------------------------------------------------------------------------
(* build_metadata_blocks and build_ordered_metadata_blocks.                *)

\* The blocks in table order.  An ordered list wins if it is not empty; grouped
\* comments without entries make no block.
TableOf(r) ==
  LET kept(k) == At(r.blocks, {i \in Where(k, r.blocks) :
                                 k = "vorbis" => Flatten(r.blocks[i].value) # <<>>})
  IN  IF r.order = "ordered" THEN r.blocks
      ELSE kept("vorbis") \o kept("picture") \o kept("application") \o kept("seektable")
             \o kept("cuesheet") \o kept("padding") \o kept("unknown")
Wanted == TableOf(request)

\* The comment of the grouped fields is built without a local frame around it.
HasFrame == ~(request.order = "grouped" /\ Wanted[cursor].kind = "vorbis")

\* The switch over the type takes any other type for an unknown block.
BuilderOf(k) == Builders[IF k \in Kinds THEN k ELSE "unknown"]
Builder == BuilderOf(Wanted[cursor].kind)

\* The request's getters, then the table, empty but of its full length.
NewTable ==
  /\ phase = "table"
  /\ \/ GiveUp
     \/ /\ IF Wanted = <<>> THEN UNCHANGED <<ptr, fault>> ELSE Do(Get("table", {}, Silent))
        /\ slots' = [i \in DOMAIN Wanted |-> "null"]
        /\ phase' = "element"
        /\ UNCHANGED <<call, place, pending, data, outcome>>

\* A local frame and the element; the builder starts with its variables unset.
OpenElement ==
  /\ phase = "element" /\ cursor <= Len(Wanted)
  /\ \/ /\ ptr' = [p \in Pointers |-> IF p = "element" /\ HasFrame THEN "live"
                                      ELSE IF p \in Locals THEN "null" ELSE ptr[p]]
        /\ fault' = (fault \/ \E p \in Locals : ptr[p] = "live")
        /\ phase' = "build"
        /\ pc' = IF request.order = "ordered" THEN 0 ELSE 1
        /\ UNCHANGED pending
     \/ /\ HasFrame
        /\ pending' = TRUE /\ phase' = "failed"
        /\ UNCHANGED <<pc, ptr, fault>>
  /\ UNCHANGED <<call, cursor, pass, slots, data, outcome>>

\* Step 0 is build_ordered_metadata_block's own: value, type and class.
CurrentStep == IF pc = 0 THEN Check({}, Thrown) ELSE Builder.steps[pc]

BuilderStep ==
  /\ phase = "build" /\ pc <= Len(Builder.steps)
  /\ Do(CurrentStep)
  /\ pc' \in After(Builder, pc)
  /\ UNCHANGED <<call, phase, cursor, pass, slots, pending, data, outcome>>

BuilderFails ==
  /\ phase = "build" /\ pc <= Len(Builder.steps)
  /\ pending' \in CurrentStep.fail
  /\ Release(CurrentStep.undo)
  /\ phase' = "unwind"
  /\ UNCHANGED <<call, place, slots, data, outcome>>

\* *result = block.
Publish ==
  /\ phase = "build" /\ pc > Len(Builder.steps)
  /\ ptr' = [ptr EXCEPT !["block"] = "null"]
  /\ slots' = [slots EXCEPT ![cursor] = ptr["block"]]
  /\ phase' = "length"
  /\ UNCHANGED <<call, place, fault, pending, data, outcome>>

\* ensure_metadata_block_length_fits.  The ordered path deletes the block at
\* once, the grouped path leaves it to the table.
CheckLength ==
  /\ phase = "length"
  /\ \/ /\ IF HasFrame THEN Release({"element"}) ELSE UNCHANGED <<ptr, fault>>
        /\ phase' = "element" /\ cursor' = cursor + 1
        /\ UNCHANGED <<slots, pending>>
     \/ /\ pending' = TRUE /\ phase' = "unwind"
        /\ slots' = IF request.order = "ordered" THEN [slots EXCEPT ![cursor] = "null"] ELSE slots
        /\ UNCHANGED <<cursor, ptr, fault>>
  /\ UNCHANGED <<call, pc, pass, data, outcome>>

\* The local frame of the element goes after a failure too.
Unwind ==
  /\ phase = "unwind"
  /\ IF HasFrame THEN Release({"element"}) ELSE UNCHANGED <<ptr, fault>>
  /\ phase' = "failed"
  /\ UNCHANGED <<call, place, slots, pending, data, outcome>>

FailQuietly(threw) == IF threw THEN "threw" ELSE "returned"     \* mutant: no general exception
FailureOutcome(threw) == "threw"

\* The table is destroyed where it was built and, to no effect, by the caller,
\* which throws a general exception if none is pending.
TableFails ==
  /\ phase = "failed"
  /\ DestroyTable({"iterator", "chain"})
  /\ Return(FailureOutcome(pending))
  /\ UNCHANGED <<file, pending, chain, view>>

-----------------------------------------------------------------------------
(* writeMetadata: the new blocks go in, and the file is written.           *)

AllBuilt ==
  /\ phase = "element" /\ cursor > Len(Wanted)
  /\ phase' = "insert" /\ cursor' = 1
  /\ UNCHANGED <<call, pc, pass, memory, data, outcome>>

\* The chain owns an inserted block and the slot is cleared.
InsertBlock ==
  /\ phase = "insert" /\ cursor <= Len(slots)
  /\ \/ /\ chain' = Append(chain, ToNative(Wanted[cursor]))
        /\ slots' = [slots EXCEPT ![cursor] = "null"]
        /\ cursor' = cursor + 1
        /\ UNCHANGED <<call, phase, pc, pass, ptr, fault, pending, file, request, typed, order, view, outcome, edits>>
     \/ /\ DestroyTable({"iterator", "chain"})
        /\ Return("threw")
        /\ UNCHANGED <<file, pending, chain, view>>

AllInserted ==
  /\ phase = "insert" /\ cursor > Len(slots)
  /\ DestroyTable({})
  /\ phase' = "write"
  /\ UNCHANGED <<call, place, pending, data, outcome>>

\* With use_padding libFLAC may add, resize or remove padding at the end.
WithoutSlack(bs) == IF bs # <<>> /\ Last(bs).kind = "padding" THEN Front(bs) ELSE bs
Written(bs) == {bs, WithoutSlack(bs)} \cup {Append(WithoutSlack(bs), Block("padding", 9))}

\* A failed write may leave anything behind; the editor promises no more.
WriteChain ==
  /\ phase = "write"
  /\ Release({"iterator", "chain"})
  /\ \/ file' \in Written(chain) /\ Return("returned")
     \/ file' \in {file, <<>>} /\ Return("threw")
  /\ UNCHANGED <<slots, pending, chain, view>>

-----------------------------------------------------------------------------
Init ==
  /\ file \in Files
  /\ call = "none" /\ phase = "idle" /\ outcome = "none"
  /\ pc = 1 /\ cursor = 1 /\ pass = 1
  /\ ptr = NullPointers /\ slots = <<>> /\ fault = FALSE /\ pending = FALSE
  /\ request = [order |-> "ordered", blocks |-> <<>>]
  /\ chain = <<>> /\ typed = [k \in Kinds \cup {"streaminfo"} |-> <<>>] /\ order = <<>>
  /\ view = NoView /\ edits = 0

Reading ==
  \/ CountBlocks \/ NextBlock \/ ConverterStep \/ ConverterFails \/ Converted
  \/ OrderTable \/ ReturnPayload

Writing ==
  \/ FirstBlock \/ DeleteBlock \/ NewTable \/ OpenElement \/ BuilderStep \/ BuilderFails
  \/ Publish \/ CheckLength \/ Unwind \/ TableFails \/ AllBuilt \/ InsertBlock
  \/ AllInserted \/ WriteChain

Next == BeginRead \/ Replace \/ Edit \/ SetupStep \/ Reading \/ Writing

Spec == Init /\ [][Next]_vars

-----------------------------------------------------------------------------
(* Properties.                                                             *)

\* Every native object a call takes it releases once, on every path through
\* the builders, the table, the converters and the chain, and on every failure
\* of one of them: nothing is lost, freed twice or popped without a push.
MetadataMemory == ~fault /\ (call = "none" => ~Holding)

\* A list without the padding blocks at its end.
Trimmed(bs) == SubSeq(bs, 1, SelectLastInSeq(bs, LAMBDA b : b.kind # "padding"))

\* What a file can hold of a block: validateVorbisComments lets a comment key
\* without values pass, and no entry stands for it.
Storable(b) ==
  IF b.kind = "vorbis" THEN [b EXCEPT !.value = RestrictValues(@, LAMBDA vs : vs # <<>>)] ELSE b

\* writeMetadata returns without an exception only when the file has the
\* requested blocks, in table order and up to padding at the end, complete but for
\* comment keys without values; a builder that fails without an exception must not
\* pass for a success.
EditTellsTruth ==
  outcome = "returned" /\ edits > 0 /\ view = NoView =>
    /\ file[1] = StreamInfo
    /\ Trimmed(MapBlocks(ToPublic, Tail(file))) = Trimmed(MapBlocks(Storable, Wanted))

\* What readMetadata and NativeMetadataMapping rebuild from the typed arrays and
\* the order table is the file: all its blocks, in physical order.
ReadKeepsOrder ==
  outcome = "returned" /\ view # NoView =>
    view = MapBlocks(ToPublic, Without("streaminfo", file))
=============================================================================
