------------------------- MODULE MetadataEditProofs -------------------------
(***************************************************************************)
(* Proofs about MetadataEdit, for files and requests of any length and any *)
(* number of edits: every native object that a read or a write takes is    *)
(* given back once, whatever fails; a read gives the blocks of the file in *)
(* order; and a write that reports success has written what was asked for. *)
(*                                                                         *)
(* A table says what may be held before each step of a builder or          *)
(* converter; that a table fits its code is checked step by step, once for *)
(* each code, and that the code then loses and misuses nothing is proved   *)
(* once for all of them.                                                   *)
(*                                                                         *)
(* The second half is about data.  Sequences are filtered by the ranks of  *)
(* positions (At, Nth), so that what the filters do follows from facts     *)
(* about finite sets; that a position of every rank exists is proved by    *)
(* induction, over a set of numbers instead of a predicate.                *)
(***************************************************************************)
EXTENDS MetadataEdit, FiniteSetTheorems, WellFoundedInduction, TLAPS

-----------------------------------------------------------------------------
(* What is held before a step: the pointers that are live, those that are  *)
(* live or null, and those that are known to be null.  Any other is null   *)
(* or was freed.                                                           *)

Row(live, open, clean) == [live |-> live, open |-> open, clean |-> clean]
Live(live) == Row(live, {}, {})
Clean(live) == Row(live, {}, {"data"})         \* no payload was taken yet
Open(live) == Row(live, {"data"}, {})          \* perhaps a payload was

\* The pointers a step may release: the live ones, and null ones if that is safe.
Droppable(h) == h.live \cup ((h.open \cup h.clean) \cap NullSafe)

\* After step s from row h, row n is true.
Leads(h, s, n) ==
  /\ n.live \subseteq (h.live \ s.drop) \cup s.take
  /\ ((h.live \cup h.open) \ s.drop) \cup s.take \cup s.maybe \subseteq n.live \cup n.open
  /\ n.open \cup n.clean
       \subseteq s.take \cup s.maybe \cup ((h.live \cup h.open \cup h.clean) \ s.drop)

\* Step s is in order when row h is true: it takes nothing that is still held,
\* and releases only what it may; if it fails, all that is held.
InOrder(h, s) ==
  /\ (s.take \cup s.maybe) \cap (h.live \cup h.open) = {}
  /\ s.take \cup s.maybe \cup s.drop \cup s.undo \subseteq Locals
  /\ h.live \cup h.open \cup h.clean \subseteq Locals
  /\ s.drop \subseteq Droppable(h)
  /\ s.fail # {} => s.undo \subseteq Droppable(h) /\ h.live \cup h.open \subseteq s.undo

\* A table fits a code whose result is left in the pointers of `result`.
Sound(code, rows, result) ==
  /\ Len(code.steps) \in Nat \ {0}
  /\ DOMAIN rows = 1 .. Len(code.steps) + 1
  /\ rows[1].live = {} /\ rows[1].open = {}
  /\ \A i \in 1 .. Len(code.steps) :
       /\ InOrder(rows[i], code.steps[i])
       /\ \A j \in After(code, i) : j \in DOMAIN rows /\ Leads(rows[i], code.steps[i], rows[j])
  /\ rows[Len(code.steps) + 1].live = result /\ rows[Len(code.steps) + 1].open = {}

-----------------------------------------------------------------------------
(* The tables.                                                             *)

VorbisRows ==
  <<Live({}), Live({"block"}), Live({"block", "inner"}), Live({"block", "inner", "text"}),
    Live({"block", "text"}), Live({"block"}), Live({"block", "frame"}),
    Live({"block", "frame"}), Live({"block", "frame", "inner"}),
    Live({"block", "frame", "inner", "text"}), Live({"block", "frame", "text"}),
    Open({"block", "frame", "text"}), Live({"block"})>>

PictureRows ==
  <<Clean({}), Clean({}), Clean({"block"}), Clean({"block", "inner"}),
    Clean({"block", "inner", "text"}), Clean({"block", "text"}),
    Clean({"block", "text", "inner"}), Clean({"block", "text", "inner", "description"}),
    Clean({"block", "text", "description"}), Live({"block", "text", "description", "data"}),
    Open({"block", "text", "description"}), Live({"block"})>>

ApplicationRows ==
  <<Clean({}), Clean({}), Clean({"block"}), Clean({"block"}), Live({"block", "data"}),
    Open({"block"}), Live({"block"})>>

PaddingRows == <<Live({}), Live({}), Live({"block"})>>

UnknownRows == <<Clean({}), Clean({}), Open({}), Live({"block"})>>

SeekTableRows ==
  <<Live({}), Live({}), Live({"block"}), Live({"block"}), Live({"block", "reference"}),
    Live({"block"}), Live({"block"})>>

CueSheetRows ==
  LET held == {"block", "frame"} IN
  <<Live({}), Live({}), Live({"inner"}), Live({"inner", "text"}), Live({"text"}),
    Live({"text"}), Live({"text", "block"}), Live({"block"}), Live({"block"}),
    Live(held), Live(held), Live(held), Live(held \cup {"inner"}),
    Live(held \cup {"inner", "text"}), Live(held \cup {"text"}), Live(held \cup {"text"}),
    Live(held), Live(held \cup {"reference"}), Live(held), Live({"block"}), Live({"block"})>>

BuilderRows ==
  [vorbis |-> VorbisRows, picture |-> PictureRows, application |-> ApplicationRows,
   seektable |-> SeekTableRows, cuesheet |-> CueSheetRows, padding |-> PaddingRows,
   unknown |-> UnknownRows]

FramedRows == <<Live({}), Live({"frame"}), Live({})>>

NewPictureRows ==
  <<Live({}), Live({"frame"}), Live({"frame", "inner"}), Live({"frame"}),
    Live({"frame", "inner"}), Live({"frame"}), Live({})>>

NewSeekTableRows ==
  <<Live({}), Live({"frame"}), Live({"frame"}), Live({"frame", "reference"}), Live({"frame"}),
    Live({})>>

NewCueSheetRows ==
  LET held == {"frame", "trackFrame"} IN
  <<Live({}), Live({"frame"}), Live({"frame"}), Live(held), Live(held),
    Live(held \cup {"inner"}), Live(held \cup {"reference"}), Live(held),
    Live(held \cup {"inner"}), Live(held), Live({"frame", "reference"}), Live({"frame"}),
    Live({"frame", "inner"}), Live({"frame"}), Live({})>>

CommentRows ==
  <<Live({}), Live({"class"}), Live({"class", "inner"}), Live({"class"}), Live({"class"}),
    Live({"class", "inner"}), Live({"class", "reference"}), Live({"class"}), Live({})>>

ConverterRows ==
  [streaminfo |-> FramedRows, vorbis |-> CommentRows, picture |-> NewPictureRows,
   application |-> FramedRows, seektable |-> NewSeekTableRows, cuesheet |-> NewCueSheetRows,
   padding |-> FramedRows, unknown |-> FramedRows]

-----------------------------------------------------------------------------
(* The inductive invariant.                                                *)

\* What row h says is true of the pointers.
Fits(h) ==
  /\ \A p \in h.live : ptr[p] = "live"
  /\ \A p \in Locals : ptr[p] = "live" => p \in h.live \cup h.open
  /\ \A p \in h.open \cup h.clean : ptr[p] # "freed"

\* The objects a call holds besides those of a builder or a converter.
Outer ==
  [idle |-> {}, path |-> {}, chain |-> {"path"}, read |-> {"path", "chain"}, iterator |-> {"chain"}]

\* The tables of the builder and of the converter that are running.
RowsOf(k) == BuilderRows[IF k \in Kinds THEN k ELSE "unknown"]
BuildRows == RowsOf(Wanted[cursor].kind)
ConvertRows == ConverterRows[Passes[pass]]

InElement == {"build", "length", "unwind"}
TablePhases == InElement \cup {"element", "failed", "insert"}
ReadPhases == {"idle", "convert", "converting", "order", "payload"}
LaterPhases ==
  TablePhases \cup {"count", "convert", "converting", "order", "payload", "first", "delete",
                    "table", "write"}

MemoryTypeOK ==
  /\ ptr \in [Pointers -> {"null", "live", "freed"}]
  /\ slots \in [DOMAIN slots -> {"null", "live"}]
  /\ phase \in DOMAIN Outer \cup LaterPhases
  /\ pass \in DOMAIN Passes
  /\ phase \notin ReadPhases => cursor \in Nat \ {0}
  /\ call = "none" <=> phase = "idle"

\* Path, chain and iterator.
OuterHeld ==
  LET held == IF phase \in DOMAIN Outer THEN Outer[phase] ELSE {"chain", "iterator"}
  IN  \A p \in {"path", "chain", "iterator"} : ptr[p] = "live" <=> p \in held

\* The table, its blocks and the local frame of an element; a request without
\* blocks has no table.
TableHeld ==
  /\ ptr["table"] = "live" => phase \in TablePhases
  /\ phase \in TablePhases => ptr["table"] = "live" \/ Wanted = <<>>
  /\ phase \in InElement => ptr["table"] = "live"
  /\ ptr["table"] # "live" => \A i \in DOMAIN slots : slots[i] # "live"
  /\ ptr["element"] = "live" <=> phase \in InElement /\ HasFrame

\* What the running builder or converter holds is what its table says; no other
\* code holds anything of its own.
LocalsHeld ==
  /\ phase = "build" =>
       pc \in {0} \cup DOMAIN BuildRows /\ Fits(BuildRows[IF pc = 0 THEN 1 ELSE pc])
  /\ phase = "converting" => pc \in DOMAIN ConvertRows /\ Fits(ConvertRows[pc])
  /\ phase \notin {"build", "converting"} => \A p \in Locals : ptr[p] # "live"

MemoryInv == ~fault /\ MemoryTypeOK /\ OuterHeld /\ TableHeld /\ LocalsHeld

-----------------------------------------------------------------------------
(* The tables fit their codes.                                             *)

\* The step after i, or past an optional part or a loop that begins there, or
\* past the one that begins where that ends, or back to the head of a loop.
LEMMA AfterCases ==
  ASSUME NEW code, NEW i, NEW j \in After(code, i)
  PROVE  LET passable == code.loops \cup code.optional IN
           \/ j = i + 1
           \/ \E q \in passable : q[1] = i + 1 /\ j = q[2] + 1
           \/ \E q, r \in passable : q[1] = i + 1 /\ r[1] = q[2] + 1 /\ j = r[2] + 1
           \/ \E q \in code.loops : q[2] = i /\ j = q[1]
  <1> DEFINE passable == code.loops \cup code.optional
             past(n) == {p[2] + 1 : p \in {q \in passable : q[1] = n}}
  <1>1. \/ j = i + 1
        \/ j \in past(i + 1)
        \/ \E n \in past(i + 1) : j \in past(n)
        \/ j \in {p[1] : p \in {q \in code.loops : q[2] = i}}
    BY DEF After
  <1> QED
    BY <1>1

\* The steps of the codes that convert strings or call other codes.
LEMMA VorbisSteps ==
  LET steps == build_vorbis_comment_block.steps IN
  /\ Len(steps) = 12
  /\ steps[1] = Get("block", {}, Silent)
  /\ steps[2] = Get("inner", {"block"}, Either)
  /\ steps[3] = Get("text", {"inner", "block"}, Either)
  /\ steps[4] = Drop({"inner"}, {"inner", "text", "block"}, Thrown)
  /\ steps[5] = Drop({"text"}, {"text", "block"}, Silent)
  /\ steps[6] = Get("frame", {"block"}, Thrown)
  /\ steps[7] = Check({"frame", "block"}, Thrown)
  /\ steps[8] = Get("inner", {"frame", "block"}, Either)
  /\ steps[9] = Get("text", {"inner", "frame", "block"}, Either)
  /\ steps[10] = Drop({"inner"}, {"inner", "text", "frame", "block"}, Thrown)
  /\ steps[11] = Maybe("data", {"text", "frame", "block"}, Silent)
  /\ steps[12] = Drop({"data", "text", "frame"}, {"data", "text", "frame", "block"}, Silent)
  BY DEF build_vorbis_comment_block, Code, jstring_to_utf8

LEMMA PictureSteps ==
  LET steps == build_picture_block.steps IN
  /\ Len(steps) = 11
  /\ steps[1] = Check({}, Thrown)
  /\ steps[2] = Get("block", {}, Silent)
  /\ steps[3] = Get("inner", {"block"}, Either)
  /\ steps[4] = Get("text", {"inner", "block"}, Either)
  /\ steps[5] = Drop({"inner"}, {"inner", "text", "block"}, Thrown)
  /\ steps[6] = Get("inner", {"text", "block"}, Either)
  /\ steps[7] = Get("description", {"inner", "text", "block"}, Either)
  /\ steps[8] = Drop({"inner"}, {"inner", "description", "text", "block"}, Thrown)
  /\ steps[9] = Get("data", {"text", "description", "block"}, Silent)
  /\ steps[10] = Check({"text", "description", "data", "block"}, Thrown)
  /\ steps[11] = Drop({"text", "description", "data"}, {"text", "description", "data", "block"}, Silent)
  BY DEF build_picture_block, Code, jstring_to_utf8

LEMMA CueSheetSteps ==
  LET steps == build_cue_sheet_block.steps IN
  /\ Len(steps) = 20
  /\ steps[1] = Check({}, Thrown)
  /\ steps[2] = Get("inner", {}, Either)
  /\ steps[3] = Get("text", {"inner"}, Either)
  /\ steps[4] = Drop({"inner"}, {"inner", "text"}, Thrown)
  /\ steps[5] = Check({"text"}, Thrown)
  /\ steps[6] = Get("block", {"text"}, Silent)
  /\ steps[7] = Drop({"text"}, {"text", "block"}, Thrown)
  /\ steps[8] = Check({"block"}, Silent)
  /\ steps[9] = Get("frame", {"block"}, Thrown)
  /\ steps[10] = Check({"frame", "block"}, Thrown)
  /\ steps[11] = Check({"frame", "block"}, Thrown)
  /\ steps[12] = Get("inner", {"frame", "block"}, Either)
  /\ steps[13] = Get("text", {"inner", "frame", "block"}, Either)
  /\ steps[14] = Drop({"inner"}, {"inner", "text", "frame", "block"}, Thrown)
  /\ steps[15] = Check({"text", "frame", "block"}, Either)
  /\ steps[16] = Drop({"text"}, {"text", "frame", "block"}, Thrown)
  /\ steps[17] = Get("reference", {"frame", "block"}, Thrown)
  /\ steps[18] = Drop({"reference"}, {"reference", "frame", "block"}, Thrown)
  /\ steps[19] = Drop({"frame"}, {}, Never)
  /\ steps[20] = Check({"block"}, Thrown)
  BY DEF build_cue_sheet_block, Code, jstring_to_utf8, fill_cue_sheet_track

LEMMA NewPictureSteps ==
  LET steps == new_picture.steps IN
  /\ Len(steps) = 6
  /\ steps[1] = Get("frame", {}, Thrown)
  /\ steps[2] = Get("inner", {"frame"}, Thrown)
  /\ steps[3] = Drop({"inner"}, {"inner", "frame"}, Thrown)
  /\ steps[4] = Get("inner", {"frame"}, Thrown)
  /\ steps[5] = Drop({"inner"}, {"inner", "frame"}, Thrown)
  /\ steps[6] = Drop({"frame"}, {"frame"}, Thrown)
  BY DEF new_picture, Code, new_utf8_string

LEMMA NewCueSheetSteps ==
  LET steps == new_cue_sheet.steps IN
  /\ Len(steps) = 14
  /\ steps[1] = Get("frame", {}, Thrown)
  /\ steps[2] = Check({"frame"}, Thrown)
  /\ steps[3] = Get("trackFrame", {"frame"}, Thrown)
  /\ steps[4] = Check({"trackFrame", "frame"}, Thrown)
  /\ steps[5] = Get("inner", {"trackFrame", "frame"}, Thrown)
  /\ steps[6] = Swap("reference", {"inner"}, {"inner", "trackFrame", "frame"}, Thrown)
  /\ steps[7] = Drop({"reference"}, {"reference", "trackFrame", "frame"}, Thrown)
  /\ steps[8] = Get("inner", {"trackFrame", "frame"}, Thrown)
  /\ steps[9] = Drop({"inner"}, {"inner", "trackFrame", "frame"}, Thrown)
  /\ steps[10] = Swap("reference", {"trackFrame"}, {"trackFrame", "frame"}, Thrown)
  /\ steps[11] = Drop({"reference"}, {"reference", "frame"}, Thrown)
  /\ steps[12] = Get("inner", {"frame"}, Thrown)
  /\ steps[13] = Drop({"inner"}, {"inner", "frame"}, Thrown)
  /\ steps[14] = Drop({"frame"}, {"frame"}, Thrown)
  BY DEF new_cue_sheet, Code, new_cue_sheet_track, new_cue_sheet_index, new_utf8_string

LEMMA CommentSteps ==
  LET steps == new_comment_entries.steps IN
  /\ Len(steps) = 8
  /\ steps[1] = Get("class", {}, Thrown)
  /\ steps[2] = Get("inner", {"class"}, Thrown)
  /\ steps[3] = Drop({"inner"}, {"inner", "class"}, Thrown)
  /\ steps[4] = Check({"class"}, Thrown)
  /\ steps[5] = Get("inner", {"class"}, Thrown)
  /\ steps[6] = Swap("reference", {"inner"}, {"inner", "class"}, Thrown)
  /\ steps[7] = Drop({"reference"}, {"reference", "class"}, Thrown)
  /\ steps[8] = Drop({"class"}, {}, Never)
  BY DEF new_comment_entries, Code, new_utf8_string

USE DEF Step, Get, Maybe, Check, Drop, Swap, Thrown, Silent, Either, Never,
        Row, Live, Clean, Open

\* The comment: the vendor may be absent, the entries are a loop.
LEMMA VorbisSound == Sound(build_vorbis_comment_block, VorbisRows, {"block"})
  <1> DEFINE steps == build_vorbis_comment_block.steps
  <1>1. /\ Len(steps) = 12
        /\ steps[1] = Get("block", {}, Silent)
        /\ steps[2] = Get("inner", {"block"}, Either)
        /\ steps[3] = Get("text", {"inner", "block"}, Either)
        /\ steps[4] = Drop({"inner"}, {"inner", "text", "block"}, Thrown)
        /\ steps[5] = Drop({"text"}, {"text", "block"}, Silent)
        /\ steps[6] = Get("frame", {"block"}, Thrown)
        /\ steps[7] = Check({"frame", "block"}, Thrown)
        /\ steps[8] = Get("inner", {"frame", "block"}, Either)
        /\ steps[9] = Get("text", {"inner", "frame", "block"}, Either)
        /\ steps[10] = Drop({"inner"}, {"inner", "text", "frame", "block"}, Thrown)
        /\ steps[11] = Maybe("data", {"text", "frame", "block"}, Silent)
        /\ steps[12] = Drop({"data", "text", "frame"}, {"data", "text", "frame", "block"}, Silent)
    BY VorbisSteps
  <1>2. build_vorbis_comment_block.loops = {<<6, 12>>} /\ build_vorbis_comment_block.optional = {<<2, 5>>}
    BY DEF build_vorbis_comment_block, Code
  <1>3. ASSUME NEW i \in 1 .. 12, NEW j \in After(build_vorbis_comment_block, i)
        PROVE  j = i + 1 \/ (i = 1 /\ j \in {6, 13}) \/ (i = 5 /\ j \in {13}) \/ (i = 12 /\ j \in {6})
    BY <1>2, AfterCases
  <1>4. /\ DOMAIN VorbisRows = 1 .. 13
        /\ VorbisRows[1].live = {} /\ VorbisRows[1].open = {}
        /\ VorbisRows[13].live = {"block"} /\ VorbisRows[13].open = {}
    BY DEF VorbisRows
  <1>5. \A i \in 1 .. 12 : InOrder(VorbisRows[i], steps[i])
    <2>1. \A i \in 1 .. 6 : InOrder(VorbisRows[i], steps[i])
      BY <1>1 DEF VorbisRows, InOrder, Droppable, Locals, NullSafe
    <2>2. \A i \in 7 .. 12 : InOrder(VorbisRows[i], steps[i])
      BY <1>1 DEF VorbisRows, InOrder, Droppable, Locals, NullSafe
    <2> QED
      BY <2>1, <2>2
  <1>6. \A i \in 1 .. 12 : Leads(VorbisRows[i], steps[i], VorbisRows[i + 1])
    <2>1. \A i \in 1 .. 6 : Leads(VorbisRows[i], steps[i], VorbisRows[i + 1])
      BY <1>1 DEF VorbisRows, Leads
    <2>2. \A i \in 7 .. 12 : Leads(VorbisRows[i], steps[i], VorbisRows[i + 1])
      BY <1>1 DEF VorbisRows, Leads
    <2> QED
      BY <2>1, <2>2
  <1>7. /\ Leads(VorbisRows[1], steps[1], VorbisRows[6])
        /\ Leads(VorbisRows[1], steps[1], VorbisRows[13])
        /\ Leads(VorbisRows[5], steps[5], VorbisRows[13])
        /\ Leads(VorbisRows[12], steps[12], VorbisRows[6])
    <2>1. Leads(VorbisRows[1], steps[1], VorbisRows[6])
      BY <1>1 DEF VorbisRows, Leads
    <2>2. Leads(VorbisRows[1], steps[1], VorbisRows[13])
      BY <1>1 DEF VorbisRows, Leads
    <2>3. Leads(VorbisRows[5], steps[5], VorbisRows[13])
      BY <1>1 DEF VorbisRows, Leads
    <2>4. Leads(VorbisRows[12], steps[12], VorbisRows[6])
      BY <1>1 DEF VorbisRows, Leads
    <2> QED
      BY <2>1, <2>2, <2>3, <2>4
  <1> QED
    BY <1>1, <1>2, <1>3, <1>4, <1>5, <1>6, <1>7 DEF Sound

\* A picture, whose payload may be empty.
LEMMA PictureSound == Sound(build_picture_block, PictureRows, {"block"})
  <1> DEFINE steps == build_picture_block.steps
  <1>1. /\ Len(steps) = 11
        /\ steps[1] = Check({}, Thrown)
        /\ steps[2] = Get("block", {}, Silent)
        /\ steps[3] = Get("inner", {"block"}, Either)
        /\ steps[4] = Get("text", {"inner", "block"}, Either)
        /\ steps[5] = Drop({"inner"}, {"inner", "text", "block"}, Thrown)
        /\ steps[6] = Get("inner", {"text", "block"}, Either)
        /\ steps[7] = Get("description", {"inner", "text", "block"}, Either)
        /\ steps[8] = Drop({"inner"}, {"inner", "description", "text", "block"}, Thrown)
        /\ steps[9] = Get("data", {"text", "description", "block"}, Silent)
        /\ steps[10] = Check({"text", "description", "data", "block"}, Thrown)
        /\ steps[11] = Drop({"text", "description", "data"}, {"text", "description", "data", "block"}, Silent)
    BY PictureSteps
  <1>2. build_picture_block.loops = {} /\ build_picture_block.optional = {<<9, 10>>}
    BY DEF build_picture_block, Code
  <1>3. ASSUME NEW i \in 1 .. 11, NEW j \in After(build_picture_block, i)
        PROVE  j = i + 1 \/ (i = 8 /\ j \in {11})
    BY <1>2, AfterCases
  <1>4. /\ DOMAIN PictureRows = 1 .. 12
        /\ PictureRows[1].live = {} /\ PictureRows[1].open = {}
        /\ PictureRows[12].live = {"block"} /\ PictureRows[12].open = {}
    BY DEF PictureRows
  <1>5. \A i \in 1 .. 11 : InOrder(PictureRows[i], steps[i])
    BY <1>1 DEF PictureRows, InOrder, Droppable, Locals, NullSafe
  <1>6. \A i \in 1 .. 11 : Leads(PictureRows[i], steps[i], PictureRows[i + 1])
    BY <1>1 DEF PictureRows, Leads
  <1>7. /\ Leads(PictureRows[8], steps[8], PictureRows[11])
    BY <1>1 DEF PictureRows, Leads
  <1> QED
    BY <1>1, <1>2, <1>3, <1>4, <1>5, <1>6, <1>7 DEF Sound

\* An application block, whose payload may be empty.
LEMMA ApplicationSound == Sound(build_application_block, ApplicationRows, {"block"})
  <1> DEFINE steps == build_application_block.steps
  <1>1. /\ Len(steps) = 6
        /\ steps[1] = Check({}, Thrown)
        /\ steps[2] = Get("block", {}, Silent)
        /\ steps[3] = Check({"block"}, Thrown)
        /\ steps[4] = Get("data", {"block"}, Silent)
        /\ steps[5] = Check({"data", "block"}, Thrown)
        /\ steps[6] = Drop({"data"}, {"data", "block"}, Silent)
    BY DEF build_application_block, Code
  <1>2. build_application_block.loops = {} /\ build_application_block.optional = {<<4, 5>>}
    BY DEF build_application_block, Code
  <1>3. ASSUME NEW i \in 1 .. 6, NEW j \in After(build_application_block, i)
        PROVE  j = i + 1 \/ (i = 3 /\ j \in {6})
    BY <1>2, AfterCases
  <1>4. /\ DOMAIN ApplicationRows = 1 .. 7
        /\ ApplicationRows[1].live = {} /\ ApplicationRows[1].open = {}
        /\ ApplicationRows[7].live = {"block"} /\ ApplicationRows[7].open = {}
    BY DEF ApplicationRows
  <1>5. \A i \in 1 .. 6 : InOrder(ApplicationRows[i], steps[i])
    BY <1>1 DEF ApplicationRows, InOrder, Droppable, Locals, NullSafe
  <1>6. \A i \in 1 .. 6 : Leads(ApplicationRows[i], steps[i], ApplicationRows[i + 1])
    BY <1>1 DEF ApplicationRows, Leads
  <1>7. /\ Leads(ApplicationRows[3], steps[3], ApplicationRows[6])
    BY <1>1 DEF ApplicationRows, Leads
  <1> QED
    BY <1>1, <1>2, <1>3, <1>4, <1>5, <1>6, <1>7 DEF Sound

\* Padding.
LEMMA PaddingSound == Sound(build_padding_block, PaddingRows, {"block"})
  <1> DEFINE steps == build_padding_block.steps
  <1>1. /\ Len(steps) = 2
        /\ steps[1] = Check({}, Thrown)
        /\ steps[2] = Get("block", {}, Silent)
    BY DEF build_padding_block, Code
  <1>2. build_padding_block.loops = {} /\ build_padding_block.optional = {}
    BY DEF build_padding_block, Code
  <1>3. ASSUME NEW i \in 1 .. 2, NEW j \in After(build_padding_block, i)
        PROVE  j = i + 1
    BY <1>2, AfterCases
  <1>4. /\ DOMAIN PaddingRows = 1 .. 3
        /\ PaddingRows[1].live = {} /\ PaddingRows[1].open = {}
        /\ PaddingRows[3].live = {"block"} /\ PaddingRows[3].open = {}
    BY DEF PaddingRows
  <1>5. \A i \in 1 .. 2 : InOrder(PaddingRows[i], steps[i])
    BY <1>1 DEF PaddingRows, InOrder, Droppable, Locals, NullSafe
  <1>6. \A i \in 1 .. 2 : Leads(PaddingRows[i], steps[i], PaddingRows[i + 1])
    BY <1>1 DEF PaddingRows, Leads
  <1> QED
    BY <1>1, <1>2, <1>3, <1>4, <1>5, <1>6 DEF Sound

\* A block of another type, whose payload is borrowed if there is one.
LEMMA UnknownSound == Sound(build_unknown_metadata_block, UnknownRows, {"block"})
  <1> DEFINE steps == build_unknown_metadata_block.steps
  <1>1. /\ Len(steps) = 3
        /\ steps[1] = Check({}, Thrown)
        /\ steps[2] = Get("data", {}, Either)
        /\ steps[3] = Swap("block", {"data"}, {"data"}, Silent)
    BY DEF build_unknown_metadata_block, Code
  <1>2. build_unknown_metadata_block.loops = {} /\ build_unknown_metadata_block.optional = {<<2, 2>>}
    BY DEF build_unknown_metadata_block, Code
  <1>3. ASSUME NEW i \in 1 .. 3, NEW j \in After(build_unknown_metadata_block, i)
        PROVE  j = i + 1 \/ (i = 1 /\ j \in {3})
    BY <1>2, AfterCases
  <1>4. /\ DOMAIN UnknownRows = 1 .. 4
        /\ UnknownRows[1].live = {} /\ UnknownRows[1].open = {}
        /\ UnknownRows[4].live = {"block"} /\ UnknownRows[4].open = {}
    BY DEF UnknownRows
  <1>5. \A i \in 1 .. 3 : InOrder(UnknownRows[i], steps[i])
    BY <1>1 DEF UnknownRows, InOrder, Droppable, Locals, NullSafe
  <1>6. \A i \in 1 .. 3 : Leads(UnknownRows[i], steps[i], UnknownRows[i + 1])
    BY <1>1 DEF UnknownRows, Leads
  <1>7. /\ Leads(UnknownRows[1], steps[1], UnknownRows[3])
    BY <1>1 DEF UnknownRows, Leads
  <1> QED
    BY <1>1, <1>2, <1>3, <1>4, <1>5, <1>6, <1>7 DEF Sound

\* The seek table: a loop over its points.
LEMMA SeekTableSound == Sound(build_seek_table_block, SeekTableRows, {"block"})
  <1> DEFINE steps == build_seek_table_block.steps
  <1>1. /\ Len(steps) = 6
        /\ steps[1] = Check({}, Thrown)
        /\ steps[2] = Get("block", {}, Silent)
        /\ steps[3] = Check({"block"}, Silent)
        /\ steps[4] = Get("reference", {"block"}, Thrown)
        /\ steps[5] = Drop({"reference"}, {"reference", "block"}, Thrown)
        /\ steps[6] = Check({"block"}, Thrown)
    BY DEF build_seek_table_block, Code
  <1>2. build_seek_table_block.loops = {<<4, 5>>} /\ build_seek_table_block.optional = {}
    BY DEF build_seek_table_block, Code
  <1>3. ASSUME NEW i \in 1 .. 6, NEW j \in After(build_seek_table_block, i)
        PROVE  j = i + 1 \/ (i = 3 /\ j \in {6}) \/ (i = 5 /\ j \in {4})
    BY <1>2, AfterCases
  <1>4. /\ DOMAIN SeekTableRows = 1 .. 7
        /\ SeekTableRows[1].live = {} /\ SeekTableRows[1].open = {}
        /\ SeekTableRows[7].live = {"block"} /\ SeekTableRows[7].open = {}
    BY DEF SeekTableRows
  <1>5. \A i \in 1 .. 6 : InOrder(SeekTableRows[i], steps[i])
    BY <1>1 DEF SeekTableRows, InOrder, Droppable, Locals, NullSafe
  <1>6. \A i \in 1 .. 6 : Leads(SeekTableRows[i], steps[i], SeekTableRows[i + 1])
    BY <1>1 DEF SeekTableRows, Leads
  <1>7. /\ Leads(SeekTableRows[3], steps[3], SeekTableRows[6])
        /\ Leads(SeekTableRows[5], steps[5], SeekTableRows[4])
    BY <1>1 DEF SeekTableRows, Leads
  <1> QED
    BY <1>1, <1>2, <1>3, <1>4, <1>5, <1>6, <1>7 DEF Sound

\* The cue sheet: a loop over its tracks with one over the indices of a track.
LEMMA CueSheetSound == Sound(build_cue_sheet_block, CueSheetRows, {"block"})
  <1> DEFINE steps == build_cue_sheet_block.steps
  <1>1. /\ Len(steps) = 20
        /\ steps[1] = Check({}, Thrown)
        /\ steps[2] = Get("inner", {}, Either)
        /\ steps[3] = Get("text", {"inner"}, Either)
        /\ steps[4] = Drop({"inner"}, {"inner", "text"}, Thrown)
        /\ steps[5] = Check({"text"}, Thrown)
        /\ steps[6] = Get("block", {"text"}, Silent)
        /\ steps[7] = Drop({"text"}, {"text", "block"}, Thrown)
        /\ steps[8] = Check({"block"}, Silent)
        /\ steps[9] = Get("frame", {"block"}, Thrown)
        /\ steps[10] = Check({"frame", "block"}, Thrown)
        /\ steps[11] = Check({"frame", "block"}, Thrown)
        /\ steps[12] = Get("inner", {"frame", "block"}, Either)
        /\ steps[13] = Get("text", {"inner", "frame", "block"}, Either)
        /\ steps[14] = Drop({"inner"}, {"inner", "text", "frame", "block"}, Thrown)
        /\ steps[15] = Check({"text", "frame", "block"}, Either)
        /\ steps[16] = Drop({"text"}, {"text", "frame", "block"}, Thrown)
        /\ steps[17] = Get("reference", {"frame", "block"}, Thrown)
        /\ steps[18] = Drop({"reference"}, {"reference", "frame", "block"}, Thrown)
        /\ steps[19] = Drop({"frame"}, {}, Never)
        /\ steps[20] = Check({"block"}, Thrown)
    BY CueSheetSteps
  <1>2. build_cue_sheet_block.loops = {<<9, 19>>, <<17, 18>>} /\ build_cue_sheet_block.optional = {}
    BY DEF build_cue_sheet_block, Code
  <1>3. ASSUME NEW i \in 1 .. 20, NEW j \in After(build_cue_sheet_block, i)
        PROVE  j = i + 1 \/ (i = 8 /\ j \in {20}) \/ (i = 16 /\ j \in {19}) \/ (i = 18 /\ j \in {17}) \/ (i = 19 /\ j \in {9})
    BY <1>2, AfterCases
  <1>4. /\ DOMAIN CueSheetRows = 1 .. 21
        /\ CueSheetRows[1].live = {} /\ CueSheetRows[1].open = {}
        /\ CueSheetRows[21].live = {"block"} /\ CueSheetRows[21].open = {}
    BY DEF CueSheetRows
  <1>5. \A i \in 1 .. 20 : InOrder(CueSheetRows[i], steps[i])
    <2>1. \A i \in 1 .. 10 : InOrder(CueSheetRows[i], steps[i])
      BY <1>1 DEF CueSheetRows, InOrder, Droppable, Locals, NullSafe
    <2>2. \A i \in 11 .. 20 : InOrder(CueSheetRows[i], steps[i])
      BY <1>1 DEF CueSheetRows, InOrder, Droppable, Locals, NullSafe
    <2> QED
      BY <2>1, <2>2
  <1>6. \A i \in 1 .. 20 : Leads(CueSheetRows[i], steps[i], CueSheetRows[i + 1])
    <2>1. \A i \in 1 .. 10 : Leads(CueSheetRows[i], steps[i], CueSheetRows[i + 1])
      BY <1>1 DEF CueSheetRows, Leads
    <2>2. \A i \in 11 .. 20 : Leads(CueSheetRows[i], steps[i], CueSheetRows[i + 1])
      BY <1>1 DEF CueSheetRows, Leads
    <2> QED
      BY <2>1, <2>2
  <1>7. /\ Leads(CueSheetRows[8], steps[8], CueSheetRows[20])
        /\ Leads(CueSheetRows[16], steps[16], CueSheetRows[19])
        /\ Leads(CueSheetRows[18], steps[18], CueSheetRows[17])
        /\ Leads(CueSheetRows[19], steps[19], CueSheetRows[9])
    <2>1. Leads(CueSheetRows[8], steps[8], CueSheetRows[20])
      BY <1>1 DEF CueSheetRows, Leads
    <2>2. Leads(CueSheetRows[16], steps[16], CueSheetRows[19])
      BY <1>1 DEF CueSheetRows, Leads
    <2>3. Leads(CueSheetRows[18], steps[18], CueSheetRows[17])
      BY <1>1 DEF CueSheetRows, Leads
    <2>4. Leads(CueSheetRows[19], steps[19], CueSheetRows[9])
      BY <1>1 DEF CueSheetRows, Leads
    <2> QED
      BY <2>1, <2>2, <2>3, <2>4
  <1>8. ASSUME NEW i \in 1 .. 20, NEW j \in After(build_cue_sheet_block, i)
        PROVE  j \in 1 .. 21 /\ Leads(CueSheetRows[i], steps[i], CueSheetRows[j])
    BY <1>3, <1>6, <1>7
  <1>9. Len(steps) = 20
    BY <1>1
  <1> QED
    BY <1>4, <1>5, <1>8, <1>9 DEF Sound

\* A converter that only has a local frame.
LEMMA FramedSound == Sound(Framed, FramedRows, {})
  <1> DEFINE steps == Framed.steps
  <1>1. /\ Len(steps) = 2
        /\ steps[1] = Get("frame", {}, Thrown)
        /\ steps[2] = Drop({"frame"}, {"frame"}, Thrown)
    BY DEF Framed, Code
  <1>2. Framed.loops = {} /\ Framed.optional = {}
    BY DEF Framed, Code
  <1>3. ASSUME NEW i \in 1 .. 2, NEW j \in After(Framed, i)
        PROVE  j = i + 1
    BY <1>2, AfterCases
  <1>4. /\ DOMAIN FramedRows = 1 .. 3
        /\ FramedRows[1].live = {} /\ FramedRows[1].open = {}
        /\ FramedRows[3].live = {} /\ FramedRows[3].open = {}
    BY DEF FramedRows
  <1>5. \A i \in 1 .. 2 : InOrder(FramedRows[i], steps[i])
    BY <1>1 DEF FramedRows, InOrder, Droppable, Locals, NullSafe
  <1>6. \A i \in 1 .. 2 : Leads(FramedRows[i], steps[i], FramedRows[i + 1])
    BY <1>1 DEF FramedRows, Leads
  <1> QED
    BY <1>1, <1>2, <1>3, <1>4, <1>5, <1>6 DEF Sound

\* A picture to Java.
LEMMA NewPictureSound == Sound(new_picture, NewPictureRows, {})
  <1> DEFINE steps == new_picture.steps
  <1>1. /\ Len(steps) = 6
        /\ steps[1] = Get("frame", {}, Thrown)
        /\ steps[2] = Get("inner", {"frame"}, Thrown)
        /\ steps[3] = Drop({"inner"}, {"inner", "frame"}, Thrown)
        /\ steps[4] = Get("inner", {"frame"}, Thrown)
        /\ steps[5] = Drop({"inner"}, {"inner", "frame"}, Thrown)
        /\ steps[6] = Drop({"frame"}, {"frame"}, Thrown)
    BY NewPictureSteps
  <1>2. new_picture.loops = {} /\ new_picture.optional = {}
    BY DEF new_picture, Code
  <1>3. ASSUME NEW i \in 1 .. 6, NEW j \in After(new_picture, i)
        PROVE  j = i + 1
    BY <1>2, AfterCases
  <1>4. /\ DOMAIN NewPictureRows = 1 .. 7
        /\ NewPictureRows[1].live = {} /\ NewPictureRows[1].open = {}
        /\ NewPictureRows[7].live = {} /\ NewPictureRows[7].open = {}
    BY DEF NewPictureRows
  <1>5. \A i \in 1 .. 6 : InOrder(NewPictureRows[i], steps[i])
    BY <1>1 DEF NewPictureRows, InOrder, Droppable, Locals, NullSafe
  <1>6. \A i \in 1 .. 6 : Leads(NewPictureRows[i], steps[i], NewPictureRows[i + 1])
    BY <1>1 DEF NewPictureRows, Leads
  <1> QED
    BY <1>1, <1>2, <1>3, <1>4, <1>5, <1>6 DEF Sound

\* A seek table to Java.
LEMMA NewSeekTableSound == Sound(new_seek_table, NewSeekTableRows, {})
  <1> DEFINE steps == new_seek_table.steps
  <1>1. /\ Len(steps) = 5
        /\ steps[1] = Get("frame", {}, Thrown)
        /\ steps[2] = Check({"frame"}, Thrown)
        /\ steps[3] = Get("reference", {"frame"}, Thrown)
        /\ steps[4] = Drop({"reference"}, {"reference", "frame"}, Thrown)
        /\ steps[5] = Drop({"frame"}, {"frame"}, Thrown)
    BY DEF new_seek_table, Code
  <1>2. new_seek_table.loops = {<<3, 4>>} /\ new_seek_table.optional = {}
    BY DEF new_seek_table, Code
  <1>3. ASSUME NEW i \in 1 .. 5, NEW j \in After(new_seek_table, i)
        PROVE  j = i + 1 \/ (i = 2 /\ j \in {5}) \/ (i = 4 /\ j \in {3})
    BY <1>2, AfterCases
  <1>4. /\ DOMAIN NewSeekTableRows = 1 .. 6
        /\ NewSeekTableRows[1].live = {} /\ NewSeekTableRows[1].open = {}
        /\ NewSeekTableRows[6].live = {} /\ NewSeekTableRows[6].open = {}
    BY DEF NewSeekTableRows
  <1>5. \A i \in 1 .. 5 : InOrder(NewSeekTableRows[i], steps[i])
    BY <1>1 DEF NewSeekTableRows, InOrder, Droppable, Locals, NullSafe
  <1>6. \A i \in 1 .. 5 : Leads(NewSeekTableRows[i], steps[i], NewSeekTableRows[i + 1])
    BY <1>1 DEF NewSeekTableRows, Leads
  <1>7. /\ Leads(NewSeekTableRows[2], steps[2], NewSeekTableRows[5])
        /\ Leads(NewSeekTableRows[4], steps[4], NewSeekTableRows[3])
    BY <1>1 DEF NewSeekTableRows, Leads
  <1> QED
    BY <1>1, <1>2, <1>3, <1>4, <1>5, <1>6, <1>7 DEF Sound

\* A cue sheet to Java: tracks, and indices of a track.
LEMMA NewCueSheetSound == Sound(new_cue_sheet, NewCueSheetRows, {})
  <1> DEFINE steps == new_cue_sheet.steps
  <1>1. /\ Len(steps) = 14
        /\ steps[1] = Get("frame", {}, Thrown)
        /\ steps[2] = Check({"frame"}, Thrown)
        /\ steps[3] = Get("trackFrame", {"frame"}, Thrown)
        /\ steps[4] = Check({"trackFrame", "frame"}, Thrown)
        /\ steps[5] = Get("inner", {"trackFrame", "frame"}, Thrown)
        /\ steps[6] = Swap("reference", {"inner"}, {"inner", "trackFrame", "frame"}, Thrown)
        /\ steps[7] = Drop({"reference"}, {"reference", "trackFrame", "frame"}, Thrown)
        /\ steps[8] = Get("inner", {"trackFrame", "frame"}, Thrown)
        /\ steps[9] = Drop({"inner"}, {"inner", "trackFrame", "frame"}, Thrown)
        /\ steps[10] = Swap("reference", {"trackFrame"}, {"trackFrame", "frame"}, Thrown)
        /\ steps[11] = Drop({"reference"}, {"reference", "frame"}, Thrown)
        /\ steps[12] = Get("inner", {"frame"}, Thrown)
        /\ steps[13] = Drop({"inner"}, {"inner", "frame"}, Thrown)
        /\ steps[14] = Drop({"frame"}, {"frame"}, Thrown)
    BY NewCueSheetSteps
  <1>2. new_cue_sheet.loops = {<<3, 11>>, <<5, 7>>} /\ new_cue_sheet.optional = {}
    BY DEF new_cue_sheet, Code
  <1>3. ASSUME NEW i \in 1 .. 14, NEW j \in After(new_cue_sheet, i)
        PROVE  j = i + 1 \/ (i = 2 /\ j \in {12}) \/ (i = 4 /\ j \in {8}) \/ (i = 7 /\ j \in {5}) \/ (i = 11 /\ j \in {3})
    BY <1>2, AfterCases
  <1>4. /\ DOMAIN NewCueSheetRows = 1 .. 15
        /\ NewCueSheetRows[1].live = {} /\ NewCueSheetRows[1].open = {}
        /\ NewCueSheetRows[15].live = {} /\ NewCueSheetRows[15].open = {}
    BY DEF NewCueSheetRows
  <1>5. \A i \in 1 .. 14 : InOrder(NewCueSheetRows[i], steps[i])
    <2>1. \A i \in 1 .. 7 : InOrder(NewCueSheetRows[i], steps[i])
      BY <1>1 DEF NewCueSheetRows, InOrder, Droppable, Locals, NullSafe
    <2>2. \A i \in 8 .. 14 : InOrder(NewCueSheetRows[i], steps[i])
      BY <1>1 DEF NewCueSheetRows, InOrder, Droppable, Locals, NullSafe
    <2> QED
      BY <2>1, <2>2
  <1>6. \A i \in 1 .. 14 : Leads(NewCueSheetRows[i], steps[i], NewCueSheetRows[i + 1])
    <2>1. \A i \in 1 .. 7 : Leads(NewCueSheetRows[i], steps[i], NewCueSheetRows[i + 1])
      BY <1>1 DEF NewCueSheetRows, Leads
    <2>2. \A i \in 8 .. 14 : Leads(NewCueSheetRows[i], steps[i], NewCueSheetRows[i + 1])
      BY <1>1 DEF NewCueSheetRows, Leads
    <2> QED
      BY <2>1, <2>2
  <1>7. /\ Leads(NewCueSheetRows[2], steps[2], NewCueSheetRows[12])
        /\ Leads(NewCueSheetRows[4], steps[4], NewCueSheetRows[8])
        /\ Leads(NewCueSheetRows[7], steps[7], NewCueSheetRows[5])
        /\ Leads(NewCueSheetRows[11], steps[11], NewCueSheetRows[3])
    <2>1. Leads(NewCueSheetRows[2], steps[2], NewCueSheetRows[12])
      BY <1>1 DEF NewCueSheetRows, Leads
    <2>2. Leads(NewCueSheetRows[4], steps[4], NewCueSheetRows[8])
      BY <1>1 DEF NewCueSheetRows, Leads
    <2>3. Leads(NewCueSheetRows[7], steps[7], NewCueSheetRows[5])
      BY <1>1 DEF NewCueSheetRows, Leads
    <2>4. Leads(NewCueSheetRows[11], steps[11], NewCueSheetRows[3])
      BY <1>1 DEF NewCueSheetRows, Leads
    <2> QED
      BY <2>1, <2>2, <2>3, <2>4
  <1> QED
    BY <1>1, <1>2, <1>3, <1>4, <1>5, <1>6, <1>7 DEF Sound

\* A comment to Java: its vendor and its entries.
LEMMA CommentSound == Sound(new_comment_entries, CommentRows, {})
  <1> DEFINE steps == new_comment_entries.steps
  <1>1. /\ Len(steps) = 8
        /\ steps[1] = Get("class", {}, Thrown)
        /\ steps[2] = Get("inner", {"class"}, Thrown)
        /\ steps[3] = Drop({"inner"}, {"inner", "class"}, Thrown)
        /\ steps[4] = Check({"class"}, Thrown)
        /\ steps[5] = Get("inner", {"class"}, Thrown)
        /\ steps[6] = Swap("reference", {"inner"}, {"inner", "class"}, Thrown)
        /\ steps[7] = Drop({"reference"}, {"reference", "class"}, Thrown)
        /\ steps[8] = Drop({"class"}, {}, Never)
    BY CommentSteps
  <1>2. new_comment_entries.loops = {<<5, 7>>} /\ new_comment_entries.optional = {}
    BY DEF new_comment_entries, Code
  <1>3. ASSUME NEW i \in 1 .. 8, NEW j \in After(new_comment_entries, i)
        PROVE  j = i + 1 \/ (i = 4 /\ j \in {8}) \/ (i = 7 /\ j \in {5})
    BY <1>2, AfterCases
  <1>4. /\ DOMAIN CommentRows = 1 .. 9
        /\ CommentRows[1].live = {} /\ CommentRows[1].open = {}
        /\ CommentRows[9].live = {} /\ CommentRows[9].open = {}
    BY DEF CommentRows
  <1>5. \A i \in 1 .. 8 : InOrder(CommentRows[i], steps[i])
    BY <1>1 DEF CommentRows, InOrder, Droppable, Locals, NullSafe
  <1>6. \A i \in 1 .. 8 : Leads(CommentRows[i], steps[i], CommentRows[i + 1])
    BY <1>1 DEF CommentRows, Leads
  <1>7. /\ Leads(CommentRows[4], steps[4], CommentRows[8])
        /\ Leads(CommentRows[7], steps[7], CommentRows[5])
    BY <1>1 DEF CommentRows, Leads
  <1> QED
    BY <1>1, <1>2, <1>3, <1>4, <1>5, <1>6, <1>7 DEF Sound

HIDE DEF Step, Get, Maybe, Check, Drop, Swap, Thrown, Silent, Either, Never,
         Row, Live, Clean, Open

\* So does the table of every builder, and of the converter of every pass.
LEMMA BuildersSound ==
  ASSUME NEW k
  PROVE  Sound(BuilderOf(k), RowsOf(k), {"block"})
  <1> DEFINE kind == IF k \in Kinds THEN k ELSE "unknown"
  <1>1. kind \in {"vorbis", "picture", "application", "seektable", "cuesheet", "padding", "unknown"}
    BY DEF Kinds, Builders
  <1>2. Sound(Builders[kind], BuilderRows[kind], {"block"})
    BY <1>1, VorbisSound, PictureSound, ApplicationSound, SeekTableSound, CueSheetSound,
       PaddingSound, UnknownSound DEF Builders, BuilderRows
  <1> QED
    BY <1>2 DEF BuilderOf, RowsOf

\* The converter of every pass over the chain.
LEMMA ConvertersSound ==
  ASSUME NEW n \in DOMAIN Passes
  PROVE  Sound(Converters[Passes[n]], ConverterRows[Passes[n]], {})
  <1> DEFINE kind == Passes[n]
  <1>1. kind \in {"streaminfo", "vorbis", "picture", "application", "seektable", "cuesheet",
                  "padding", "unknown"}
    BY DEF Passes
  <1> HIDE DEF kind
  <1>2. Sound(Converters[kind], ConverterRows[kind], {})
    BY <1>1, FramedSound, CommentSound, NewPictureSound, NewSeekTableSound, NewCueSheetSound
       DEF Converters, ConverterRows, new_stream_info, new_application_block,
           new_padding_block, new_unknown_metadata_block
  <1> QED
    BY <1>2 DEF kind

-----------------------------------------------------------------------------
(* What a step does to the pointers.                                       *)

States == {"null", "live", "freed"}

\* Only pointers in ps have changed.
OnlyIn(ps) == \A p \in Pointers \ ps : ptr'[p] = ptr[p]

\* The pointers of a code are among all of them.
LEMMA LocalsArePointers == Locals \subseteq Pointers
  BY DEF Pointers

\* A step that is in order leads to a row that is true, without a fault.
LEMMA StepKeeps ==
  ASSUME ptr \in [Pointers -> States], ~fault,
         NEW h, NEW s, Fits(h), InOrder(h, s), Do(s)
  PROVE  /\ ptr' \in [Pointers -> States] /\ ~fault' /\ OnlyIn(Locals)
         /\ \A n : Leads(h, s, n) => Fits(n)'
  <1>1. PICK got \in SUBSET s.maybe :
          /\ ptr' = [p \in Pointers |->
                       IF p \in s.take \cup got THEN "live"
                       ELSE IF p \in s.maybe THEN "null"
                       ELSE IF p \in s.drop /\ ptr[p] = "live" THEN "freed" ELSE ptr[p]]
          /\ fault' = (fault \/ Misused(s.drop) \/ \E p \in s.take \cup s.maybe : ptr[p] = "live")
    BY DEF Do
  <1>2. ptr' \in [Pointers -> States] /\ OnlyIn(Locals)
    BY <1>1 DEF States, OnlyIn, InOrder
  <1>3. ~Misused(s.drop)
    BY DEF Misused, InOrder, Droppable, Fits
  <1>4. \A p \in s.take \cup s.maybe : ptr[p] # "live"
    BY DEF InOrder, Fits
  <1>5. ASSUME NEW n, Leads(h, s, n)
        PROVE  Fits(n)'
    <2>1. n.live \cup n.open \cup n.clean \subseteq Pointers
      BY <1>5, LocalsArePointers DEF Leads, InOrder
    <2>2. \A p \in n.live : ptr'[p] = "live"
      BY <1>1, <1>5, <2>1 DEF Leads, InOrder, Fits
    <2>3. ASSUME NEW p \in Locals, ptr'[p] = "live" PROVE p \in n.live \cup n.open
      BY <1>1, <1>5, <2>3, LocalsArePointers DEF Leads, Fits
    <2>4. \A p \in n.open \cup n.clean : ptr'[p] # "freed"
      BY <1>1, <1>5, <2>1 DEF Leads, Fits
    <2> QED
      BY <2>2, <2>3, <2>4 DEF Fits
  <1> QED
    BY <1>1, <1>2, <1>3, <1>4, <1>5

\* Releasing what may be released.
LEMMA ReleaseFrees ==
  ASSUME ptr \in [Pointers -> States], ~fault, NEW ps \in SUBSET Pointers, ~Misused(ps),
         Release(ps)
  PROVE  /\ ptr' \in [Pointers -> States] /\ ~fault'
         /\ \A p \in Pointers : ptr'[p] = IF p \in ps /\ ptr[p] = "live" THEN "freed" ELSE ptr[p]
  BY DEF Release, Do, Drop, Step, States, Never

\* A step that fails releases all that the code holds, and what the caller adds.
LEMMA FailureFrees ==
  ASSUME ptr \in [Pointers -> States], ~fault,
         NEW h, NEW s, Fits(h), InOrder(h, s), s.fail # {},
         NEW ps \in SUBSET (Pointers \ Locals), \A p \in ps : ptr[p] = "live",
         Release(s.undo \cup ps)
  PROVE  /\ ptr' \in [Pointers -> States] /\ ~fault' /\ OnlyIn(Locals \cup ps)
         /\ \A p \in Locals \cup ps : ptr'[p] # "live"
  <1>1. s.undo \cup ps \in SUBSET Pointers /\ ~Misused(s.undo \cup ps)
    BY LocalsArePointers DEF Misused, InOrder, Droppable, Fits
  <1>2. \A p \in Locals : ptr[p] = "live" => p \in s.undo
    BY DEF InOrder, Fits
  <1> QED
    BY <1>1, <1>2, ReleaseFrees, LocalsArePointers DEF OnlyIn, InOrder

\* A table without blocks.
LEMMA EmptyTable == DOMAIN <<>> = {} /\ <<>> \in [DOMAIN <<>> -> {"null", "live"}]
  <1>1. DOMAIN <<>> = {}
    OBVIOUS
  <1>2. <<>> = [i \in {} |-> "null"]
    OBVIOUS
  <1> QED
    BY <1>1, <1>2

\* Destroying the table frees its blocks.
LEMMA TableFrees ==
  ASSUME ptr \in [Pointers -> States], ~fault, NEW ps \in SUBSET (Pointers \ {"table"}),
         ~Misused(ps), slots \in [DOMAIN slots -> {"null", "live"}],
         ptr["table"] # "live" => \A i \in DOMAIN slots : slots[i] # "live",
         DestroyTable(ps)
  PROVE  /\ ptr' \in [Pointers -> States] /\ ~fault' /\ OnlyIn(ps \cup {"table"})
         /\ ptr'["table"] = "null" /\ \A p \in ps : ptr'[p] # "live"
         /\ slots' \in [DOMAIN slots' -> {"null", "live"}]
         /\ \A i \in DOMAIN slots' : slots'[i] # "live"
  <1>1. "table" \in Pointers
    BY DEF Pointers
  <1>2. ~\E i \in DOMAIN slots : slots[i] \in {"freed", "chained"}
    OBVIOUS
  <1>3. slots' = <<>> \/ (slots' = slots /\ ptr["table"] # "live")
    BY DEF DestroyTable
  <1>4. /\ slots' \in [DOMAIN slots' -> {"null", "live"}]
        /\ \A i \in DOMAIN slots' : slots'[i] # "live"
    BY <1>3, EmptyTable
  <1>5. ptr' \in [Pointers -> States] /\ OnlyIn(ps \cup {"table"})
    BY DEF DestroyTable, OnlyIn, States
  <1>6. ptr'["table"] = "null" /\ \A p \in ps : ptr'[p] # "live"
    BY <1>1 DEF DestroyTable
  <1> QED
    BY <1>2, <1>4, <1>5, <1>6 DEF DestroyTable

-----------------------------------------------------------------------------
(* The invariant in the phases that hold the chain and the iterator only.  *)

Quiet == {"count", "convert", "order", "payload", "first", "delete", "table"}

\* Nothing of a builder, a converter or a table is held.
OnlyOuter ==
  /\ \A p \in Locals \cup {"table", "element"} : ptr[p] # "live"
  /\ \A i \in DOMAIN slots : slots[i] # "live"

\* All pointers by name.
LEMMA PointerNames ==
  Pointers = Locals \cup {"path", "chain", "iterator", "table", "element"}
  BY DEF Pointers

\* Outside the table and the converters, only the outer pointers are held.
LEMMA QuietHolds ==
  ASSUME MemoryInv, phase \in Quiet \cup {"write"} \cup DOMAIN Outer
  PROVE  OnlyOuter
  BY DEF MemoryInv, TableHeld, LocalsHeld, OnlyOuter, Quiet, TablePhases, InElement, Outer

\* What such a phase needs.
LEMMA QuietInv ==
  ASSUME ~fault, MemoryTypeOK, OuterHeld, OnlyOuter,
         phase \notin TablePhases \cup {"converting"}
  PROVE  MemoryInv
  BY DEF MemoryInv, TableHeld, LocalsHeld, OnlyOuter, TablePhases, InElement

\* The same of the next state.
LEMMA PrimedQuietInv ==
  ASSUME ~fault', MemoryTypeOK', OuterHeld', OnlyOuter',
         phase' \notin TablePhases \cup {"converting"}
  PROVE  MemoryInv'
  BY DEF MemoryInv, TableHeld, LocalsHeld, OnlyOuter, TablePhases, InElement

\* A call is over: nothing is live.
LEMMA ReturnHolds ==
  ASSUME MemoryInv, ~fault', ptr' \in [Pointers -> States],
         slots' \in [DOMAIN slots' -> {"null", "live"}],
         \A p \in Pointers : ptr'[p] # "live",
         \A i \in DOMAIN slots' : slots'[i] # "live",
         NEW result, Return(result)
  PROVE  MemoryInv'
  <1>1. phase' = "idle" /\ call' = "none" /\ pass' = pass /\ cursor' = cursor
    BY DEF Return, place
  <1>2. MemoryTypeOK'
    BY <1>1 DEF MemoryInv, MemoryTypeOK, ReadPhases, States, Outer
  <1>3. OuterHeld' /\ OnlyOuter'
    BY <1>1, PointerNames DEF OuterHeld, OnlyOuter, Outer
  <1> QED
    BY <1>1, <1>2, <1>3, PrimedQuietInv DEF TablePhases, InElement

\* The chain and the iterator are released and the call returns.
LEMMA EndHolds ==
  ASSUME MemoryInv, OnlyOuter, phase \in Quiet \cup {"converting", "write"},
         Release({"iterator", "chain"}), slots' = slots, NEW result, Return(result)
  PROVE  MemoryInv'
  <1>1. /\ ptr["chain"] = "live" /\ ptr["iterator"] = "live" /\ ptr["path"] # "live"
        /\ ptr \in [Pointers -> States] /\ ~fault
    BY DEF MemoryInv, OuterHeld, MemoryTypeOK, Quiet, Outer, States
  <1>2. ~Misused({"iterator", "chain"}) /\ {"iterator", "chain"} \subseteq Pointers
    BY <1>1, PointerNames DEF Misused
  <1>3. /\ ptr' \in [Pointers -> States] /\ ~fault'
        /\ \A p \in Pointers :
             ptr'[p] = IF p \in {"iterator", "chain"} /\ ptr[p] = "live" THEN "freed" ELSE ptr[p]
    BY <1>1, <1>2, ReleaseFrees
  <1>4. \A p \in Pointers : ptr'[p] # "live"
    BY <1>1, <1>3, PointerNames DEF OnlyOuter
  <1> QED
    BY <1>3, <1>4, ReturnHolds DEF OnlyOuter, MemoryInv, MemoryTypeOK

\* A failure of a call that has built no table.
LEMMA GiveUpHolds ==
  ASSUME MemoryInv, OnlyOuter, phase \in Quiet \cup {"converting"}, GiveUp
  PROVE  MemoryInv'
  BY EndHolds DEF GiveUp

\* From one such phase to another with the pointers as they are.
LEMMA QuietMove ==
  ASSUME MemoryInv, phase \in Quiet, phase' \in Quiet, UNCHANGED <<call, ptr, slots, fault>>,
         pass' \in DOMAIN Passes, phase' \notin ReadPhases => cursor' = cursor /\ phase \notin ReadPhases
  PROVE  MemoryInv'
  <1>1. OnlyOuter'
    BY QuietHolds DEF OnlyOuter
  <1>2. OuterHeld'
    BY DEF MemoryInv, OuterHeld, Quiet, Outer
  <1>3. MemoryTypeOK'
    BY DEF MemoryInv, MemoryTypeOK, ReadPhases, Quiet, LaterPhases, Outer
  <1> QED
    BY <1>1, <1>2, <1>3, PrimedQuietInv DEF MemoryInv, Quiet, TablePhases, InElement

-----------------------------------------------------------------------------
(* One lemma per action: the calls and their common beginning.             *)

\* Nothing is held before the first call.
LEMMA InitHolds == Init => MemoryInv
  <1> SUFFICES ASSUME Init PROVE MemoryInv
    OBVIOUS
  <1>1. \A p \in Pointers : ptr[p] = "null"
    BY DEF Init, NullPointers
  <1>2. MemoryTypeOK
    BY EmptyTable DEF Init, MemoryTypeOK, ReadPhases, NullPointers, Outer, Passes
  <1>3. OuterHeld /\ OnlyOuter
    BY <1>1, EmptyTable, PointerNames DEF Init, OuterHeld, OnlyOuter, Outer
  <1> QED
    BY <1>2, <1>3, QuietInv DEF Init, TablePhases, InElement

\* A call begins with nothing.
LEMMA BeginHolds ==
  ASSUME MemoryInv, NEW kind \in {"read", "write"}, Begin(kind)
  PROVE  MemoryInv'
  <1>1. \A p \in Pointers : ptr'[p] = "null"
    BY DEF Begin, NullPointers
  <1>2. MemoryTypeOK'
    BY EmptyTable DEF Begin, MemoryTypeOK, ReadPhases, NullPointers, Outer, Passes
  <1>3. OuterHeld' /\ OnlyOuter'
    BY <1>1, EmptyTable, PointerNames DEF Begin, OuterHeld, OnlyOuter, Outer
  <1> QED
    BY <1>2, <1>3, PrimedQuietInv DEF Begin, MemoryInv, TablePhases, InElement

\* A write, its rewrite and an edit begin so.
LEMMA WritesBegin ==
  ASSUME Replace \/ Edit
  PROVE  Begin("write")
  BY DEF Replace, Edit, BeginWrite

\* Each step of the beginning takes what it is called, but reading the chain
\* drops the path.
LEMMA SetupTakes ==
  ASSUME NEW k \in {"path", "chain", "read", "iterator"}
  PROVE  /\ Setup[k].maybe = {}
         /\ Setup[k].take = IF k = "read" THEN {} ELSE {k}
         /\ Setup[k].drop = IF k = "read" THEN {"path"} ELSE {}
  <1>1. /\ Setup["path"] = Get("path", {}, Either)
        /\ Setup["chain"] = Get("chain", {"path"}, Silent)
        /\ Setup["read"] = Drop({"path"}, {"path", "chain"}, Silent)
        /\ Setup["iterator"] = Get("iterator", {"chain"}, Silent)
    BY DEF Setup
  <1> QED
    BY <1>1, SMTT(30) DEF Get, Drop, Step

\* The beginning of a call: path, chain and iterator, one of which may fail.
LEMMA SetupHolds ==
  ASSUME MemoryInv, SetupStep
  PROVE  MemoryInv'
  <1>1. phase \in {"path", "chain", "read", "iterator"}
    BY DEF SetupStep, Setup
  <1>2. /\ ptr \in [Pointers -> States] /\ ~fault /\ OnlyOuter
        /\ slots \in [DOMAIN slots -> {"null", "live"}]
    BY <1>1, QuietHolds DEF MemoryInv, MemoryTypeOK, ReadPhases, States, Outer
  <1>3. \A p \in {"path", "chain", "iterator"} : ptr[p] = "live" <=> p \in Outer[phase]
    BY <1>1 DEF MemoryInv, OuterHeld, Outer
  <1>4. CASE Do(Setup[phase]) /\ phase' = AfterSetup[phase]
             /\ UNCHANGED <<call, pass, cursor, slots>>
    <2>1. phase' \in {"chain", "read", "iterator", "count", "first"}
      BY <1>1, <1>4 DEF AfterSetup
    <2>2. PICK got \in SUBSET Setup[phase].maybe :
            /\ ptr' = [p \in Pointers |->
                         IF p \in Setup[phase].take \cup got THEN "live"
                         ELSE IF p \in Setup[phase].maybe THEN "null"
                         ELSE IF p \in Setup[phase].drop /\ ptr[p] = "live" THEN "freed"
                         ELSE ptr[p]]
            /\ fault' = (fault \/ Misused(Setup[phase].drop)
                           \/ \E p \in Setup[phase].take \cup Setup[phase].maybe : ptr[p] = "live")
      BY <1>4 DEF Do
    <2>3. /\ Setup[phase].maybe = {}
          /\ Setup[phase].take = IF phase = "read" THEN {} ELSE {phase}
          /\ Setup[phase].drop = IF phase = "read" THEN {"path"} ELSE {}
      BY <1>1, SetupTakes
    <2>4. ~fault'
      <3>1. CASE phase = "read"
        BY <1>2, <1>3, <2>2, <2>3, <3>1 DEF Misused, Outer
      <3>2. CASE phase # "read"
        <4>1. phase \notin Outer[phase]
          BY <1>1, <3>2 DEF Outer
        <4>2. ptr[phase] # "live"
          BY <1>1, <1>3, <3>2, <4>1
        <4>3. ~Misused(Setup[phase].drop)
          BY <2>3, <3>2 DEF Misused
        <4> QED
          BY <1>2, <2>2, <2>3, <3>2, <4>2, <4>3
      <3> QED
        BY <3>1, <3>2
    <2>5. \A p \in Pointers :
            ptr'[p] = IF p = phase /\ phase # "read" THEN "live"
                      ELSE IF phase = "read" /\ p = "path" THEN "freed" ELSE ptr[p]
      BY <1>1, <1>3, <2>2, <2>3, PointerNames DEF Outer
    <2>6. ptr' \in [Pointers -> States]
      BY <1>2, <2>2 DEF States
    <2>7. \A p \in {"path", "chain", "iterator"} :
            ptr'[p] = "live" <=> p \in (Outer[phase] \ (IF phase = "read" THEN {"path"} ELSE {}))
                                        \cup (IF phase = "read" THEN {} ELSE {phase})
      BY <1>1, <1>3, <2>5, PointerNames
    <2>8. OuterHeld'
      <3>1. CASE phase = "path"
        BY <1>4, <2>7, <3>1 DEF OuterHeld, Outer, AfterSetup
      <3>2. CASE phase = "chain"
        BY <1>4, <2>7, <3>2 DEF OuterHeld, Outer, AfterSetup
      <3>3. CASE phase = "read"
        BY <1>4, <2>7, <3>3 DEF OuterHeld, Outer, AfterSetup
      <3>4. CASE phase = "iterator"
        BY <1>4, <2>7, <3>4 DEF OuterHeld, Outer, AfterSetup
      <3> QED
        BY <1>1, <3>1, <3>2, <3>3, <3>4
    <2>9. OnlyOuter'
      <3>1. \A p \in Locals \cup {"table", "element"} : p \in Pointers /\ p \notin {"path", phase}
        BY <1>1, PointerNames DEF Locals
      <3>2. \A p \in Locals \cup {"table", "element"} : ptr'[p] = ptr[p]
        BY <2>5, <3>1
      <3> QED
        BY <1>2, <1>4, <3>2 DEF OnlyOuter
    <2>10. MemoryTypeOK'
      BY <1>1, <1>2, <1>4, <2>1, <2>6 DEF MemoryInv, MemoryTypeOK, ReadPhases, States, Outer, LaterPhases
    <2> QED
      BY <2>1, <2>4, <2>8, <2>9, <2>10, PrimedQuietInv DEF TablePhases, InElement
  <1>5. CASE Release(Setup[phase].undo) /\ Return("threw") /\ UNCHANGED slots
    <2>1. Setup[phase].undo = Outer[phase]
      BY <1>1 DEF Setup, Outer, Get, Drop, Step
    <2>2. Outer[phase] \in SUBSET Pointers /\ ~Misused(Outer[phase])
      BY <1>1, <1>3, PointerNames DEF Outer, Misused
    <2>3. /\ ptr' \in [Pointers -> States] /\ ~fault'
          /\ \A p \in Pointers :
               ptr'[p] = IF p \in Outer[phase] /\ ptr[p] = "live" THEN "freed" ELSE ptr[p]
      BY <1>2, <1>5, <2>1, <2>2, ReleaseFrees
    <2>4. \A p \in Pointers : ptr'[p] # "live"
      BY <1>2, <1>3, <2>3, PointerNames DEF OnlyOuter
    <2> QED
      BY <1>2, <1>5, <2>3, <2>4, ReturnHolds DEF OnlyOuter
  <1> QED
    BY <1>4, <1>5 DEF SetupStep, place

-----------------------------------------------------------------------------
(* One lemma per action: reading.                                          *)

\* The running converter's table.
LEMMA ConverterFits ==
  ASSUME MemoryInv, phase = "converting"
  PROVE  /\ Sound(Converter, ConvertRows, {}) /\ pc \in DOMAIN ConvertRows
         /\ Fits(ConvertRows[pc])
         /\ ptr \in [Pointers -> States] /\ ~fault
         /\ ptr["chain"] = "live" /\ ptr["iterator"] = "live" /\ ptr["path"] # "live"
         /\ ptr["table"] # "live" /\ ptr["element"] # "live"
         /\ \A i \in DOMAIN slots : slots[i] # "live"
  <1>1. Sound(Converter, ConvertRows, {})
    BY ConvertersSound DEF MemoryInv, MemoryTypeOK, ReadPhases, Converter, ConvertRows
  <1> QED
    BY <1>1 DEF MemoryInv, MemoryTypeOK, ReadPhases, LocalsHeld, OuterHeld, TableHeld, TablePhases, InElement,
                Outer, States

\* What a table that fits its code says of one step.
LEMMA SoundStep ==
  ASSUME NEW code, NEW rows, NEW result, Sound(code, rows, result),
         NEW i \in DOMAIN rows, i <= Len(code.steps)
  PROVE  /\ InOrder(rows[i], code.steps[i])
         /\ \A j \in After(code, i) : j \in DOMAIN rows /\ Leads(rows[i], code.steps[i], rows[j])
  BY DEF Sound

\* And of its last row: only the result is held.
LEMMA SoundEnd ==
  ASSUME NEW code, NEW rows, NEW result, Sound(code, rows, result),
         NEW i \in DOMAIN rows, i > Len(code.steps)
  PROVE  rows[i].live = result /\ rows[i].open = {}
  BY DEF Sound

\* And of its first: nothing is.
LEMMA SoundStart ==
  ASSUME NEW code, NEW rows, NEW result, Sound(code, rows, result)
  PROVE  /\ 1 \in DOMAIN rows /\ 1 <= Len(code.steps) /\ DOMAIN rows \subseteq Nat \ {0}
         /\ rows[1].live = {} /\ rows[1].open = {} /\ rows[1].clean \subseteq Locals
  BY DEF Sound, InOrder

\* No converter takes a payload.
LEMMA ConvertersStart ==
  ASSUME NEW n \in DOMAIN Passes
  PROVE  ConverterRows[Passes[n]][1].clean = {}
  <1>1. Passes[n] \in {"streaminfo", "vorbis", "picture", "application", "seektable", "cuesheet",
                       "padding", "unknown"}
    BY DEF Passes
  <1>2. \A rows \in {FramedRows, CommentRows, NewPictureRows, NewSeekTableRows, NewCueSheetRows} :
          rows[1].clean = {}
    BY DEF FramedRows, CommentRows, NewPictureRows, NewSeekTableRows, NewCueSheetRows, Live, Row
  <1>3. ConverterRows[Passes[n]] \in
          {FramedRows, CommentRows, NewPictureRows, NewSeekTableRows, NewCueSheetRows}
    BY <1>1 DEF ConverterRows
  <1> QED
    BY <1>2, <1>3

\* Counting the blocks of a read.
LEMMA CountHolds ==
  ASSUME MemoryInv, CountBlocks
  PROVE  MemoryInv'
  <1>1. CASE GiveUp
    BY <1>1, QuietHolds, GiveUpHolds DEF CountBlocks, Quiet
  <1>2. CASE phase' = "convert" /\ UNCHANGED <<call, place, memory, data, outcome>>
    BY <1>2, QuietMove DEF CountBlocks, Quiet, place, memory, ReadPhases, MemoryInv, MemoryTypeOK
  <1> QED
    BY <1>1, <1>2 DEF CountBlocks

\* The next block of a pass: its converter starts, or the pass ends.
LEMMA NextBlockHolds ==
  ASSUME MemoryInv, NextBlock
  PROVE  MemoryInv'
  <1> DEFINE matches == {i \in cursor..Len(chain) : chain[i].kind = Passes[pass]}
  <1>1. phase = "convert" /\ OnlyOuter /\ pass \in DOMAIN Passes
    BY QuietHolds DEF NextBlock, MemoryInv, MemoryTypeOK, Quiet
  <1>2. CASE GiveUp
    BY <1>1, <1>2, GiveUpHolds DEF Quiet
  <1>3. CASE /\ matches # {} /\ cursor' = CHOOSE i \in matches : \A j \in matches : i <= j
             /\ phase' = "converting" /\ pc' = 1
             /\ UNCHANGED <<call, pass, memory, data, outcome>>
    <2>1. phase' \in ReadPhases
      BY <1>3 DEF ReadPhases
    <2>2. Sound(Converters[Passes[pass]], ConverterRows[Passes[pass]], {})
      BY <1>1, ConvertersSound
    <2>3. ConvertRows' = ConverterRows[Passes[pass]]
      BY <1>3 DEF ConvertRows
    <2>4. pc' \in DOMAIN ConvertRows' /\ Fits(ConvertRows[pc])'
      <3> DEFINE row == ConverterRows[Passes[pass]][1]
      <3>1. 1 \in DOMAIN ConverterRows[Passes[pass]] /\ row.live = {} /\ row.open = {}
        BY <2>2, SoundStart
      <3>2. row.clean = {}
        BY <1>1, ConvertersStart
      <3>3. ConvertRows'[pc'] = row
        BY <1>3, <2>3
      <3> QED
        BY <1>1, <1>3, <2>3, <3>1, <3>2, <3>3 DEF Fits, OnlyOuter, memory
    <2>5. MemoryTypeOK'
      BY <1>1, <1>3, <2>1 DEF MemoryInv, MemoryTypeOK, ReadPhases, memory, LaterPhases, Outer
    <2>6. OuterHeld' /\ TableHeld' /\ LocalsHeld'
      BY <1>1, <1>3, <2>4, PointerNames DEF MemoryInv, OuterHeld, TableHeld, LocalsHeld, OnlyOuter, memory, Outer,
           TablePhases, InElement
    <2> QED
      BY <1>3, <2>5, <2>6 DEF MemoryInv, memory
  <1>4. CASE /\ pass < Len(Passes) /\ pass' = pass + 1 /\ cursor' = 1
             /\ UNCHANGED <<call, phase, pc, memory, data, outcome>>
    <2>1. pass' \in DOMAIN Passes
      BY <1>1, <1>4 DEF Passes
    <2> QED
      BY <1>1, <1>4, <2>1, QuietMove DEF Quiet, memory, ReadPhases
  <1>5. CASE phase' = "order" /\ UNCHANGED <<call, place, memory, data, outcome>>
    BY <1>1, <1>5, QuietMove DEF Quiet, memory, place, ReadPhases
  <1> QED
    BY <1>2, <1>3, <1>4, <1>5 DEF NextBlock

\* What a converting step leaves alone, and what it must establish.
LEMMA ConvertingInv ==
  ASSUME MemoryInv, phase = "converting", ptr' \in [Pointers -> States], ~fault', OnlyIn(Locals),
         UNCHANGED <<call, phase, pass, slots>>,
         pc' \in DOMAIN ConvertRows, Fits(ConvertRows[pc])'
  PROVE  MemoryInv'
  <1>1. \A p \in {"path", "chain", "iterator", "table", "element"} : ptr'[p] = ptr[p]
    BY PointerNames DEF OnlyIn, Locals
  <1>2. ConvertRows' = ConvertRows
    BY DEF ConvertRows
  <1>3. MemoryTypeOK'
    BY DEF MemoryInv, MemoryTypeOK, ReadPhases, States
  <1>4. OuterHeld' /\ TableHeld'
    BY <1>1 DEF MemoryInv, OuterHeld, TableHeld, TablePhases, InElement
  <1>5. LocalsHeld'
    BY <1>2 DEF LocalsHeld
  <1> QED
    BY <1>3, <1>4, <1>5 DEF MemoryInv

\* A step of a converter that succeeds.
LEMMA ConverterStepHolds ==
  ASSUME MemoryInv, ConverterStep
  PROVE  MemoryInv'
  <1> DEFINE h == ConvertRows[pc]  step == Converter.steps[pc]
  <1>1. /\ phase = "converting" /\ pc <= Len(Converter.steps) /\ Do(step)
        /\ pc' \in After(Converter, pc) /\ UNCHANGED <<call, phase, pass, slots>>
    BY DEF ConverterStep
  <1>2. /\ Sound(Converter, ConvertRows, {}) /\ pc \in DOMAIN ConvertRows /\ Fits(h)
        /\ ptr \in [Pointers -> States] /\ ~fault
    BY <1>1, ConverterFits
  <1>3. InOrder(h, step) /\ pc' \in DOMAIN ConvertRows /\ Leads(h, step, ConvertRows[pc'])
    BY <1>1, <1>2, SoundStep
  <1>4. /\ ptr' \in [Pointers -> States] /\ ~fault' /\ OnlyIn(Locals)
        /\ \A n : Leads(h, step, n) => Fits(n)'
    BY <1>1, <1>2, <1>3, StepKeeps
  <1>5. PICK n : n = ConvertRows[pc']
    OBVIOUS
  <1>6. Fits(n)' /\ n = ConvertRows'[pc']
    BY <1>1, <1>3, <1>4, <1>5 DEF ConvertRows
  <1>7. Fits(ConvertRows[pc])'
    BY <1>6 DEF Fits
  <1> QED
    BY <1>1, <1>3, <1>4, <1>7, ConvertingInv

\* A step of a converter that fails ends the read.
LEMMA ConverterFailsHolds ==
  ASSUME MemoryInv, ConverterFails
  PROVE  MemoryInv'
  <1> DEFINE h == ConvertRows[pc]  step == Converter.steps[pc]  ps == {"iterator", "chain"}
  <1>1. /\ phase = "converting" /\ pc <= Len(Converter.steps) /\ step.fail # {}
        /\ Release(step.undo \cup ps) /\ Return("threw") /\ slots' = slots
    BY DEF ConverterFails
  <1>2. /\ Sound(Converter, ConvertRows, {}) /\ pc \in DOMAIN ConvertRows /\ Fits(h)
        /\ ptr \in [Pointers -> States] /\ ~fault /\ \A p \in ps : ptr[p] = "live"
        /\ ptr["path"] # "live" /\ ptr["table"] # "live" /\ ptr["element"] # "live"
        /\ \A i \in DOMAIN slots : slots[i] # "live"
    BY <1>1, ConverterFits
  <1>3. InOrder(h, step)
    BY <1>1, <1>2, SoundStep
  <1>4. ps \in SUBSET (Pointers \ Locals)
    BY PointerNames DEF Locals
  <1>5. /\ ptr' \in [Pointers -> States] /\ ~fault' /\ OnlyIn(Locals \cup ps)
        /\ \A p \in Locals \cup ps : ptr'[p] # "live"
    BY <1>1, <1>2, <1>3, <1>4, FailureFrees
  <1>6. \A p \in Pointers : ptr'[p] # "live"
    BY <1>2, <1>5, PointerNames DEF OnlyIn
  <1> QED
    BY <1>1, <1>2, <1>5, <1>6, ReturnHolds DEF MemoryInv, MemoryTypeOK

\* A converter ends with nothing of its own.
LEMMA ConvertedHolds ==
  ASSUME MemoryInv, Converted
  PROVE  MemoryInv'
  <1>1. /\ phase = "converting" /\ pc > Len(Converter.steps)
    BY DEF Converted
  <1>2. /\ Sound(Converter, ConvertRows, {}) /\ pc \in DOMAIN ConvertRows
        /\ Fits(ConvertRows[pc]) /\ ptr["table"] # "live" /\ ptr["element"] # "live"
        /\ \A i \in DOMAIN slots : slots[i] # "live"
    BY <1>1, ConverterFits
  <1>3. OnlyOuter
    BY <1>1, <1>2, SoundEnd DEF Fits, OnlyOuter
  <1>4. CASE GiveUp
    BY <1>1, <1>3, <1>4, GiveUpHolds
  <1>5. CASE /\ phase' = "convert" /\ UNCHANGED <<call, pass, slots, fault>>
             /\ ptr' = [p \in Pointers |-> IF p \in Locals /\ ptr[p] = "freed" THEN "null" ELSE ptr[p]]
    <2>1. ptr \in [Pointers -> States]
      BY DEF MemoryInv, MemoryTypeOK, States
    <2>2. ptr' \in [Pointers -> States] /\ \A p \in Pointers : ptr'[p] = "live" <=> ptr[p] = "live"
      BY <1>5, <2>1 DEF States
    <2>3. MemoryTypeOK'
      BY <1>1, <1>5, <2>2 DEF MemoryInv, MemoryTypeOK, ReadPhases, LaterPhases, Outer, States
    <2>4. OuterHeld' /\ OnlyOuter'
      BY <1>1, <1>3, <1>5, <2>2, PointerNames DEF MemoryInv, OuterHeld, OnlyOuter, Outer
    <2> QED
      BY <1>5, <2>3, <2>4, PrimedQuietInv DEF MemoryInv, TablePhases, InElement
  <1> QED
    BY <1>1, <1>4, <1>5 DEF Converted

\* Making the table of the order.
LEMMA OrderHolds ==
  ASSUME MemoryInv, OrderTable
  PROVE  MemoryInv'
  <1>1. phase = "order" /\ OnlyOuter
    BY QuietHolds DEF OrderTable, Quiet
  <1>2. CASE GiveUp
    BY <1>1, <1>2, GiveUpHolds DEF Quiet
  <1>3. CASE phase' = "payload" /\ UNCHANGED <<call, place, memory>>
    BY <1>1, <1>3, QuietMove DEF Quiet, place, memory, ReadPhases, MemoryInv, MemoryTypeOK
  <1> QED
    BY <1>2, <1>3 DEF OrderTable

\* Making the payload, the last step of a read.
LEMMA PayloadHolds ==
  ASSUME MemoryInv, ReturnPayload
  PROVE  MemoryInv'
  <1>1. phase = "payload" /\ OnlyOuter
    BY QuietHolds DEF ReturnPayload, Quiet
  <1>2. CASE GiveUp
    BY <1>1, <1>2, GiveUpHolds DEF Quiet
  <1>3. CASE Release({"iterator", "chain"}) /\ Return("returned") /\ slots' = slots
    BY <1>1, <1>3, EndHolds DEF Quiet
  <1> QED
    BY <1>2, <1>3 DEF ReturnPayload

-----------------------------------------------------------------------------
(* One lemma per action: writing.                                          *)

\* Going to the first block of the chain.
LEMMA FirstHolds ==
  ASSUME MemoryInv, FirstBlock
  PROVE  MemoryInv'
  <1>1. CASE GiveUp
    BY <1>1, QuietHolds, GiveUpHolds DEF FirstBlock, Quiet
  <1>2. CASE phase' = "delete" /\ UNCHANGED <<call, place, memory>>
    BY <1>2, QuietMove DEF FirstBlock, Quiet, place, memory, ReadPhases, MemoryInv, MemoryTypeOK
  <1> QED
    BY <1>1, <1>2 DEF FirstBlock

\* Deleting a block of the chain.
LEMMA DeleteHolds ==
  ASSUME MemoryInv, DeleteBlock
  PROVE  MemoryInv'
  <1>1. CASE GiveUp
    BY <1>1, QuietHolds, GiveUpHolds DEF DeleteBlock, Quiet
  <1>2. CASE phase' \in {"delete", "table"} /\ UNCHANGED <<call, place, memory>>
    BY <1>2, QuietMove DEF DeleteBlock, Quiet, place, memory, ReadPhases, MemoryInv, MemoryTypeOK
  <1> QED
    BY <1>1, <1>2 DEF DeleteBlock

\* What a step between two phases that may have a table must establish.
LEMMA TableInv ==
  ASSUME MemoryInv, phase' \in TablePhases, phase \in TablePhases \cup {"table"},
         ~fault', ptr' \in [Pointers -> States],
         \A p \in {"path", "chain", "iterator"} : ptr'[p] = ptr[p],
         UNCHANGED <<call, pass, request>>, cursor' \in Nat \ {0},
         slots' \in [DOMAIN slots' -> {"null", "live"}],
         ptr'["table"] = "live" \/ Wanted = <<>>,
         phase' \in InElement => ptr'["table"] = "live",
         ptr'["table"] # "live" => \A i \in DOMAIN slots' : slots'[i] # "live",
         ptr'["element"] = "live" <=> phase' \in InElement /\ HasFrame',
         LocalsHeld'
  PROVE  MemoryInv'
  <1>1. Wanted' = Wanted
    BY DEF Wanted
  <1>2. phase \notin DOMAIN Outer /\ phase' \notin DOMAIN Outer
    BY DEF TablePhases, InElement, Outer
  <1>3. MemoryTypeOK'
    BY <1>2 DEF MemoryInv, MemoryTypeOK, LaterPhases, States, Outer
  <1>4. OuterHeld'
    BY <1>2 DEF MemoryInv, OuterHeld
  <1>5. TableHeld'
    BY <1>1 DEF TableHeld
  <1> QED
    BY <1>3, <1>4, <1>5 DEF MemoryInv

\* What holds in these phases.
LEMMA TableFacts ==
  ASSUME MemoryInv, phase \in TablePhases
  PROVE  /\ ptr \in [Pointers -> States] /\ ~fault
         /\ slots \in [DOMAIN slots -> {"null", "live"}]
         /\ cursor \in Nat \ {0} /\ pass \in DOMAIN Passes
         /\ ptr["chain"] = "live" /\ ptr["iterator"] = "live" /\ ptr["path"] # "live"
         /\ ptr["table"] = "live" \/ Wanted = <<>>
         /\ phase \in InElement => ptr["table"] = "live"
         /\ ptr["table"] # "live" => \A i \in DOMAIN slots : slots[i] # "live"
         /\ ptr["element"] = "live" <=> phase \in InElement /\ HasFrame
         /\ phase # "build" => \A p \in Locals : ptr[p] # "live"
  <1>1. phase \notin DOMAIN Outer \cup ReadPhases
    BY DEF TablePhases, InElement, Outer, ReadPhases
  <1>2. ptr["chain"] = "live" /\ ptr["iterator"] = "live" /\ ptr["path"] # "live"
    BY <1>1 DEF MemoryInv, OuterHeld
  <1>3. phase # "build" => \A p \in Locals : ptr[p] # "live"
    BY DEF MemoryInv, LocalsHeld, TablePhases, InElement
  <1> QED
    BY <1>1, <1>2, <1>3 DEF MemoryInv, MemoryTypeOK, TableHeld, States

\* Allocating the table of new blocks.
LEMMA NewTableHolds ==
  ASSUME MemoryInv, NewTable
  PROVE  MemoryInv'
  <1>1. phase = "table" /\ OnlyOuter /\ ptr \in [Pointers -> States] /\ ~fault /\ cursor \in Nat \ {0}
    BY QuietHolds DEF NewTable, Quiet, MemoryInv, MemoryTypeOK, ReadPhases, States
  <1>2. CASE GiveUp
    BY <1>1, <1>2, GiveUpHolds DEF Quiet
  <1>3. CASE /\ IF Wanted = <<>> THEN UNCHANGED <<ptr, fault>> ELSE Do(Get("table", {}, Silent))
             /\ slots' = [i \in DOMAIN Wanted |-> "null"]
             /\ phase' = "element"
             /\ UNCHANGED <<call, place, pending, data, outcome>>
    <2>1. /\ ptr' \in [Pointers -> States] /\ ~fault'
          /\ \A p \in Pointers \ {"table"} : ptr'[p] = ptr[p]
          /\ ptr'["table"] = "live" \/ Wanted = <<>>
      <3>1. CASE Wanted = <<>>
        BY <1>1, <1>3, <3>1
      <3>2. CASE Wanted # <<>>
        <4>1. Do(Get("table", {}, Silent)) /\ ptr["table"] # "live" /\ "table" \in Pointers
          BY <1>1, <1>3, <3>2, PointerNames DEF OnlyOuter
        <4> QED
          BY <1>1, <4>1 DEF Do, Get, Step, Misused, States
      <3> QED
        BY <3>1, <3>2
    <2>2. \A p \in Locals \cup {"element", "path", "chain", "iterator"} : p \in Pointers \ {"table"}
      BY PointerNames DEF Locals
    <2>3. /\ \A p \in {"path", "chain", "iterator"} : ptr'[p] = ptr[p]
          /\ ptr'["element"] # "live" /\ \A p \in Locals : ptr'[p] # "live"
      BY <1>1, <2>1, <2>2 DEF OnlyOuter
    <2>4. /\ slots' \in [DOMAIN slots' -> {"null", "live"}]
          /\ \A i \in DOMAIN slots' : slots'[i] # "live"
      BY <1>3
    <2>5. phase' \in TablePhases /\ phase' \notin InElement /\ LocalsHeld'
      BY <1>3, <2>3 DEF TablePhases, InElement, LocalsHeld
    <2>6. UNCHANGED <<call, pass, request, cursor>>
      BY <1>3 DEF place, data
    <2> QED
      BY <1>1, <2>1, <2>3, <2>4, <2>5, <2>6, TableInv
  <1> QED
    BY <1>2, <1>3 DEF NewTable

\* Rows of the first step are true when every local is null.
LEMMA FreshFits ==
  ASSUME NEW k, \A p \in Locals : ptr'[p] = "null"
  PROVE  /\ 1 \in DOMAIN RowsOf(k)
         /\ LET h == RowsOf(k)[1] IN
              /\ \A p \in h.live : ptr'[p] = "live"
              /\ \A p \in Locals : ptr'[p] = "live" => p \in h.live \cup h.open
              /\ \A p \in h.open \cup h.clean : ptr'[p] # "freed"
  BY BuildersSound, SoundStart

\* Fetching an element of the request and starting its builder.
LEMMA OpenElementHolds ==
  ASSUME MemoryInv, OpenElement
  PROVE  MemoryInv'
  <1>1. /\ phase = "element" /\ cursor <= Len(Wanted)
        /\ UNCHANGED <<call, cursor, pass, slots, request>>
    BY DEF OpenElement, data
  <1>2. phase \in TablePhases /\ phase \notin InElement
    BY <1>1 DEF TablePhases, InElement
  <1>3. ptr["table"] = "live"
    BY <1>1, <1>2, TableFacts
  <1>4. Wanted' = Wanted /\ HasFrame' = HasFrame /\ BuildRows' = BuildRows
    BY <1>1 DEF Wanted, HasFrame, BuildRows
  <1>5. CASE /\ ptr' = [p \in Pointers |-> IF p = "element" /\ HasFrame THEN "live"
                                           ELSE IF p \in Locals THEN "null" ELSE ptr[p]]
             /\ fault' = (fault \/ \E p \in Locals : ptr[p] = "live")
             /\ phase' = "build" /\ pc' \in {0, 1}
    <2>1. ptr' \in [Pointers -> States] /\ ~fault'
      BY <1>1, <1>2, <1>5, TableFacts DEF States
    <2>2. /\ \A p \in {"path", "chain", "iterator", "table"} : ptr'[p] = ptr[p]
          /\ ptr'["element"] = "live" <=> HasFrame
          /\ \A p \in Locals : ptr'[p] = "null"
      BY <1>2, <1>5, TableFacts, PointerNames DEF Locals
    <2>3. LocalsHeld'
      <3>1. 1 \in DOMAIN BuildRows' /\ Fits(BuildRows[1])'
        BY <2>2, <1>4, FreshFits DEF Fits, BuildRows
      <3> QED
        BY <1>5, <3>1 DEF LocalsHeld
    <2>4. phase' \in InElement /\ phase' \in TablePhases
      BY <1>5 DEF TablePhases, InElement
    <2> QED
      BY <1>1, <1>2, <1>3, <1>4, <2>1, <2>2, <2>3, <2>4, TableFacts, TableInv
  <1>6. CASE phase' = "failed" /\ UNCHANGED <<ptr, fault>>
    <2>1. LocalsHeld'
      BY <1>1, <1>2, <1>6, TableFacts DEF LocalsHeld
    <2>2. phase' \notin InElement /\ phase' \in TablePhases
      BY <1>6 DEF TablePhases, InElement
    <2> QED
      BY <1>1, <1>2, <1>3, <1>6, <2>1, <2>2, TableFacts, TableInv
  <1> QED
    BY <1>5, <1>6 DEF OpenElement

\* No builder begins with a loop or an optional part.
LEMMA FirstSteps ==
  ASSUME NEW k, NEW j \in After(BuilderOf(k), 0)
  PROVE  j = 1
  <1>1. \A code \in {build_vorbis_comment_block, build_picture_block, build_application_block,
                     build_seek_table_block, build_cue_sheet_block, build_padding_block,
                     build_unknown_metadata_block} :
          /\ \A q \in code.loops \cup code.optional : q[1] # 1
          /\ \A q \in code.loops : q[2] # 0
    BY DEF build_vorbis_comment_block, build_picture_block, build_application_block,
           build_seek_table_block, build_cue_sheet_block, build_padding_block,
           build_unknown_metadata_block, Code
  <1> DEFINE kind == IF k \in Kinds THEN k ELSE "unknown"
  <1>2. kind \in {"vorbis", "picture", "application", "seektable", "cuesheet", "padding", "unknown"}
    BY DEF Kinds, Builders
  <1>3. BuilderOf(k) \in {build_vorbis_comment_block, build_picture_block, build_application_block,
                          build_seek_table_block, build_cue_sheet_block, build_padding_block,
                          build_unknown_metadata_block}
    BY <1>2 DEF BuilderOf, Builders
  <1> QED
    BY <1>1, <1>3, AfterCases

\* The row and the step at which the running builder is.
Here == BuildRows[IF pc = 0 THEN 1 ELSE pc]

\* The running builder's table, and its place in it.
LEMMA BuilderFits ==
  ASSUME MemoryInv, phase = "build", pc <= Len(Builder.steps)
  PROVE  /\ Fits(Here) /\ InOrder(Here, CurrentStep)
         /\ \A j \in After(Builder, pc) :
              j \in DOMAIN BuildRows /\ Leads(Here, CurrentStep, BuildRows[j])
  <1>1. /\ Sound(Builder, BuildRows, {"block"})
        /\ pc \in {0} \cup DOMAIN BuildRows /\ Fits(Here)
    BY BuildersSound DEF MemoryInv, LocalsHeld, Builder, BuildRows, Here
  <1>2. CASE pc = 0
    <2>1. Here = BuildRows[1] /\ CurrentStep = Check({}, Thrown)
      BY <1>2 DEF Here, CurrentStep
    <2>2. /\ 1 \in DOMAIN BuildRows /\ Here.live = {} /\ Here.open = {} /\ Here.clean \subseteq Locals
      BY <1>1, <2>1, SoundStart
    <2>3. \A j \in After(Builder, pc) : j = 1
      BY <1>2, FirstSteps DEF Builder
    <2>4. InOrder(Here, CurrentStep) /\ Leads(Here, CurrentStep, Here)
      BY <2>1, <2>2 DEF InOrder, Leads, Check, Step, Droppable
    <2> QED
      BY <1>1, <2>1, <2>2, <2>3, <2>4
  <1>3. CASE pc # 0
    <2>1. Here = BuildRows[pc] /\ CurrentStep = Builder.steps[pc]
      BY <1>3 DEF Here, CurrentStep
    <2> QED
      BY <1>1, <1>3, <2>1, SoundStep
  <1> QED
    BY <1>2, <1>3

\* Locals are no other pointers.
LEMMA OthersKept ==
  ASSUME OnlyIn(Locals)
  PROVE  \A p \in {"path", "chain", "iterator", "table", "element"} : ptr'[p] = ptr[p]
  BY PointerNames DEF OnlyIn, Locals

\* A step of a builder that succeeds.
LEMMA BuilderStepHolds ==
  ASSUME MemoryInv, BuilderStep
  PROVE  MemoryInv'
  <1>1. /\ phase = "build" /\ pc <= Len(Builder.steps) /\ Do(CurrentStep)
        /\ pc' \in After(Builder, pc) /\ UNCHANGED <<call, phase, cursor, pass, slots, request>>
    BY DEF BuilderStep, data
  <1>2. phase \in TablePhases /\ phase \in InElement
    BY <1>1 DEF TablePhases, InElement
  <1>3. /\ Fits(Here) /\ InOrder(Here, CurrentStep)
        /\ pc' \in DOMAIN BuildRows /\ Leads(Here, CurrentStep, BuildRows[pc'])
    BY <1>1, BuilderFits
  <1>4. /\ ptr' \in [Pointers -> States] /\ ~fault' /\ OnlyIn(Locals)
        /\ \A n : Leads(Here, CurrentStep, n) => Fits(n)'
    BY <1>1, <1>2, <1>3, TableFacts, StepKeeps
  <1>5. Wanted' = Wanted /\ HasFrame' = HasFrame /\ BuildRows' = BuildRows
    BY <1>1 DEF Wanted, HasFrame, BuildRows
  <1>6. PICK n : n = BuildRows[pc']
    OBVIOUS
  <1>7. Fits(n)' /\ n = BuildRows'[pc']
    BY <1>3, <1>4, <1>5, <1>6
  <1>8. pc' # 0
    BY <1>3, BuildersSound, SoundStart DEF BuildRows
  <1>9. LocalsHeld'
    <2>1. Fits(BuildRows[IF pc = 0 THEN 1 ELSE pc])'
      BY <1>7, <1>8 DEF Fits
    <2> QED
      BY <1>1, <1>3, <1>5, <2>1 DEF LocalsHeld
  <1>10. \A p \in {"path", "chain", "iterator", "table", "element"} : ptr'[p] = ptr[p]
    BY <1>4, OthersKept
  <1> QED
    BY <1>1, <1>2, <1>4, <1>5, <1>9, <1>10, TableFacts, TableInv

\* A step of a builder that fails leaves the element to be unwound.
LEMMA BuilderFailsHolds ==
  ASSUME MemoryInv, BuilderFails
  PROVE  MemoryInv'
  <1>1. /\ phase = "build" /\ pc <= Len(Builder.steps) /\ CurrentStep.fail # {}
        /\ Release(CurrentStep.undo) /\ phase' = "unwind"
        /\ UNCHANGED <<call, cursor, pass, slots, request>>
    BY DEF BuilderFails, place, data
  <1>2. phase \in TablePhases /\ phase \in InElement /\ phase' \in TablePhases /\ phase' \in InElement
    BY <1>1 DEF TablePhases, InElement
  <1>3. Fits(Here) /\ InOrder(Here, CurrentStep)
    BY <1>1, BuilderFits
  <1>4. CurrentStep.undo \cup {} = CurrentStep.undo
    OBVIOUS
  <1>5. /\ ptr' \in [Pointers -> States] /\ ~fault' /\ OnlyIn(Locals)
        /\ \A p \in Locals : ptr'[p] # "live"
    <2> DEFINE ps == {}
    <2>1. /\ ptr' \in [Pointers -> States] /\ ~fault' /\ OnlyIn(Locals \cup ps)
          /\ \A p \in Locals \cup ps : ptr'[p] # "live"
      <3>1. ps \in SUBSET (Pointers \ Locals) /\ \A p \in ps : ptr[p] = "live"
        OBVIOUS
      <3>2. Release(CurrentStep.undo \cup ps)
        BY <1>1, <1>4
      <3> HIDE DEF ps
      <3> QED
        BY <1>1, <1>2, <1>3, <3>1, <3>2, TableFacts, FailureFrees
    <2> QED
      BY <2>1 DEF OnlyIn
  <1>6. Wanted' = Wanted /\ HasFrame' = HasFrame
    BY <1>1 DEF Wanted, HasFrame
  <1>7. LocalsHeld'
    BY <1>1, <1>5 DEF LocalsHeld
  <1>8. \A p \in {"path", "chain", "iterator", "table", "element"} : ptr'[p] = ptr[p]
    BY <1>5, OthersKept
  <1> QED
    BY <1>1, <1>2, <1>5, <1>6, <1>7, <1>8, TableFacts, TableInv

\* A block that was built goes to its slot of the table.
LEMMA PublishHolds ==
  ASSUME MemoryInv, Publish
  PROVE  MemoryInv'
  <1>1. /\ phase = "build" /\ pc > Len(Builder.steps)
        /\ ptr' = [ptr EXCEPT !["block"] = "null"]
        /\ slots' = [slots EXCEPT ![cursor] = ptr["block"]] /\ phase' = "length"
        /\ UNCHANGED <<call, cursor, pass, fault, request>>
    BY DEF Publish, place, data
  <1>2. phase \in TablePhases /\ phase \in InElement /\ phase' \in TablePhases /\ phase' \in InElement
    BY <1>1 DEF TablePhases, InElement
  <1>3. Sound(Builder, BuildRows, {"block"})
    BY BuildersSound DEF Builder, BuildRows
  <1>4. pc \in DOMAIN BuildRows /\ Fits(BuildRows[pc])
    <2>1. pc # 0
      BY <1>1, <1>3, SoundStart
    <2> QED
      BY <1>1, <2>1 DEF MemoryInv, LocalsHeld
  <1>5. BuildRows[pc].live = {"block"} /\ BuildRows[pc].open = {}
    BY <1>1, <1>3, <1>4, SoundEnd
  <1>6. ptr["block"] = "live" /\ \A p \in Locals \ {"block"} : ptr[p] # "live"
    BY <1>4, <1>5 DEF Fits
  <1>7. /\ ptr' \in [Pointers -> States] /\ \A p \in Locals : ptr'[p] # "live"
        /\ \A p \in {"path", "chain", "iterator", "table", "element"} : ptr'[p] = ptr[p]
    BY <1>1, <1>2, <1>6, TableFacts, PointerNames DEF States, Locals
  <1>8. slots' \in [DOMAIN slots' -> {"null", "live"}]
    BY <1>1, <1>2, <1>6, TableFacts
  <1>9. Wanted' = Wanted /\ HasFrame' = HasFrame
    BY <1>1 DEF Wanted, HasFrame
  <1>10. LocalsHeld'
    BY <1>1, <1>7 DEF LocalsHeld
  <1> QED
    BY <1>1, <1>2, <1>7, <1>8, <1>9, <1>10, TableFacts, TableInv

\* The local frame of the element is popped, if it has one.
LEMMA FramePopped ==
  ASSUME MemoryInv, phase \in InElement, phase # "build",
         IF HasFrame THEN Release({"element"}) ELSE UNCHANGED <<ptr, fault>>
  PROVE  /\ ptr' \in [Pointers -> States] /\ ~fault' /\ ptr'["element"] # "live"
         /\ \A p \in {"path", "chain", "iterator", "table"} : ptr'[p] = ptr[p]
         /\ \A p \in Locals : ptr'[p] # "live"
  <1>1. phase \in TablePhases
    BY DEF TablePhases
  <1>2. CASE HasFrame
    <2>1. {"element"} \in SUBSET Pointers /\ ptr["element"] = "live"
      BY <1>1, <1>2, TableFacts, PointerNames
    <2>2. ~Misused({"element"})
      BY <2>1 DEF Misused
    <2>3. /\ ptr' \in [Pointers -> States] /\ ~fault'
          /\ \A p \in Pointers :
               ptr'[p] = IF p \in {"element"} /\ ptr[p] = "live" THEN "freed" ELSE ptr[p]
      BY <1>1, <1>2, <2>1, <2>2, TableFacts, ReleaseFrees
    <2> QED
      BY <1>1, <2>1, <2>3, TableFacts, PointerNames
  <1>3. CASE ~HasFrame
    BY <1>1, <1>3, TableFacts
  <1> QED
    BY <1>2, <1>3

\* The length of the new block is checked and its element is let go.
LEMMA CheckLengthHolds ==
  ASSUME MemoryInv, CheckLength
  PROVE  MemoryInv'
  <1>1. phase = "length" /\ UNCHANGED <<call, pc, pass, request>>
    BY DEF CheckLength, data
  <1>2. phase \in TablePhases /\ phase \in InElement /\ phase # "build"
    BY <1>1 DEF TablePhases, InElement
  <1>3. CASE /\ IF HasFrame THEN Release({"element"}) ELSE UNCHANGED <<ptr, fault>>
             /\ phase' = "element" /\ cursor' = cursor + 1 /\ slots' = slots
    <2>1. /\ ptr' \in [Pointers -> States] /\ ~fault' /\ ptr'["element"] # "live"
          /\ \A p \in {"path", "chain", "iterator", "table"} : ptr'[p] = ptr[p]
          /\ \A p \in Locals : ptr'[p] # "live"
      BY <1>2, <1>3, FramePopped
    <2>2. phase' \in TablePhases /\ phase' \notin InElement
      BY <1>3 DEF TablePhases, InElement
    <2>3. LocalsHeld'
      BY <1>3, <2>1 DEF LocalsHeld
    <2>4. cursor' \in Nat \ {0}
      BY <1>2, <1>3, TableFacts
    <2> QED
      BY <1>1, <1>2, <1>3, <2>1, <2>2, <2>3, <2>4, TableFacts, TableInv
  <1>4. CASE /\ phase' = "unwind" /\ UNCHANGED <<cursor, ptr, fault>>
             /\ slots' = IF request.order = "ordered" THEN [slots EXCEPT ![cursor] = "null"] ELSE slots
    <2>1. slots' \in [DOMAIN slots' -> {"null", "live"}]
      BY <1>2, <1>4, TableFacts
    <2>2. phase' \in TablePhases /\ phase' \in InElement
      BY <1>4 DEF TablePhases, InElement
    <2>3. HasFrame' = HasFrame
      BY <1>1, <1>4 DEF HasFrame, Wanted
    <2>4. LocalsHeld'
      BY <1>2, <1>4, TableFacts DEF LocalsHeld
    <2> QED
      BY <1>1, <1>2, <1>4, <2>1, <2>2, <2>3, <2>4, TableFacts, TableInv
  <1> QED
    BY <1>3, <1>4 DEF CheckLength

\* After a failure the element is let go.
LEMMA UnwindHolds ==
  ASSUME MemoryInv, Unwind
  PROVE  MemoryInv'
  <1>1. /\ phase = "unwind" /\ phase' = "failed" /\ UNCHANGED <<call, pass, cursor, request, slots>>
        /\ IF HasFrame THEN Release({"element"}) ELSE UNCHANGED <<ptr, fault>>
    BY DEF Unwind, data, place
  <1>2. phase \in TablePhases /\ phase \in InElement /\ phase # "build"
    BY <1>1 DEF TablePhases, InElement
  <1>3. /\ ptr' \in [Pointers -> States] /\ ~fault' /\ ptr'["element"] # "live"
        /\ \A p \in {"path", "chain", "iterator", "table"} : ptr'[p] = ptr[p]
        /\ \A p \in Locals : ptr'[p] # "live"
    BY <1>1, <1>2, FramePopped
  <1>4. phase' \in TablePhases /\ phase' \notin InElement
    BY <1>1 DEF TablePhases, InElement
  <1>5. LocalsHeld'
    BY <1>1, <1>3 DEF LocalsHeld
  <1> QED
    BY <1>1, <1>2, <1>3, <1>4, <1>5, TableFacts, TableInv

\* The table, the iterator and the chain go, and the call returns.
LEMMA AbandonHolds ==
  ASSUME MemoryInv, phase \in {"failed", "insert"}, DestroyTable({"iterator", "chain"}),
         NEW result, Return(result)
  PROVE  MemoryInv'
  <1>1. phase \in TablePhases /\ phase \notin InElement /\ phase # "build"
    BY DEF TablePhases, InElement
  <1>2. ~Misused({"iterator", "chain"}) /\ {"iterator", "chain"} \in SUBSET (Pointers \ {"table"})
    BY <1>1, TableFacts, PointerNames DEF Misused
  <1>3. /\ ptr' \in [Pointers -> States] /\ ~fault'
        /\ OnlyIn({"iterator", "chain"} \cup {"table"})
        /\ ptr'["table"] = "null" /\ \A p \in {"iterator", "chain"} : ptr'[p] # "live"
        /\ slots' \in [DOMAIN slots' -> {"null", "live"}]
        /\ \A i \in DOMAIN slots' : slots'[i] # "live"
    BY <1>1, <1>2, TableFacts, TableFrees
  <1>4. \A p \in Pointers : ptr'[p] # "live"
    BY <1>1, <1>3, TableFacts, PointerNames DEF OnlyIn
  <1> QED
    BY <1>3, <1>4, ReturnHolds

\* The table could not be filled.
LEMMA TableFailsHolds ==
  ASSUME MemoryInv, TableFails
  PROVE  MemoryInv'
  BY AbandonHolds DEF TableFails

\* The table is full.
LEMMA AllBuiltHolds ==
  ASSUME MemoryInv, AllBuilt
  PROVE  MemoryInv'
  <1>1. /\ phase = "element" /\ phase' = "insert" /\ cursor' = 1
        /\ UNCHANGED <<call, pass, request, ptr, slots, fault>>
    BY DEF AllBuilt, memory, data
  <1>2. /\ phase \in TablePhases /\ phase \notin InElement /\ phase # "build"
        /\ phase' \in TablePhases /\ phase' \notin InElement
    BY <1>1 DEF TablePhases, InElement
  <1>3. LocalsHeld'
    BY <1>1, <1>2, TableFacts DEF LocalsHeld
  <1> QED
    BY <1>1, <1>2, <1>3, TableFacts, TableInv

\* A block of the table goes to the chain, which owns it from then on.
LEMMA InsertHolds ==
  ASSUME MemoryInv, InsertBlock
  PROVE  MemoryInv'
  <1>1. phase = "insert"
    BY DEF InsertBlock
  <1>2. CASE /\ slots' = [slots EXCEPT ![cursor] = "null"] /\ cursor' = cursor + 1
             /\ UNCHANGED <<call, phase, pass, ptr, fault, request>>
    <2>1. /\ phase \in TablePhases /\ phase \notin InElement /\ phase # "build"
      BY <1>1 DEF TablePhases, InElement
    <2>2. /\ slots' \in [DOMAIN slots' -> {"null", "live"}]
          /\ \A i \in DOMAIN slots' : slots'[i] = "live" => slots[i] = "live"
          /\ DOMAIN slots' = DOMAIN slots
      BY <1>2, <2>1, TableFacts
    <2>3. LocalsHeld'
      BY <1>1, <1>2, <2>1, TableFacts DEF LocalsHeld
    <2>4. cursor' \in Nat \ {0}
      BY <1>2, <2>1, TableFacts
    <2> QED
      BY <1>2, <2>1, <2>2, <2>3, <2>4, TableFacts, TableInv
  <1>3. CASE DestroyTable({"iterator", "chain"}) /\ Return("threw")
    BY <1>1, <1>3, AbandonHolds
  <1> QED
    BY <1>2, <1>3 DEF InsertBlock

\* All are inserted and the empty table goes.
LEMMA AllInsertedHolds ==
  ASSUME MemoryInv, AllInserted
  PROVE  MemoryInv'
  <1> DEFINE ps == {}
  <1>1. /\ phase = "insert" /\ DestroyTable(ps) /\ phase' = "write"
        /\ UNCHANGED <<call, pass, cursor>>
    BY DEF AllInserted, place
  <1>2. phase \in TablePhases /\ phase \notin InElement /\ phase # "build"
    BY <1>1 DEF TablePhases, InElement
  <1>3. ~Misused(ps) /\ ps \in SUBSET (Pointers \ {"table"})
    BY DEF Misused
  <1>4. /\ ptr' \in [Pointers -> States] /\ ~fault' /\ OnlyIn(ps \cup {"table"})
        /\ ptr'["table"] = "null"
        /\ slots' \in [DOMAIN slots' -> {"null", "live"}]
        /\ \A i \in DOMAIN slots' : slots'[i] # "live"
    <2> HIDE DEF ps
    <2> QED
      BY <1>1, <1>2, <1>3, TableFacts, TableFrees
  <1>5. /\ \A p \in {"path", "chain", "iterator", "element"} : ptr'[p] = ptr[p]
        /\ \A p \in Locals : ptr'[p] = ptr[p]
    BY <1>4, PointerNames DEF OnlyIn, Locals
  <1>6. OnlyOuter'
    BY <1>2, <1>4, <1>5, TableFacts DEF OnlyOuter
  <1>7. MemoryTypeOK'
    BY <1>1, <1>4 DEF MemoryInv, MemoryTypeOK, States, LaterPhases, ReadPhases, Outer
  <1>8. OuterHeld'
    BY <1>1, <1>5 DEF MemoryInv, OuterHeld, Outer
  <1> QED
    BY <1>1, <1>4, <1>6, <1>7, <1>8, PrimedQuietInv DEF TablePhases, InElement

\* Writing the chain, which ends the call.
LEMMA WriteHolds ==
  ASSUME MemoryInv, WriteChain
  PROVE  MemoryInv'
  BY QuietHolds, EndHolds DEF WriteChain

-----------------------------------------------------------------------------
(* The theorems.                                                           *)

\* Every action preserves the invariant.
LEMMA NextHolds ==
  ASSUME MemoryInv, [Next]_vars
  PROVE  MemoryInv'
  <1>1. CASE BeginRead
    BY <1>1, BeginHolds DEF BeginRead
  <1>2. CASE Replace \/ Edit
    BY <1>2, WritesBegin, BeginHolds
  <1>3. CASE Reading
    BY <1>3, CountHolds, NextBlockHolds, ConverterStepHolds, ConverterFailsHolds,
       ConvertedHolds, OrderHolds, PayloadHolds DEF Reading
  <1>4. CASE Writing
    BY <1>4, FirstHolds, DeleteHolds, NewTableHolds, OpenElementHolds, BuilderStepHolds,
       BuilderFailsHolds, PublishHolds, CheckLengthHolds, UnwindHolds, TableFailsHolds,
       AllBuiltHolds, InsertHolds, AllInsertedHolds, WriteHolds DEF Writing
  <1>5. CASE UNCHANGED vars
    BY <1>5 DEF vars, MemoryInv, MemoryTypeOK, OuterHeld, TableHeld, LocalsHeld, Fits, BuildRows,
                ConvertRows, HasFrame, Wanted
  <1> QED
    BY <1>1, <1>2, <1>3, <1>4, <1>5, SetupHolds DEF Next

\* What a call holds at each place of the native code, in its builders and
\* converters too, is what the tables say: an invariant for requests of any length.
THEOREM MemoryInvariantHolds == Spec => []MemoryInv
  <1> QED
    BY InitHolds, NextHolds, PTL DEF Spec

\* Every native object that readMetadata or writeMetadata takes is given back
\* once, on every path and after every failure.
THEOREM NothingIsLostOrFreedTwice == Spec => []MetadataMemory
  <1>1. ASSUME MemoryInv PROVE MetadataMemory
    <2>1. ~fault
      BY <1>1 DEF MemoryInv
    <2>2. CASE call = "none"
      <3>1. phase = "idle" /\ OnlyOuter
        BY <1>1, <2>2, QuietHolds DEF MemoryInv, MemoryTypeOK, Outer
      <3>2. \A p \in Pointers : ptr[p] # "live"
        BY <1>1, <3>1, PointerNames DEF MemoryInv, OuterHeld, OnlyOuter, Outer
      <3>3. ~Holding
        BY <3>1, <3>2 DEF Holding, OnlyOuter
      <3> QED
        BY <2>1, <3>3 DEF MetadataMemory
    <2> QED
      BY <2>1, <2>2 DEF MetadataMemory
  <1> QED
    BY <1>1, MemoryInvariantHolds, PTL

-----------------------------------------------------------------------------
(* Induction.  The library's induction theorems take a predicate; a set    *)
(* serves as well, and its least missing element gives the same argument.  *)

\* A set of naturals has a least element.
LEMMA LeastExists ==
  ASSUME NEW I \in SUBSET Nat, I # {}
  PROVE  \E m \in I : \A i \in I : m <= i
  <1> DEFINE below == OpToRel(<, Nat)
  <1>1. IsWellFoundedOn(below, Nat)
    BY NatLessThanWellFounded, Zenon
  <1>2. PICK m \in I : \A i \in I : ~ (<<i, m>> \in below)
    <2> HIDE DEF below
    <2> QED
      BY <1>1, WFMin
  <1>3. ASSUME NEW i \in I PROVE m <= i
    <2>1. m \in Nat /\ i \in Nat
      OBVIOUS
    <2>2. ~ (i < m)
      BY <1>2, <2>1 DEF OpToRel
    <2> QED
      BY <2>1, <2>2
  <1> QED
    BY <1>3

\* A set with 0 and the successor of each of its naturals has them all.
LEMMA SetInduction ==
  ASSUME NEW S, 0 \in S, \A n \in Nat : n \in S => n + 1 \in S
  PROVE  Nat \subseteq S
  <1> DEFINE missing == Nat \ S
  <1>1. SUFFICES ASSUME missing # {} PROVE FALSE
    OBVIOUS
  <1>2. PICK x \in missing : \A y \in missing : x <= y
    <2>1. missing \in SUBSET Nat
      OBVIOUS
    <2> HIDE DEF missing
    <2> QED
      BY <1>1, <2>1, LeastExists
  <1>3. x \in Nat /\ x # 0
    OBVIOUS
  <1>4. x - 1 \in Nat /\ ~ (x <= x - 1) /\ x - 1 + 1 = x
    BY <1>3
  <1>5. x - 1 \notin missing
    BY <1>2, <1>4
  <1> QED
    BY <1>3, <1>4, <1>5

-----------------------------------------------------------------------------
(* Positions.                                                              *)

\* The positions of ps up to p.
UpTo(ps, p) == {q \in ps : q <= p}

\* Sets of positions and their parts are finite.
LEMMA FinitePositions ==
  ASSUME NEW N \in Nat, NEW ps \in SUBSET (1..N)
  PROVE  /\ IsFiniteSet(ps) /\ Cardinality(ps) \in Nat
         /\ \A p : IsFiniteSet(UpTo(ps, p)) /\ Cardinality(UpTo(ps, p)) \in Nat
  <1>1. IsFiniteSet(1..N)
    BY FS_Interval
  <1>2. IsFiniteSet(ps)
    BY <1>1, FS_Subset
  <1>3. ASSUME NEW p PROVE IsFiniteSet(UpTo(ps, p))
    BY <1>2, FS_Subset DEF UpTo
  <1> QED
    BY <1>2, <1>3, FS_CardinalityType

\* There is a position of every rank.
LEMMA RankExists ==
  ASSUME NEW N \in Nat, NEW ps \in SUBSET (1..N), NEW n \in 1..Cardinality(ps)
  PROVE  \E p \in ps : Cardinality(UpTo(ps, p)) = n
  <1> DEFINE Has(qs) == \A m \in 1..Cardinality(qs) : \E p \in qs : Cardinality(UpTo(qs, p)) = m
             good == {M \in Nat : \A qs \in SUBSET (1..M) : Has(qs)}
  <1>1. 0 \in good
    <2>1. ASSUME NEW qs \in SUBSET (1..0) PROVE Has(qs)
      <3>1. qs = {}
        OBVIOUS
      <3>2. Cardinality(qs) = 0
        BY <3>1, FS_EmptySet
      <3> QED
        BY <3>2
    <2> QED
      BY <2>1
  <1>2. ASSUME NEW M \in Nat, M \in good PROVE M + 1 \in good
    <2>1. ASSUME NEW qs \in SUBSET (1..(M + 1)) PROVE Has(qs)
      <3> DEFINE rs == qs \ {M + 1}
      <3>1. \A q \in qs : q \in 1..(M + 1)
        BY <2>1
      <3>2. \A q \in qs : q \in Int /\ q <= M + 1 /\ (q # M + 1 => q \in 1..M)
        BY <3>1
      <3>3. rs \in SUBSET (1..M) /\ Has(rs)
        <4>1. rs \in SUBSET (1..M)
          BY <3>2
        <4> HIDE DEF rs, Has
        <4> QED
          BY <1>2, <4>1
      <3>4. IsFiniteSet(qs) /\ Cardinality(qs) \in Nat /\ Cardinality(rs) \in Nat
        <4>1. M + 1 \in Nat
          OBVIOUS
        <4> HIDE DEF rs
        <4> QED
          BY <2>1, <3>3, <4>1, FinitePositions
      <3>5. CASE M + 1 \notin qs
        <4>1. rs = qs
          BY <3>5
        <4> QED
          BY <3>3, <4>1
      <3>6. CASE M + 1 \in qs
        <4>1. Cardinality(rs) = Cardinality(qs) - 1
          BY <3>4, <3>6, FS_RemoveElement
        <4>2. ASSUME NEW m \in 1..Cardinality(qs)
              PROVE  \E p \in qs : Cardinality(UpTo(qs, p)) = m
          <5>1. CASE m = Cardinality(qs)
            <6>1. UpTo(qs, M + 1) = qs
              BY <3>2 DEF UpTo
            <6> QED
              BY <3>6, <5>1, <6>1
          <5>2. CASE m # Cardinality(qs)
            <6>1. m \in 1..Cardinality(rs)
              BY <3>4, <4>1, <5>2
            <6>2. PICK p \in rs : Cardinality(UpTo(rs, p)) = m
              BY <3>3, <6>1
            <6>3. UpTo(rs, p) = UpTo(qs, p)
              BY <3>2, <6>2 DEF UpTo
            <6> QED
              BY <6>2, <6>3
          <5> QED
            BY <5>1, <5>2
        <4> QED
          BY <4>2
      <3> QED
        BY <3>5, <3>6
    <2> QED
      BY <1>2, <2>1
  <1>3. Nat \subseteq good
    <2> HIDE DEF good
    <2> QED
      BY <1>1, <1>2, SetInduction
  <1> QED
    BY <1>3

\* Of two positions the later has the larger rank.
LEMMA RanksDiffer ==
  ASSUME NEW N \in Nat, NEW ps \in SUBSET (1..N), NEW p \in ps, NEW r \in ps, p < r
  PROVE  Cardinality(UpTo(ps, p)) < Cardinality(UpTo(ps, r))
  <1>1. UpTo(ps, p) \subseteq UpTo(ps, r) /\ r \in UpTo(ps, r) /\ r \notin UpTo(ps, p)
    <2>1. \A q \in ps : q \in 1..N
      OBVIOUS
    <2>2. \A q \in ps : q \in Int
      BY <2>1
    <2>3. \A q \in UpTo(ps, p) : q <= r
      BY <2>2 DEF UpTo
    <2>4. r <= r /\ ~ (r <= p)
      BY <2>2
    <2> QED
      BY <2>3, <2>4 DEF UpTo
  <1>2. IsFiniteSet(UpTo(ps, r)) /\ Cardinality(UpTo(ps, r)) \in Nat /\ Cardinality(UpTo(ps, p)) \in Nat
    BY FinitePositions
  <1> QED
    <2>1. /\ Cardinality(UpTo(ps, p)) <= Cardinality(UpTo(ps, r))
          /\ Cardinality(UpTo(ps, p)) # Cardinality(UpTo(ps, r))
      <3> DEFINE small == UpTo(ps, p)
                 large == UpTo(ps, r)
      <3>1. small \in SUBSET large /\ IsFiniteSet(large) /\ small # large
        BY <1>1, <1>2
      <3> HIDE DEF small, large
      <3>2. Cardinality(small) <= Cardinality(large) /\ Cardinality(large) # Cardinality(small)
        BY <3>1, FS_Subset
      <3> QED
        BY <3>2 DEF small, large
    <2> QED
      BY <1>2, <2>1

\* Nth finds the position of a rank, and the only one.
LEMMA NthFinds ==
  ASSUME NEW N \in Nat, NEW ps \in SUBSET (1..N)
  PROVE  /\ \A n \in 1..Cardinality(ps) :
              Nth(ps, n) \in ps /\ Cardinality(UpTo(ps, Nth(ps, n))) = n
         /\ \A p \in ps : /\ Cardinality(UpTo(ps, p)) \in 1..Cardinality(ps)
                          /\ Nth(ps, Cardinality(UpTo(ps, p))) = p
  <1>1. ASSUME NEW n \in 1..Cardinality(ps)
        PROVE  Nth(ps, n) \in ps /\ Cardinality(UpTo(ps, Nth(ps, n))) = n
    <2>1. \E p \in ps : Cardinality(UpTo(ps, p)) = n
      BY RankExists
    <2> QED
      BY <2>1 DEF Nth, UpTo
  <1>2. ASSUME NEW p \in ps
        PROVE  /\ Cardinality(UpTo(ps, p)) \in 1..Cardinality(ps)
               /\ Nth(ps, Cardinality(UpTo(ps, p))) = p
    <2> DEFINE n == Cardinality(UpTo(ps, p))
    <2>1. p \in UpTo(ps, p) /\ UpTo(ps, p) \subseteq ps
      BY DEF UpTo
    <2>2. n \in Nat /\ Cardinality(ps) \in Nat /\ IsFiniteSet(ps) /\ IsFiniteSet(UpTo(ps, p))
      BY FinitePositions
    <2>3. n <= Cardinality(ps)
      BY <2>1, <2>2, FS_Subset
    <2>4. n # 0
      BY <2>1, <2>2, FS_EmptySet
    <2>5. n \in 1..Cardinality(ps)
      BY <2>2, <2>3, <2>4
    <2> DEFINE r == Nth(ps, n)
    <2>6. r \in ps /\ Cardinality(UpTo(ps, r)) = n
      BY <1>1, <2>5
    <2> HIDE DEF r
    <2>7. r \in 1..N /\ p \in 1..N
      BY <2>6
    <2>8. r \in Int /\ p \in Int
      BY <2>7
    <2>9. ~(r < p) /\ ~(p < r)
      <3>1. ~ (n < n)
        BY <2>2
      <3> QED
        BY <2>6, <3>1, RanksDiffer
    <2>10. r = p
      BY <2>8, <2>9
    <2> QED
      BY <2>5, <2>10 DEF r
  <1> QED
    BY <1>1, <1>2

\* The elements at some positions of a sequence are a sequence of as many.
LEMMA AtSelects ==
  ASSUME NEW S, NEW s \in Seq(S), NEW ps \in SUBSET DOMAIN s
  PROVE  /\ At(s, ps) \in Seq(S) /\ Len(At(s, ps)) = Cardinality(ps)
         /\ DOMAIN At(s, ps) = 1..Cardinality(ps) /\ Cardinality(ps) \in Nat
         /\ \A n \in 1..Cardinality(ps) : Nth(ps, n) \in ps /\ At(s, ps)[n] = s[Nth(ps, n)]
  <1>1. DOMAIN s = 1..Len(s) /\ Len(s) \in Nat
    OBVIOUS
  <1>2. ps \in SUBSET (1..Len(s))
    BY <1>1
  <1>3. Cardinality(ps) \in Nat
    BY <1>1, <1>2, FinitePositions
  <1>4. \A n \in 1..Cardinality(ps) : Nth(ps, n) \in ps
    BY <1>1, <1>2, NthFinds
  <1>5. \A n \in 1..Cardinality(ps) : s[Nth(ps, n)] \in S
    BY <1>1, <1>4
  <1>6. At(s, ps) = [n \in 1..Cardinality(ps) |-> s[Nth(ps, n)]]
    BY DEF At
  <1> QED
    BY <1>3, <1>4, <1>5, <1>6

\* An interval in order.
LEMMA NthOfInterval ==
  ASSUME NEW a \in Nat, NEW b \in Nat, NEW n \in 1..b
  PROVE  Cardinality((a + 1)..(a + b)) = b /\ Nth((a + 1)..(a + b), n) = a + n
  <1> DEFINE ps == (a + 1)..(a + b)
  <1>1. Cardinality(ps) = b
    BY FS_Interval
  <1>2. ps \in SUBSET (1..(a + b)) /\ a + n \in ps
    OBVIOUS
  <1>3. UpTo(ps, a + n) = (a + 1)..(a + n)
    BY DEF UpTo
  <1>4. Cardinality((a + 1)..(a + n)) = n
    BY FS_Interval
  <1> HIDE DEF ps
  <1>5. Nth(ps, n) = a + n
    <2>1. a + b \in Nat
      OBVIOUS
    <2>2. Nth(ps, Cardinality(UpTo(ps, a + n))) = a + n
      BY <1>2, <2>1, NthFinds
    <2> QED
      BY <1>3, <1>4, <2>2
  <1> QED
    BY <1>1, <1>5 DEF ps

\* All of a sequence.
LEMMA AtAll ==
  ASSUME NEW S, NEW s \in Seq(S)
  PROVE  At(s, DOMAIN s) = s
  <1>1. DOMAIN s = (0 + 1)..(0 + Len(s)) /\ Len(s) \in Nat
    OBVIOUS
  <1>2. \A n \in 1..Len(s) : Nth(DOMAIN s, n) = n
    <2>1. ASSUME NEW n \in 1..Len(s) PROVE Nth((0 + 1)..(0 + Len(s)), n) = 0 + n
      BY <1>1, NthOfInterval
    <2> QED
      BY <1>1, <2>1
  <1>3. Cardinality(DOMAIN s) = Len(s)
    BY <1>1, FS_Interval
  <1>4. At(s, DOMAIN s) = [n \in 1..Len(s) |-> s[n]]
    BY <1>2, <1>3 DEF At
  <1> QED
    BY <1>1, <1>4

-----------------------------------------------------------------------------
(* The inductive invariant.                                                *)

\* Comments as a map, in which a key may have no values, and as entries.
CommentMaps == UNION {[K -> Seq(Nat)] : K \in SUBSET {"A", "B"}}
Entries == Seq(Entry)
JavaBlocks == Blocks(CommentMaps)

\* The phases of a read, and those of a write, that have a chain; and the ones
\* that build the table.
Setting == {"path", "chain", "read", "iterator"}
Counted == {"convert", "converting", "order", "payload"}
Built == {"element", "build", "length", "unwind", "failed"}

DataTypeOK ==
  /\ file \in Seq(NativeBlocks) /\ chain \in Seq(NativeBlocks)
  /\ request \in [order : {"grouped", "ordered"}, blocks : Seq(JavaBlocks)]
  /\ view = NoView \/ view \in Seq(JavaBlocks)
  /\ DOMAIN typed = Kinds \cup {"streaminfo"}
  /\ call \in {"none", "read", "write"}
  /\ call = "none" <=> phase = "idle"
  /\ phase \in {"idle"} \cup Setting \cup (IF call = "read" THEN Counted \cup {"count"}
                 ELSE Built \cup {"first", "delete", "table", "insert", "write"})
  /\ outcome = "returned" => call = "none"
  /\ call = "write" => view = NoView /\ edits > 0
  /\ edits \in Nat

\* A map of comments without the keys that have no value.
WithValues(c) == [k \in {k \in DOMAIN c : c[k] # <<>>} |-> c[k]]

\* Blocks of kind k among the first n of the chain.
Seen(k, n) == Cardinality({j \in 1..n : chain[j].kind = k})

\* The array of kind k has the first n blocks of the chain of that kind.
Filled(k, n) ==
  /\ typed[k] \in Seq(JavaBlocks \cup {StreamInfo}) /\ Len(typed[k]) = Seen(k, n)
  /\ \A i \in 1..n : chain[i].kind = k => typed[k][Seen(k, i)] = ToPublic(chain[i])

\* How far the pass over the chain has come for the kind of pass q.
Passed(q) == IF q < pass THEN Len(chain) ELSE IF q = pass THEN cursor - 1 ELSE 0

\* A read has filled the arrays so far, and then made the table of the order.
ReadSoFar ==
  /\ call = "read" /\ phase \in {"iterator", "count"} \cup Counted => chain = file
  /\ call = "read" /\ phase \in Setting \cup {"count"} =>
       pass = 1 /\ cursor = 1 /\ \A k \in DOMAIN typed : typed[k] = <<>>
  /\ phase \in {"convert", "converting"} =>
       /\ pass \in DOMAIN Passes /\ cursor \in 1..(Len(chain) + 1)
       /\ \A q \in DOMAIN Passes : Filled(Passes[q], Passed(q))
  /\ phase = "converting" => cursor <= Len(chain) /\ chain[cursor].kind = Passes[pass]
  /\ phase \in {"order", "payload"} => \A k \in DOMAIN typed : Filled(k, Len(chain))
  /\ phase = "payload" =>
       order = Without("streaminfo",
                       [i \in DOMAIN chain |-> [kind |-> chain[i].kind, index |-> IndexOf(i)]])

\* A write has emptied the chain and then filled it from the table.
NewChain(n) == <<StreamInfo>> \o [i \in 1..n |-> ToNative(Wanted[i])]
WriteSoFar ==
  /\ call = "write" /\ phase \in Setting \cup {"first", "delete", "table"} => cursor = 1
  /\ call = "write" /\ phase \in {"iterator", "first"} => chain # <<>>
  /\ phase = "delete" => chain # <<>> /\ chain[1] = StreamInfo
  /\ phase \in {"table"} \cup Built => chain = <<StreamInfo>>
  /\ phase \in Built => cursor \in 1..(Len(Wanted) + 1)
  /\ phase \in {"build", "length", "unwind"} => cursor <= Len(Wanted)
  /\ phase \in Built \cup {"insert"} => DOMAIN slots = DOMAIN Wanted
  /\ phase = "insert" => cursor \in 1..(Len(Wanted) + 1) /\ chain = NewChain(cursor - 1)
  /\ phase = "write" => chain = NewChain(Len(Wanted))

DataInv == DataTypeOK /\ ReadSoFar /\ WriteSoFar /\ EditTellsTruth /\ ReadKeepsOrder

-----------------------------------------------------------------------------
(* Blocks and what the conversions do to them.                             *)

\* The kinds by name.
LEMMA KindNames ==
  /\ Kinds = {"vorbis", "picture", "application", "seektable", "cuesheet", "padding", "unknown"}
  /\ "streaminfo" \notin Kinds
  BY DEF Kinds, Builders

\* The blocks of a file by kind.
LEMMA BlockKinds ==
  /\ \A b \in NativeBlocks : b.kind \in Kinds \cup {"streaminfo"} /\ (b.kind = "streaminfo" <=> b = StreamInfo)
  /\ \A b \in JavaBlocks : b.kind \in Kinds /\ b # StreamInfo
  /\ StreamInfo \in NativeBlocks /\ StreamInfo.kind = "streaminfo"
  BY KindNames DEF NativeBlocks, JavaBlocks, Blocks, StreamInfo, Block

\* The entries of a key that a map has not, or has.
LEMMA EntriesTyped ==
  ASSUME NEW c \in CommentMaps, NEW k \in {"A", "B"}
  PROVE  /\ EntriesOf(c, k) \in Entries
         /\ k \notin DOMAIN c => EntriesOf(c, k) = <<>>
         /\ k \in DOMAIN c => /\ Len(EntriesOf(c, k)) = Len(c[k]) /\ Len(c[k]) \in Nat
                              /\ c[k] \in Seq(Nat)
                              /\ \A i \in 1..Len(c[k]) : EntriesOf(c, k)[i] = <<k, c[k][i]>>
  <1>1. k \in DOMAIN c => c[k] \in Seq(Nat)
    BY DEF CommentMaps
  <1>2. CASE k \notin DOMAIN c
    BY <1>2 DEF EntriesOf, Entries
  <1>3. CASE k \in DOMAIN c
    <2>1. c[k] \in Seq(Nat) /\ Len(c[k]) \in Nat /\ DOMAIN c[k] = 1..Len(c[k])
      BY <1>1, <1>3
    <2>2. EntriesOf(c, k) = [i \in 1..Len(c[k]) |-> <<k, c[k][i]>>]
      BY <1>3, <2>1 DEF EntriesOf
    <2>3. \A i \in 1..Len(c[k]) : <<k, c[k][i]>> \in Entry
      <3>1. \A i \in 1..Len(c[k]) : c[k][i] \in Nat
        BY <2>1
      <3> QED
        BY <3>1 DEF Entry
    <2>4. EntriesOf(c, k) \in Entries
      BY <2>1, <2>2, <2>3 DEF Entries
    <2> QED
      BY <1>3, <2>1, <2>2, <2>4
  <1> QED
    BY <1>2, <1>3

\* The values of a key among entries.
Positions(es, k) == {i \in DOMAIN es : es[i][1] = k}
ValuesOf(es, k) == [i \in DOMAIN At(es, Positions(es, k)) |-> At(es, Positions(es, k))[i][2]]

\* They are as many as the entries of the key, in the same order.
LEMMA ValuesFound ==
  ASSUME NEW es \in Entries, NEW k
  PROVE  /\ Cardinality(Positions(es, k)) \in Nat
         /\ ValuesOf(es, k) = [n \in 1..Cardinality(Positions(es, k)) |-> es[Nth(Positions(es, k), n)][2]]
         /\ ValuesOf(es, k) \in Seq(Nat)
  <1> DEFINE ps == Positions(es, k)
  <1>1. es \in Seq(Entry) /\ ps \in SUBSET DOMAIN es
    BY DEF Entries, Positions
  <1>2. /\ DOMAIN At(es, ps) = 1..Cardinality(ps) /\ Cardinality(ps) \in Nat
        /\ \A n \in 1..Cardinality(ps) : Nth(ps, n) \in ps /\ At(es, ps)[n] = es[Nth(ps, n)]
    <2> HIDE DEF ps
    <2> QED
      BY <1>1, AtSelects
  <1>3. ValuesOf(es, k) = [n \in 1..Cardinality(ps) |-> es[Nth(ps, n)][2]]
    BY <1>2 DEF ValuesOf
  <1>4. \A n \in 1..Cardinality(ps) : es[Nth(ps, n)][2] \in Nat
    <2>1. \A i \in DOMAIN es : es[i] \in Entry
      BY <1>1
    <2>2. \A i \in DOMAIN es : es[i][2] \in Nat
      BY <2>1 DEF Entry
    <2> QED
      BY <1>1, <1>2, <2>2
  <1> HIDE DEF ps
  <1> QED
    BY <1>2, <1>3, <1>4 DEF ps

\* Grouping makes a map of comments.
LEMMA GroupTyped ==
  ASSUME NEW es \in Entries
  PROVE  Group(es) \in CommentMaps
  <1> DEFINE K == {e[1] : e \in ToSet(es)} \ {""}
  <1>1. Group(es) = [k \in K |-> ValuesOf(es, k)]
    BY DEF Group, ValuesOf, Positions
  <1>2. K \in SUBSET {"A", "B"}
    <2>1. \A i \in DOMAIN es : es[i] \in Entry
      BY DEF Entries
    <2>2. \A i \in DOMAIN es : es[i][1] \in {"A", "B", ""}
      BY <2>1 DEF Entry
    <2> QED
      BY <2>2 DEF ToSet
  <1>3. \A k \in K : ValuesOf(es, k) \in Seq(Nat)
    BY ValuesFound
  <1> HIDE DEF K
  <1>4. Group(es) \in [K -> Seq(Nat)]
    BY <1>1, <1>3
  <1> QED
    BY <1>2, <1>4 DEF CommentMaps

\* Where the entries of a key are in a flattened map.
LEMMA FlattenPlaces ==
  ASSUME NEW c \in CommentMaps
  PROVE  /\ Flatten(c) \in Entries
         /\ \A k \in {"A", "B"} :
              \E off \in Nat :
                /\ Positions(Flatten(c), k) = (off + 1)..(off + Len(EntriesOf(c, k)))
                /\ \A n \in 1..Len(EntriesOf(c, k)) : Flatten(c)[off + n] = EntriesOf(c, k)[n]
  <1> DEFINE a == EntriesOf(c, "A")
             b == EntriesOf(c, "B")
             es == Flatten(c)
  <1>1. es = a \o b
    BY DEF Flatten, Keys
  <1>2. a \in Seq(Entry) /\ b \in Seq(Entry)
    BY EntriesTyped DEF Entries
  <1>3. /\ \A n \in 1..Len(a) : a[n][1] = "A"
        /\ \A n \in 1..Len(b) : b[n][1] = "B"
    <2>1. ASSUME NEW k \in {"A", "B"}, NEW n \in 1..Len(EntriesOf(c, k))
          PROVE  EntriesOf(c, k)[n][1] = k
      <3>1. CASE k \in DOMAIN c
        <4>1. EntriesOf(c, k)[n] = <<k, c[k][n]>>
          BY <3>1, EntriesTyped
        <4> QED
          BY <4>1
      <3>2. CASE k \notin DOMAIN c
        <4>1. EntriesOf(c, k) = <<>>
          BY <3>2, EntriesTyped
        <4> QED
          BY <4>1
      <3> QED
        BY <3>1, <3>2
    <2> QED
      BY <2>1
  <1> DEFINE la == Len(a)
             lb == Len(b)
  <1>4. la \in Nat /\ lb \in Nat
    BY <1>2
  <1> HIDE DEF a, b, es
  <1>5. /\ es \in Seq(Entry) /\ DOMAIN es = 1..(la + lb)
        /\ \A n \in 1..la : es[n] = a[n]
        /\ \A n \in 1..lb : es[la + n] = b[n]
    BY <1>1, <1>2
  <1>6. \A i \in 1..(la + lb) : i \in 1..la \/ (i \notin 1..la /\ i - la \in 1..lb /\ la + (i - la) = i)
    BY <1>4
  <1>7. \A i \in 1..(la + lb) : es[i][1] = IF i \in 1..la THEN "A" ELSE "B"
    <2>1. ASSUME NEW i \in 1..(la + lb), i \in 1..la PROVE es[i][1] = "A"
      BY <1>3, <1>5, <2>1
    <2>2. ASSUME NEW i \in 1..(la + lb), i \notin 1..la PROVE es[i][1] = "B"
      <3>1. i - la \in 1..lb /\ la + (i - la) = i
        BY <1>6, <2>2
      <3>2. es[la + (i - la)] = b[i - la] /\ b[i - la][1] = "B"
        BY <1>3, <1>5, <3>1
      <3> QED
        BY <3>1, <3>2
    <2> QED
      BY <2>1, <2>2
  <1>8. Positions(es, "A") = (0 + 1)..(0 + la)
    BY <1>4, <1>5, <1>7 DEF Positions
  <1>9. Positions(es, "B") = (la + 1)..(la + lb)
    BY <1>4, <1>5, <1>7 DEF Positions
  <1>10. ASSUME NEW k \in {"A", "B"}
         PROVE  \E off \in Nat :
                  /\ Positions(es, k) = (off + 1)..(off + Len(EntriesOf(c, k)))
                  /\ \A n \in 1..Len(EntriesOf(c, k)) : es[off + n] = EntriesOf(c, k)[n]
    <2>1. CASE k = "A"
      <3>1. Positions(es, k) = (0 + 1)..(0 + la) /\ \A n \in 1..la : es[0 + n] = a[n]
        BY <1>5, <1>8, <2>1
      <3> QED
        BY <2>1, <3>1 DEF a
    <2>2. CASE k = "B"
      BY <1>4, <1>5, <1>9, <2>2 DEF b
    <2> QED
      BY <2>1, <2>2
  <1> QED
    BY <1>5, <1>10 DEF es, Entries

\* Grouping undoes flattening, but for the keys that have no value.
LEMMA GroupInverts ==
  ASSUME NEW c \in CommentMaps
  PROVE  Flatten(c) \in Entries /\ Group(Flatten(c)) = WithValues(c)
  <1> DEFINE es == Flatten(c)
             K == {e[1] : e \in ToSet(es)} \ {""}
  <1>1. es \in Entries
    BY FlattenPlaces
  <1>2. DOMAIN c \in SUBSET {"A", "B"}
    BY DEF CommentMaps
  <1>3. ASSUME NEW k \in {"A", "B"}
        PROVE  /\ k \in K <=> k \in DOMAIN c /\ c[k] # <<>>
               /\ k \in K => ValuesOf(es, k) = c[k]
    <2> DEFINE l == Len(EntriesOf(c, k))
               ps == Positions(es, k)
    <2>1. PICK off \in Nat : /\ ps = (off + 1)..(off + l)
                             /\ \A n \in 1..l : es[off + n] = EntriesOf(c, k)[n]
      BY FlattenPlaces
    <2>2. l \in Nat
      BY EntriesTyped DEF Entries
    <2>3. k \in K <=> ps # {}
      BY DEF ToSet, Positions
    <2>4. ps # {} <=> l # 0
      BY <2>1, <2>2
    <2>5. CASE k \notin DOMAIN c
      <3>1. l = 0
        BY <2>5, EntriesTyped
      <3> QED
        BY <2>3, <2>4, <2>5, <3>1
    <2>6. CASE k \in DOMAIN c /\ c[k] = <<>>
      <3>1. l = 0
        BY <2>6, EntriesTyped
      <3> QED
        BY <2>3, <2>4, <2>6, <3>1
    <2>7. CASE k \in DOMAIN c /\ c[k] # <<>>
      <3>1. /\ l = Len(c[k]) /\ l # 0 /\ c[k] \in Seq(Nat)
            /\ \A i \in 1..l : EntriesOf(c, k)[i] = <<k, c[k][i]>>
        BY <2>7, EntriesTyped
      <3> HIDE DEF l, ps
      <3>2. ASSUME NEW n \in 1..l PROVE Cardinality(ps) = l /\ Nth(ps, n) = off + n
        BY <2>1, <2>2, NthOfInterval
      <3>3. 1 \in 1..l
        BY <2>2, <3>1
      <3>4. Cardinality(ps) = l /\ \A n \in 1..l : Nth(ps, n) = off + n
        BY <3>2, <3>3
      <3>5. ValuesOf(es, k) = [n \in 1..l |-> es[Nth(ps, n)][2]]
        <4> HIDE DEF es
        <4>1. ValuesOf(es, k) = [n \in 1..Cardinality(ps) |-> es[Nth(ps, n)][2]]
          BY <1>1, ValuesFound DEF ps
        <4> QED
          BY <3>4, <4>1
      <3>6. \A n \in 1..l : es[Nth(ps, n)][2] = c[k][n]
        <4>1. ASSUME NEW n \in 1..l PROVE es[Nth(ps, n)] = <<k, c[k][n]>>
          BY <2>1, <3>1, <3>4
        <4> QED
          BY <4>1
      <3>7. ValuesOf(es, k) = [n \in 1..l |-> c[k][n]]
        BY <3>5, <3>6
      <3>8. c[k] = [n \in 1..l |-> c[k][n]]
        <4> DEFINE vs == c[k]
        <4>1. vs \in Seq(Nat) /\ l = Len(vs)
          BY <3>1
        <4> HIDE DEF vs
        <4>2. vs = [n \in 1..l |-> vs[n]]
          BY <4>1
        <4> QED
          BY <4>2 DEF vs
      <3> QED
        BY <2>3, <2>4, <2>7, <3>1, <3>7, <3>8
    <2> QED
      BY <2>5, <2>6, <2>7
  <1>4. Group(es) = [k \in K |-> ValuesOf(es, k)]
    BY DEF Group, ValuesOf, Positions
  <1>5. K \in SUBSET {"A", "B"}
    <2>1. \A i \in DOMAIN es : es[i] \in Entry
      BY <1>1 DEF Entries
    <2>2. \A i \in DOMAIN es : es[i][1] \in {"A", "B", ""}
      BY <2>1 DEF Entry
    <2> QED
      BY <2>2 DEF ToSet
  <1> HIDE DEF K, es
  <1>6. K = {k \in DOMAIN c : c[k] # <<>>}
    BY <1>2, <1>3, <1>5
  <1>7. \A k \in K : ValuesOf(es, k) = c[k]
    BY <1>3, <1>5
  <1>8. Group(es) = [k \in K |-> c[k]]
    BY <1>4, <1>7
  <1> QED
    BY <1>1, <1>6, <1>8 DEF es, WithValues

\* What a file can hold of a comment leaves those keys out.
LEMMA StorableComment ==
  ASSUME NEW b, b.kind = "vorbis", NEW c, b = [kind |-> "vorbis", value |-> c]
  PROVE  Storable(b) = [kind |-> "vorbis", value |-> WithValues(c)]
  BY DEF Storable, RestrictValues, Restrict, WithValues

\* A block that Java gave comes back as far as a file can hold it.
LEMMA ToNativeInverts ==
  ASSUME NEW b \in JavaBlocks
  PROVE  /\ ToNative(b) \in NativeBlocks /\ ToNative(b).kind = b.kind
         /\ Storable(b) \in JavaBlocks /\ Storable(b).kind = b.kind
         /\ ToPublic(ToNative(b)) = Storable(b)
  <1>1. CASE b \in [kind : {"vorbis"}, value : CommentMaps]
    <2>1. b.kind = "vorbis" /\ b.value \in CommentMaps /\ b = [kind |-> "vorbis", value |-> b.value]
      BY <1>1
    <2>2. ToNative(b) = [kind |-> "vorbis", value |-> Flatten(b.value)]
      BY <2>1 DEF ToNative
    <2>3. Flatten(b.value) \in Entries /\ Group(Flatten(b.value)) = WithValues(b.value)
      BY <2>1, GroupInverts
    <2>4. ToPublic(ToNative(b)) = [kind |-> "vorbis", value |-> Group(Flatten(b.value))]
      BY <2>2 DEF ToPublic
    <2>5. Storable(b) = [kind |-> "vorbis", value |-> WithValues(b.value)]
      BY <2>1, StorableComment
    <2>6. WithValues(b.value) \in CommentMaps
      BY <2>3, GroupTyped
    <2>7. ToNative(b) \in NativeBlocks
      BY <2>2, <2>3 DEF NativeBlocks, Blocks, Entries
    <2>8. Storable(b) \in JavaBlocks
      BY <2>5, <2>6 DEF JavaBlocks, Blocks
    <2> QED
      BY <2>1, <2>2, <2>3, <2>4, <2>5, <2>7, <2>8
  <1>2. CASE b \in [kind : Kinds \ {"vorbis"}, value : Nat]
    <2>1. b.kind # "vorbis"
      BY <1>2
    <2> QED
      BY <1>2, <2>1 DEF ToNative, ToPublic, Storable, NativeBlocks, JavaBlocks, Blocks
  <1> QED
    BY <1>1, <1>2 DEF JavaBlocks, Blocks

\* A block of a file becomes one of Java, STREAMINFO apart.
LEMMA ToPublicTyped ==
  ASSUME NEW b \in NativeBlocks
  PROVE  /\ ToPublic(b).kind = b.kind
         /\ b.kind # "streaminfo" => ToPublic(b) \in JavaBlocks
         /\ b.kind = "streaminfo" => ToPublic(b) = StreamInfo
  <1>1. CASE b \in [kind : {"vorbis"}, value : Entries]
    <2>1. b.kind = "vorbis" /\ b.value \in Entries /\ b = [kind |-> "vorbis", value |-> b.value]
      BY <1>1
    <2>2. ToPublic(b) = [kind |-> "vorbis", value |-> Group(b.value)]
      BY <2>1 DEF ToPublic
    <2>3. Group(b.value) \in CommentMaps
      BY <2>1, GroupTyped
    <2> QED
      BY <2>1, <2>2, <2>3 DEF JavaBlocks, Blocks
  <1>2. CASE b \in [kind : Kinds \ {"vorbis"}, value : Nat]
    <2>1. b.kind # "vorbis" /\ b.kind # "streaminfo"
      BY <1>2, KindNames
    <2> QED
      BY <1>2, <2>1 DEF ToPublic, JavaBlocks, Blocks
  <1>3. CASE b = StreamInfo
    BY <1>3 DEF ToPublic, StreamInfo, Block
  <1> QED
    BY <1>1, <1>2, <1>3 DEF NativeBlocks, Blocks, Entries

\* A filtered list of blocks is a list of blocks.
LEMMA WithoutTyped ==
  ASSUME NEW S, NEW bs \in Seq(S), NEW k
  PROVE  Without(k, bs) \in Seq(S)
  <1>1. DOMAIN bs \ Where(k, bs) \in SUBSET DOMAIN bs
    OBVIOUS
  <1> QED
    BY <1>1, AtSelects DEF Without

\* The blocks of a request in table order are blocks of Java.
LEMMA WantedTyped ==
  ASSUME NEW r \in [order : {"grouped", "ordered"}, blocks : Seq(JavaBlocks)]
  PROVE  TableOf(r) \in Seq(JavaBlocks)
  <1> DEFINE kept(k) == At(r.blocks, {i \in Where(k, r.blocks) :
                                        k = "vorbis" => Flatten(r.blocks[i].value) # <<>>})
  <1>1. r.blocks \in Seq(JavaBlocks)
    OBVIOUS
  <1>2. ASSUME NEW k PROVE kept(k) \in Seq(JavaBlocks)
    <2> DEFINE ps == {i \in Where(k, r.blocks) : k = "vorbis" => Flatten(r.blocks[i].value) # <<>>}
    <2>1. ps \in SUBSET DOMAIN r.blocks
      BY DEF Where
    <2> HIDE DEF ps
    <2>2. At(r.blocks, ps) \in Seq(JavaBlocks)
      BY <1>1, <2>1, AtSelects
    <2> QED
      BY <2>2 DEF ps
  <1>3. TableOf(r) = IF r.order = "ordered" THEN r.blocks
          ELSE kept("vorbis") \o kept("picture") \o kept("application") \o kept("seektable")
                 \o kept("cuesheet") \o kept("padding") \o kept("unknown")
    BY DEF TableOf
  <1> HIDE DEF kept
  <1>4. kept("vorbis") \o kept("picture") \o kept("application") \o kept("seektable")
          \o kept("cuesheet") \o kept("padding") \o kept("unknown") \in Seq(JavaBlocks)
    BY <1>2
  <1> QED
    BY <1>1, <1>3, <1>4

-----------------------------------------------------------------------------
(* Padding at the end.                                                     *)

\* The blocks that are not padding.
Solid(bs) == {i \in 1..Len(bs) : bs[i].kind # "padding"}

\* The last of some positions.
LEMMA LastExists ==
  ASSUME NEW N \in Nat, NEW I \in SUBSET (1..N), I # {}
  PROVE  \E m \in I : \A i \in I : i <= m
  <1>1. IsFiniteSet(I) /\ Cardinality(I) \in Nat
    BY FinitePositions
  <1>2. Cardinality(I) # 0
    BY <1>1, FS_EmptySet
  <1>3. Cardinality(I) \in 1..Cardinality(I)
    BY <1>1, <1>2
  <1>4. PICK m \in I : Cardinality(UpTo(I, m)) = Cardinality(I)
    BY <1>3, RankExists
  <1>5. UpTo(I, m) = I
    <2> DEFINE low == UpTo(I, m)
    <2>1. low \in SUBSET I /\ Cardinality(low) = Cardinality(I)
      BY <1>4 DEF UpTo
    <2> HIDE DEF low
    <2>2. low = I
      BY <1>1, <2>1, FS_Subset
    <2> QED
      BY <2>2 DEF low
  <1> QED
    BY <1>4, <1>5 DEF UpTo

\* Trimming keeps the blocks up to the last that is not padding.
LEMMA TrimmedAt ==
  ASSUME NEW S, NEW bs \in Seq(S), NEW m \in 0..Len(bs),
         m # 0 => bs[m].kind # "padding",
         \A i \in (m + 1)..Len(bs) : bs[i].kind = "padding"
  PROVE  Trimmed(bs) = [i \in 1..m |-> bs[i]]
  <1> DEFINE I == Solid(bs)
  <1>1. Trimmed(bs) = SubSeq(bs, 1, IF I # {} THEN Max(I) ELSE 0)
    BY DEF Trimmed, SelectLastInSeq, Solid
  <1>2. Len(bs) \in Nat /\ m \in Nat /\ m <= Len(bs)
    OBVIOUS
  <1>3. ASSUME NEW i \in I PROVE i <= m /\ i \in Nat /\ m # 0
    <2>1. i \in 1..Len(bs) /\ bs[i].kind # "padding"
      BY DEF Solid
    <2>2. ~ (i \in (m + 1)..Len(bs))
      BY <2>1
    <2> QED
      BY <1>2, <2>1, <2>2
  <1>4. CASE m = 0
    <2>1. I = {}
      BY <1>3, <1>4
    <2> QED
      BY <1>1, <1>4, <2>1
  <1>5. CASE m # 0
    <2>1. m \in I
      BY <1>2, <1>5 DEF Solid
    <2>2. \A x \in I : (\A y \in I : x >= y) => x = m
      BY <1>2, <1>3, <2>1
    <2>3. \A y \in I : m >= y
      BY <1>2, <1>3
    <2> HIDE DEF I
    <2>4. Max(I) = m
      BY <2>1, <2>2, <2>3 DEF Max
    <2>5. Trimmed(bs) = SubSeq(bs, 1, m)
      BY <1>1, <2>1, <2>4
    <2> QED
      BY <1>2, <2>5
  <1> QED
    BY <1>4, <1>5

\* There is such a place.
LEMMA TrimPlace ==
  ASSUME NEW S, NEW bs \in Seq(S)
  PROVE  \E m \in 0..Len(bs) : /\ m # 0 => bs[m].kind # "padding"
                               /\ \A i \in (m + 1)..Len(bs) : bs[i].kind = "padding"
  <1>1. Len(bs) \in Nat /\ Solid(bs) \in SUBSET (1..Len(bs))
    BY DEF Solid
  <1>2. CASE Solid(bs) = {}
    <2>1. \A i \in (0 + 1)..Len(bs) : bs[i].kind = "padding"
      BY <1>1, <1>2 DEF Solid
    <2> QED
      BY <1>1, <2>1
  <1>3. CASE Solid(bs) # {}
    <2>1. PICK m \in Solid(bs) : \A i \in Solid(bs) : i <= m
      BY <1>1, <1>3, LastExists
    <2>2. m \in 1..Len(bs) /\ bs[m].kind # "padding"
      BY <2>1 DEF Solid
    <2>3. ASSUME NEW i \in (m + 1)..Len(bs) PROVE bs[i].kind = "padding"
      <3>1. i \in 1..Len(bs) /\ ~ (i <= m)
        BY <1>1, <2>2
      <3> QED
        BY <2>1, <3>1 DEF Solid
    <2>4. m \in 0..Len(bs)
      BY <2>2
    <2> QED
      BY <2>2, <2>3, <2>4
  <1> QED
    BY <1>2, <1>3

\* Lists that differ only in padding at their ends are trimmed to the same.
LEMMA TrimmedAgree ==
  ASSUME NEW S, NEW s \in Seq(S), NEW t \in Seq(S), NEW k \in Nat, k <= Len(s), k <= Len(t),
         \A i \in 1..k : s[i] = t[i],
         \A i \in (k + 1)..Len(s) : s[i].kind = "padding",
         \A i \in (k + 1)..Len(t) : t[i].kind = "padding"
  PROVE  Trimmed(s) = Trimmed(t)
  <1>1. PICK m \in 0..Len(s) : /\ m # 0 => s[m].kind # "padding"
                               /\ \A i \in (m + 1)..Len(s) : s[i].kind = "padding"
    BY TrimPlace
  <1>2. Len(s) \in Nat /\ Len(t) \in Nat /\ m \in Nat /\ m <= Len(s)
    OBVIOUS
  <1>3. m <= k
    <2>1. SUFFICES ASSUME ~ (m <= k) PROVE FALSE
      OBVIOUS
    <2>2. m \in (k + 1)..Len(s) /\ m # 0
      BY <1>2, <2>1
    <2> QED
      BY <1>1, <2>2
  <1>4. m # 0 => t[m].kind # "padding"
    <2>1. m # 0 => m \in 1..k
      BY <1>2, <1>3
    <2> QED
      BY <1>1, <2>1
  <1>5. ASSUME NEW i \in (m + 1)..Len(t) PROVE t[i].kind = "padding"
    <2>1. CASE i <= k
      <3>1. i \in 1..k /\ i \in (m + 1)..Len(s)
        BY <1>2, <2>1
      <3> QED
        BY <1>1, <3>1
    <2>2. CASE ~ (i <= k)
      <3>1. i \in (k + 1)..Len(t)
        BY <1>2, <2>2
      <3> QED
        BY <3>1
    <2> QED
      BY <2>1, <2>2
  <1>6. m \in 0..Len(t)
    BY <1>2, <1>3
  <1>7. Trimmed(s) = [i \in 1..m |-> s[i]]
    BY <1>1, TrimmedAt
  <1>8. Trimmed(t) = [i \in 1..m |-> t[i]]
    BY <1>4, <1>5, <1>6, TrimmedAt
  <1>9. \A i \in 1..m : s[i] = t[i]
    BY <1>2, <1>3
  <1> QED
    BY <1>7, <1>8, <1>9

\* What libFLAC writes is the chain, up to padding at the end.
LEMMA WrittenAgrees ==
  ASSUME NEW c \in Seq(NativeBlocks), c # <<>>, c[1] = StreamInfo, NEW f \in Written(c)
  PROVE  /\ f \in Seq(NativeBlocks)
         /\ \E k \in 1..Len(c) :
              /\ k <= Len(f)
              /\ \A i \in 1..k : f[i] = c[i]
              /\ \A i \in (k + 1)..Len(f) : f[i].kind = "padding"
              /\ \A i \in (k + 1)..Len(c) : c[i].kind = "padding"
  <1> DEFINE w == WithoutSlack(c)
             pad == Block("padding", 9)
  <1>1. Len(c) \in Nat \ {0} /\ DOMAIN c = 1..Len(c) /\ c[1] \in NativeBlocks
    OBVIOUS
  <1>2. pad \in NativeBlocks /\ pad.kind = "padding"
    BY KindNames DEF NativeBlocks, Blocks, Block
  <1>3. PICK k \in 1..Len(c) : /\ w \in Seq(NativeBlocks) /\ Len(w) = k
                               /\ \A i \in 1..k : w[i] = c[i]
                               /\ \A i \in (k + 1)..Len(c) : c[i].kind = "padding"
    <2>1. CASE c[Len(c)].kind = "padding"
      <3>1. w = SubSeq(c, 1, Len(c) - 1)
        BY <2>1 DEF WithoutSlack, Last, Front
      <3>2. Len(c) # 1
        BY <2>1, BlockKinds
      <3>3. Len(c) - 1 \in 1..Len(c)
        BY <1>1, <3>2
      <3>4. /\ w \in Seq(NativeBlocks) /\ Len(w) = Len(c) - 1
            /\ \A i \in 1..(Len(c) - 1) : w[i] = c[i]
        BY <1>1, <3>1, <3>3
      <3>5. \A i \in (Len(c) - 1 + 1)..Len(c) : i = Len(c)
        <4> DEFINE n == Len(c)
        <4>1. n \in Nat
          BY <1>1
        <4> HIDE DEF n
        <4>2. \A i \in (n - 1 + 1)..n : i = n
          BY <4>1
        <4> QED
          BY <4>2 DEF n
      <3> HIDE DEF w
      <3> QED
        BY <2>1, <3>3, <3>4, <3>5
    <2>2. CASE c[Len(c)].kind # "padding"
      <3>1. w = c
        BY <2>2 DEF WithoutSlack, Last
      <3>2. Len(c) \in 1..Len(c) /\ \A i \in (Len(c) + 1)..Len(c) : FALSE
        BY <1>1
      <3> HIDE DEF w
      <3> QED
        BY <3>1, <3>2
    <2> QED
      BY <2>1, <2>2
  <1>4. f = c \/ f = w \/ f = Append(w, pad)
    BY DEF Written
  <1> HIDE DEF w, pad
  <1>5. k \in Nat /\ k <= Len(c)
    BY <1>1
  <1>6. CASE f = c
    BY <1>1, <1>3, <1>5, <1>6
  <1>7. CASE f = w
    BY <1>1, <1>3, <1>5, <1>7
  <1>8. CASE f = Append(w, pad)
    <2>1. /\ f \in Seq(NativeBlocks) /\ Len(f) = k + 1 /\ f[k + 1] = pad
          /\ \A i \in 1..k : f[i] = w[i]
      BY <1>2, <1>3, <1>5, <1>8
    <2>2. \A i \in (k + 1)..Len(f) : i = k + 1
      BY <1>5, <2>1
    <2> QED
      BY <1>2, <1>3, <1>5, <2>1, <2>2
  <1> QED
    BY <1>4, <1>6, <1>7, <1>8

\* The chain that the table fills.
LEMMA NewChainTyped ==
  ASSUME Wanted \in Seq(JavaBlocks), NEW n \in 0..Len(Wanted)
  PROVE  /\ NewChain(n) \in Seq(NativeBlocks) /\ Len(NewChain(n)) = n + 1
         /\ NewChain(n)[1] = StreamInfo
         /\ \A i \in 1..n : NewChain(n)[i + 1] = ToNative(Wanted[i])
  <1> DEFINE new == [i \in 1..n |-> ToNative(Wanted[i])]
  <1>1. n \in Nat /\ \A i \in 1..n : i \in 1..Len(Wanted)
    OBVIOUS
  <1>2. \A i \in 1..n : Wanted[i] \in JavaBlocks
    BY <1>1
  <1>3. \A i \in 1..n : ToNative(Wanted[i]) \in NativeBlocks
    BY <1>2, ToNativeInverts
  <1>4. new \in Seq(NativeBlocks) /\ Len(new) = n /\ \A i \in 1..n : new[i] = ToNative(Wanted[i])
    BY <1>1, <1>3
  <1> HIDE DEF new
  <1>5. NewChain(n) = <<StreamInfo>> \o new
    BY DEF NewChain, new
  <1>6. <<StreamInfo>> \in Seq(NativeBlocks)
    BY BlockKinds
  <1>7. \A i \in 1..n : i + 1 \in 1..(n + 1) /\ i + 1 > 1 /\ i + 1 - 1 = i
    BY <1>1
  <1> QED
    BY <1>1, <1>4, <1>5, <1>6, <1>7

\* A file that was written from it has what was wanted, as far as a file can.
LEMMA WrittenIsWanted ==
  ASSUME Wanted \in Seq(JavaBlocks), NEW f \in Written(NewChain(Len(Wanted)))
  PROVE  /\ f \in Seq(NativeBlocks) /\ f[1] = StreamInfo
         /\ Trimmed(MapBlocks(ToPublic, Tail(f))) = Trimmed(MapBlocks(Storable, Wanted))
  <1> DEFINE n == Len(Wanted)
             c == NewChain(n)
             s == MapBlocks(ToPublic, Tail(f))
             W == MapBlocks(Storable, Wanted)
             Both == JavaBlocks \cup {StreamInfo}
  <1>1. n \in Nat /\ n \in 0..n
    OBVIOUS
  <1>2. /\ c \in Seq(NativeBlocks) /\ Len(c) = n + 1 /\ c[1] = StreamInfo
        /\ \A i \in 1..n : c[i + 1] = ToNative(Wanted[i])
    BY <1>1, NewChainTyped
  <1> HIDE DEF c
  <1>3. c # <<>>
    BY <1>1, <1>2
  <1>4. PICK k \in 1..Len(c) :
          /\ f \in Seq(NativeBlocks) /\ k <= Len(f)
          /\ \A i \in 1..k : f[i] = c[i]
          /\ \A i \in (k + 1)..Len(f) : f[i].kind = "padding"
          /\ \A i \in (k + 1)..Len(c) : c[i].kind = "padding"
    <2>1. f \in Written(c)
      BY DEF c
    <2> QED
      BY <1>2, <1>3, <2>1, WrittenAgrees
  <1>5. k \in Nat \ {0} /\ k <= n + 1 /\ Len(f) \in Nat \ {0} /\ DOMAIN f = 1..Len(f)
    BY <1>1, <1>2, <1>4
  <1>6. f[1] = StreamInfo
    BY <1>2, <1>4, <1>5
  <1> DEFINE l == Len(f) - 1
  <1>7. /\ Tail(f) \in Seq(NativeBlocks) /\ DOMAIN Tail(f) = 1..l /\ l \in Nat
        /\ \A i \in 1..l : Tail(f)[i] = f[i + 1] /\ i + 1 \in 1..Len(f)
    BY <1>4, <1>5
  <1>8. \A i \in 1..Len(f) : ToPublic(f[i]) \in Both /\ ToPublic(f[i]).kind = f[i].kind
    <2>1. ASSUME NEW b \in NativeBlocks PROVE ToPublic(b) \in Both /\ ToPublic(b).kind = b.kind
      BY ToPublicTyped
    <2> QED
      BY <1>4, <2>1
  <1> HIDE DEF l, Both
  <1>9. s = [i \in 1..l |-> ToPublic(f[i + 1])]
    BY <1>7 DEF MapBlocks
  <1> HIDE DEF s
  <1>10. s \in Seq(Both) /\ Len(s) = l
    BY <1>7, <1>8, <1>9
  <1>11. /\ W \in Seq(Both) /\ Len(W) = n
         /\ \A i \in 1..n : W[i] = Storable(Wanted[i]) /\ W[i].kind = Wanted[i].kind
    <2>1. W = [i \in 1..n |-> Storable(Wanted[i])]
      BY DEF MapBlocks
    <2>2. \A i \in 1..n : Wanted[i] \in JavaBlocks
      OBVIOUS
    <2>3. \A i \in 1..n : Storable(Wanted[i]) \in Both /\ Storable(Wanted[i]).kind = Wanted[i].kind
      BY <2>2, ToNativeInverts DEF Both
    <2> HIDE DEF W, n
    <2> QED
      BY <1>1, <2>1, <2>3
  <1> HIDE DEF W
  <1>12. \A i \in 1..(k - 1) : s[i] = W[i]
    <2>1. ASSUME NEW i \in 1..(k - 1) PROVE s[i] = W[i]
      <3>1. i \in 1..n /\ i \in 1..l /\ i + 1 \in 1..k
        BY <1>1, <1>4, <1>5 DEF l
      <3>2. s[i] = ToPublic(ToNative(Wanted[i]))
        BY <1>2, <1>4, <1>9, <3>1
      <3>3. Wanted[i] \in JavaBlocks
        BY <3>1
      <3> QED
        BY <1>11, <3>1, <3>2, <3>3, ToNativeInverts
    <2> QED
      BY <2>1
  <1>13. \A i \in (k - 1 + 1)..Len(s) : s[i].kind = "padding"
    <2>1. ASSUME NEW i \in (k - 1 + 1)..Len(s) PROVE s[i].kind = "padding"
      <3>1. i \in 1..l /\ i + 1 \in (k + 1)..Len(f) /\ i + 1 \in 1..Len(f)
        BY <1>5, <1>10 DEF l
      <3> QED
        BY <1>4, <1>8, <1>9, <3>1
    <2> QED
      BY <2>1
  <1>14. \A i \in (k - 1 + 1)..n : W[i].kind = "padding"
    <2>1. ASSUME NEW i \in (k - 1 + 1)..n PROVE W[i].kind = "padding"
      <3>1. i \in 1..n /\ i + 1 \in (k + 1)..Len(c)
        BY <1>1, <1>2, <1>5
      <3>2. Wanted[i] \in JavaBlocks /\ c[i + 1] = ToNative(Wanted[i]) /\ c[i + 1].kind = "padding"
        BY <1>2, <1>4, <3>1
      <3> QED
        BY <1>11, <3>1, <3>2, ToNativeInverts
    <2> QED
      BY <2>1
  <1>15. k - 1 \in Nat /\ k - 1 <= l /\ k - 1 <= n
    BY <1>1, <1>4, <1>5 DEF l
  <1>16. Trimmed(s) = Trimmed(W)
    <2> DEFINE K == k - 1
    <2>1. /\ K \in Nat /\ K <= Len(s) /\ K <= Len(W)
          /\ \A i \in 1..K : s[i] = W[i]
          /\ \A i \in (K + 1)..Len(s) : s[i].kind = "padding"
          /\ \A i \in (K + 1)..Len(W) : W[i].kind = "padding"
      BY <1>10, <1>11, <1>12, <1>13, <1>14, <1>15
    <2> HIDE DEF K, n
    <2> QED
      BY <1>10, <1>11, <2>1, TrimmedAgree
  <1> QED
    BY <1>4, <1>6, <1>16 DEF s, W

-----------------------------------------------------------------------------
(* Steps that cannot disturb the invariant.                                *)

\* What the invariant speaks about.
dataVars == <<file, chain, request, view, typed, call, phase, outcome, edits, pass, cursor, order, slots>>

\* A step that changes only pointers.
LEMMA DataStutter ==
  ASSUME DataInv, UNCHANGED dataVars
  PROVE  DataInv'
  <1>1. \A k, n : Seen(k, n)' = Seen(k, n)
    BY DEF Seen, dataVars
  <1>2. \A k, n : Filled(k, n)' <=> Filled(k, n)
    BY <1>1 DEF Filled, dataVars
  <1>3. \A q : Passed(q)' = Passed(q)
    BY DEF Passed, dataVars
  <1>4. \A i : IndexOf(i)' = IndexOf(i)
    BY DEF IndexOf, dataVars
  <1>5. Wanted' = Wanted
    BY DEF Wanted, dataVars
  <1>6. \A n : NewChain(n)' = NewChain(n)
    BY <1>5 DEF NewChain, dataVars
  <1>7. DataTypeOK'
    BY DEF DataInv, DataTypeOK, dataVars
  <1>8. ReadSoFar'
    BY <1>2, <1>3, <1>4 DEF DataInv, ReadSoFar, dataVars
  <1>9. WriteSoFar'
    BY <1>5, <1>6 DEF DataInv, WriteSoFar, dataVars
  <1>10. EditTellsTruth' /\ ReadKeepsOrder'
    BY <1>5 DEF DataInv, EditTellsTruth, ReadKeepsOrder, dataVars
  <1> QED
    BY <1>7, <1>8, <1>9, <1>10 DEF DataInv

\* A call that throws leaves nothing to be said, whatever is on disk.
LEMMA DataThrown ==
  ASSUME DataInv, phase' = "idle", call' = "none", outcome' = "threw",
         UNCHANGED <<request, typed, edits, view>>,
         file' \in Seq(NativeBlocks), chain' \in Seq(NativeBlocks)
  PROVE  DataInv'
  <1>1. DataTypeOK'
    BY DEF DataInv, DataTypeOK
  <1>2. ReadSoFar'
    BY DEF ReadSoFar, Setting, Counted
  <1>3. WriteSoFar'
    BY DEF WriteSoFar, Setting, Built
  <1>4. EditTellsTruth' /\ ReadKeepsOrder'
    BY DEF EditTellsTruth, ReadKeepsOrder
  <1> QED
    BY <1>1, <1>2, <1>3, <1>4 DEF DataInv

\* The phases of a read are not those of a write.
ReadingPhases == Setting \cup Counted \cup {"count"}
WritingPhases == Setting \cup Built \cup {"first", "delete", "table", "insert", "write"}

\* A step in a read leaves the claims about writes alone.
LEMMA DataReads ==
  ASSUME DataInv, call = "read", call' = "read", phase' \in ReadingPhases,
         UNCHANGED <<file, request, view, edits, outcome>>, DOMAIN typed' = DOMAIN typed,
         chain' \in Seq(NativeBlocks), ReadSoFar'
  PROVE  DataInv'
  <1>1. outcome # "returned"
    BY DEF DataInv, DataTypeOK
  <1>2. DataTypeOK'
    <2>1. phase' # "idle"
      BY DEF ReadingPhases, Setting, Counted
    <2>2. phase' \in {"idle"} \cup Setting \cup (IF call' = "read" THEN Counted \cup {"count"}
                 ELSE Built \cup {"first", "delete", "table", "insert", "write"})
      BY DEF ReadingPhases
    <2> QED
      BY <1>1, <2>1, <2>2 DEF DataInv, DataTypeOK
  <1>3. WriteSoFar'
    BY DEF WriteSoFar, ReadingPhases, Setting, Counted, Built
  <1>4. EditTellsTruth' /\ ReadKeepsOrder'
    BY <1>1 DEF EditTellsTruth, ReadKeepsOrder
  <1> QED
    BY <1>2, <1>3, <1>4 DEF DataInv

\* And a step in a write those about reads.
LEMMA DataWrites ==
  ASSUME DataInv, call = "write", call' = "write", phase' \in WritingPhases,
         UNCHANGED <<file, request, view, edits, outcome, typed>>,
         chain' \in Seq(NativeBlocks), WriteSoFar'
  PROVE  DataInv'
  <1>1. outcome # "returned"
    BY DEF DataInv, DataTypeOK
  <1>2. DataTypeOK'
    <2>1. phase' # "idle"
      BY DEF WritingPhases, Setting, Built
    <2>2. phase' \in {"idle"} \cup Setting \cup (IF call' = "read" THEN Counted \cup {"count"}
                 ELSE Built \cup {"first", "delete", "table", "insert", "write"})
      BY DEF WritingPhases
    <2> QED
      BY <1>1, <2>1, <2>2 DEF DataInv, DataTypeOK
  <1>3. ReadSoFar'
    BY DEF ReadSoFar, WritingPhases, Setting, Counted, Built
  <1>4. EditTellsTruth' /\ ReadKeepsOrder'
    BY <1>1 DEF EditTellsTruth, ReadKeepsOrder
  <1> QED
    BY <1>2, <1>3, <1>4 DEF DataInv

-----------------------------------------------------------------------------
(* A call begins.                                                          *)

\* A new call has done nothing yet.
LEMMA DataBegins ==
  ASSUME DataInv, NEW kind \in {"read", "write"}, Begin(kind), view' = NoView,
         request' \in [order : {"grouped", "ordered"}, blocks : Seq(JavaBlocks)],
         edits' \in Nat, kind = "write" => edits' > 0
  PROVE  DataInv'
  <1>1. /\ call' = kind /\ phase' = "path" /\ outcome' = "none" /\ cursor' = 1 /\ pass' = 1
        /\ chain' = <<>> /\ typed' = [k \in Kinds \cup {"streaminfo"} |-> <<>>] /\ file' = file
    BY DEF Begin
  <1>2. DataTypeOK'
    BY <1>1 DEF DataInv, DataTypeOK, Setting
  <1>3. ReadSoFar'
    BY <1>1 DEF ReadSoFar, Setting, Counted
  <1>4. WriteSoFar'
    BY <1>1 DEF WriteSoFar, Setting, Built
  <1>5. EditTellsTruth' /\ ReadKeepsOrder'
    BY <1>1 DEF EditTellsTruth, ReadKeepsOrder
  <1> QED
    BY <1>2, <1>3, <1>4, <1>5 DEF DataInv

\* What an edit session may set, and the blocks of a request.
LEMMA ValuesTyped ==
  Comments \subseteq CommentMaps /\ Samples \subseteq JavaBlocks
  <1>1. ASSUME NEW c \in Comments PROVE c \in CommentMaps
    <2> DEFINE K == DOMAIN c
    <2>1. K \in SUBSET {"A", "B"} /\ c \in [K -> Seq(Nat)]
      BY ValuesAssumption
    <2> HIDE DEF K
    <2> QED
      BY <2>1 DEF CommentMaps
  <1> QED
    BY <1>1, ValuesAssumption DEF JavaBlocks, Blocks

\* What the editor may be asked to write.
LEMMA RequestsTyped ==
  ASSUME NEW bs \in Requests
  PROVE  bs \in Seq(JavaBlocks)
  <1>1. PICK n \in 0..MaxBlocks : bs \in [1..n -> Samples]
    BY DEF Requests
  <1>2. n \in Nat /\ bs \in [1..n -> JavaBlocks]
    BY <1>1, BoundsAssumption, ValuesTyped
  <1> QED
    BY <1>2

\* What an edit session makes of blocks of Java.
LEMMA EditsTyped ==
  ASSUME NEW bs \in Seq(JavaBlocks)
  PROVE  /\ \A c \in Comments : SetComments(bs, c) \in Seq(JavaBlocks)
         /\ RemovePictures(bs) \in Seq(JavaBlocks)
         /\ Append(bs, Block("picture", 2)) \in Seq(JavaBlocks)
  <1>1. Block("picture", 2) \in JavaBlocks
    BY KindNames DEF Block, JavaBlocks, Blocks
  <1>2. Without("vorbis", bs) \in Seq(JavaBlocks) /\ RemovePictures(bs) \in Seq(JavaBlocks)
    BY WithoutTyped DEF RemovePictures
  <1>3. ASSUME NEW c \in Comments PROVE SetComments(bs, c) \in Seq(JavaBlocks)
    <2> DEFINE b == Block("vorbis", c)
               i == SelectInSeq(bs, LAMBDA x : x.kind = "vorbis")
    <2>1. b \in JavaBlocks
      BY ValuesTyped DEF Block, JavaBlocks, Blocks
    <2>2. SetComments(bs, c) = IF DOMAIN c = {} THEN Without("vorbis", bs)
                               ELSE IF CountOf("vorbis", bs) = 0 THEN <<b>> \o bs
                               ELSE [bs EXCEPT ![i] = b]
      BY DEF SetComments, SelectInSeq
    <2> HIDE DEF b, i
    <2>3. bs \in [1..Len(bs) -> JavaBlocks] /\ Len(bs) \in Nat
      OBVIOUS
    <2>4. [bs EXCEPT ![i] = b] \in [1..Len(bs) -> JavaBlocks]
      BY <2>1, <2>3
    <2>5. [bs EXCEPT ![i] = b] \in Seq(JavaBlocks) /\ <<b>> \o bs \in Seq(JavaBlocks)
      BY <2>1, <2>3, <2>4
    <2> QED
      BY <1>2, <2>2, <2>5
  <1> QED
    BY <1>1, <1>2, <1>3

\* A read or a write begins.
LEMMA CallsBegin ==
  ASSUME DataInv, BeginRead \/ Replace \/ Edit
  PROVE  DataInv'
  <1>1. request \in [order : {"grouped", "ordered"}, blocks : Seq(JavaBlocks)] /\ edits \in Nat
    BY DEF DataInv, DataTypeOK
  <1>2. CASE BeginRead
    BY <1>1, <1>2, DataBegins DEF BeginRead
  <1>3. ASSUME NEW o \in {"grouped", "ordered"}, NEW bs \in Seq(JavaBlocks), BeginWrite(o, bs)
        PROVE  DataInv'
    <2>1. /\ Begin("write") /\ view' = NoView
          /\ request' = [order |-> o, blocks |-> bs] /\ edits' = edits + 1
      BY <1>3 DEF BeginWrite
    <2>2. request' \in [order : {"grouped", "ordered"}, blocks : Seq(JavaBlocks)]
      BY <2>1
    <2>3. edits' \in Nat /\ edits' > 0
      BY <1>1, <2>1
    <2> QED
      BY <2>1, <2>2, <2>3, DataBegins
  <1>4. CASE Replace
    BY <1>3, <1>4, RequestsTyped DEF Replace
  <1>5. CASE Edit
    <2>1. view \in Seq(JavaBlocks)
      BY <1>5 DEF Edit, DataInv, DataTypeOK
    <2>2. PICK bs \in {SetComments(view, c) : c \in Comments} \cup {RemovePictures(view)}
                        \cup {Append(view, Block("picture", 2))} : BeginWrite("ordered", bs)
      BY <1>5 DEF Edit
    <2>3. bs \in Seq(JavaBlocks)
      BY <2>1, <2>2, EditsTyped
    <2> QED
      BY <1>3, <2>2, <2>3
  <1> QED
    BY <1>2, <1>4, <1>5

\* Path, chain and iterator.
LEMMA SetupData ==
  ASSUME DataInv, SetupStep
  PROVE  DataInv'
  <1>1. /\ phase \in Setting /\ DataTypeOK /\ ReadSoFar /\ WriteSoFar
        /\ file \in Seq(NativeBlocks) /\ chain \in Seq(NativeBlocks)
    BY DEF SetupStep, Setup, Setting, DataInv, DataTypeOK
  <1>2. call \in {"read", "write"}
    BY <1>1 DEF DataTypeOK, Setting
  <1>3. CASE /\ phase = "read" => file # <<>>
             /\ phase' = AfterSetup[phase]
             /\ chain' = IF phase = "read" THEN file ELSE chain
             /\ UNCHANGED <<file, call, place, slots, pending, request, typed, order, view, outcome, edits>>
    <2>1. phase' = IF phase = "path" THEN "chain" ELSE IF phase = "chain" THEN "read"
                   ELSE IF phase = "read" THEN "iterator"
                   ELSE IF call = "read" THEN "count" ELSE "first"
      BY <1>1, <1>3 DEF AfterSetup, Setting
    <2>2. chain' \in Seq(NativeBlocks) /\ cursor' = cursor /\ pass' = pass
      BY <1>1, <1>3 DEF place
    <2>3. CASE call = "read"
      <3>1. phase' \in ReadingPhases
        BY <1>1, <2>1, <2>3 DEF ReadingPhases, Setting
      <3>2. ReadSoFar'
        BY <1>1, <1>3, <2>1, <2>2, <2>3 DEF ReadSoFar, Setting, Counted
      <3> QED
        BY <1>3, <2>2, <2>3, <3>1, <3>2, DataReads
    <2>4. CASE call = "write"
      <3>1. phase' \in WritingPhases
        BY <1>1, <2>1, <2>4 DEF WritingPhases, Setting
      <3>2. WriteSoFar'
        BY <1>1, <1>3, <2>1, <2>2, <2>4 DEF WriteSoFar, Setting, Built
      <3> QED
        BY <1>3, <2>2, <2>4, <3>1, <3>2, DataWrites
    <2> QED
      BY <1>2, <2>3, <2>4
  <1>4. CASE Return("threw") /\ UNCHANGED <<file, slots, pending, chain, view>>
    BY <1>1, <1>4, DataThrown DEF Return
  <1> QED
    BY <1>3, <1>4 DEF SetupStep

\* A call that has built no table gives up.
LEMMA GivingUpData ==
  ASSUME DataInv, GiveUp
  PROVE  DataInv'
  BY DataThrown DEF GiveUp, Return, DataInv, DataTypeOK

-----------------------------------------------------------------------------
(* Steps of a write.                                                       *)

\* The call to which the phases of a write belong.
LEMMA WritingCall ==
  ASSUME DataInv, phase \in Built \cup {"first", "delete", "table", "insert", "write"}
  PROVE  /\ call = "write" /\ view = NoView /\ edits > 0 /\ DataTypeOK /\ WriteSoFar
         /\ Wanted \in Seq(JavaBlocks) /\ Len(Wanted) \in Nat /\ DOMAIN Wanted = 1..Len(Wanted)
  <1>1. call = "write"
    BY DEF DataInv, DataTypeOK, Built, Setting, Counted
  <1>2. Wanted \in Seq(JavaBlocks)
    BY WantedTyped DEF DataInv, DataTypeOK, Wanted
  <1> QED
    BY <1>1, <1>2 DEF DataInv, DataTypeOK

\* STREAMINFO comes first.
LEMMA FirstData ==
  ASSUME DataInv, FirstBlock
  PROVE  DataInv'
  <1>1. CASE GiveUp
    BY <1>1, GivingUpData
  <1>2. CASE chain[1].kind = "streaminfo" /\ phase' = "delete"
             /\ UNCHANGED <<call, place, memory, data, outcome>>
    <2>1. phase = "first" /\ call = "write" /\ WriteSoFar /\ chain \in Seq(NativeBlocks)
      BY WritingCall DEF FirstBlock, DataInv, DataTypeOK
    <2>2. chain # <<>>
      BY <2>1 DEF WriteSoFar
    <2>3. chain[1] \in NativeBlocks
      BY <2>1, <2>2
    <2>4. chain[1] = StreamInfo
      BY <1>2, <2>3, BlockKinds
    <2>5. chain' = chain /\ cursor' = cursor
      BY <1>2 DEF data, place
    <2>6. WriteSoFar'
      BY <1>2, <2>1, <2>2, <2>4, <2>5 DEF WriteSoFar, Setting, Built
    <2>7. phase' \in WritingPhases
      BY <1>2 DEF WritingPhases
    <2> QED
      BY <1>2, <2>1, <2>5, <2>6, <2>7, DataWrites DEF data
  <1> QED
    BY <1>1, <1>2 DEF FirstBlock

\* The old blocks after it go, until none is left.
LEMMA DeleteData ==
  ASSUME DataInv, DeleteBlock
  PROVE  DataInv'
  <1>1. CASE GiveUp
    BY <1>1, GivingUpData
  <1>2. /\ phase = "delete" /\ call = "write" /\ WriteSoFar /\ chain \in Seq(NativeBlocks)
        /\ chain # <<>> /\ chain[1] = StreamInfo /\ cursor = 1
    BY WritingCall DEF DeleteBlock, DataInv, DataTypeOK, WriteSoFar
  <1>3. CASE Len(chain) > 1 /\ chain' = RemoveAt(chain, 2)
             /\ UNCHANGED <<call, phase, place, memory, file, request, typed, order, view, outcome, edits>>
    <2>1. chain' = SubSeq(chain, 1, 1) \o SubSeq(chain, 3, Len(chain))
      BY <1>3 DEF RemoveAt
    <2>2. SubSeq(chain, 1, 1) \in Seq(NativeBlocks) /\ Len(SubSeq(chain, 1, 1)) = 1
          /\ SubSeq(chain, 1, 1)[1] = StreamInfo
      BY <1>2, <1>3
    <2>3. SubSeq(chain, 3, Len(chain)) \in Seq(NativeBlocks)
      BY <1>2, <1>3
    <2>4. chain' \in Seq(NativeBlocks) /\ chain' # <<>> /\ chain'[1] = StreamInfo
      <3>1. ASSUME NEW a \in Seq(NativeBlocks), NEW b \in Seq(NativeBlocks), Len(a) = 1
            PROVE  /\ a \o b \in Seq(NativeBlocks) /\ Len(a \o b) = 1 + Len(b) /\ Len(b) \in Nat
                   /\ (a \o b)[1] = a[1]
        <4>1. Len(b) \in Nat /\ a \o b \in Seq(NativeBlocks) /\ Len(a \o b) = Len(a) + Len(b)
          OBVIOUS
        <4>2. 1 \in DOMAIN a
          BY <3>1
        <4>3. (a \o b)[1] = a[1]
          BY <4>2
        <4> QED
          BY <3>1, <4>1, <4>3
      <3>2. /\ chain' \in Seq(NativeBlocks) /\ Len(chain') # 0 /\ chain'[1] = StreamInfo
        BY <2>1, <2>2, <2>3, <3>1
      <3> QED
        BY <3>2
    <2>5. WriteSoFar'
      BY <1>2, <1>3, <2>4 DEF WriteSoFar, Setting, Built, place
    <2>6. phase' \in WritingPhases
      BY <1>2, <1>3 DEF WritingPhases
    <2> QED
      BY <1>2, <1>3, <2>4, <2>5, <2>6, DataWrites
  <1>4. CASE Len(chain) = 1 /\ phase' = "table" /\ UNCHANGED <<call, place, memory, data, outcome>>
    <2>1. chain = <<StreamInfo>> /\ chain' = chain /\ cursor' = cursor
      BY <1>2, <1>4 DEF data, place
    <2>2. WriteSoFar'
      BY <1>2, <1>4, <2>1 DEF WriteSoFar, Setting, Built
    <2>3. phase' \in WritingPhases
      BY <1>4 DEF WritingPhases
    <2> QED
      BY <1>2, <1>4, <2>1, <2>2, <2>3, DataWrites DEF data
  <1> QED
    BY <1>1, <1>3, <1>4 DEF DeleteBlock

\* The table is as long as the request.
LEMMA NewTableData ==
  ASSUME DataInv, NewTable
  PROVE  DataInv'
  <1>1. CASE GiveUp
    BY <1>1, GivingUpData
  <1>2. CASE slots' = [i \in DOMAIN Wanted |-> "null"] /\ phase' = "element"
             /\ UNCHANGED <<call, place, pending, data, outcome>>
    <2>1. phase = "table" /\ call = "write" /\ WriteSoFar /\ Len(Wanted) \in Nat
          /\ chain \in Seq(NativeBlocks)
      BY WritingCall DEF NewTable, DataInv, DataTypeOK
    <2>2. Wanted' = Wanted /\ chain' = chain /\ cursor' = cursor /\ cursor = 1 /\ chain = <<StreamInfo>>
      BY <1>2, <2>1 DEF Wanted, data, place, WriteSoFar
    <2>3. cursor' \in 1..(Len(Wanted') + 1) /\ DOMAIN slots' = DOMAIN Wanted'
      BY <1>2, <2>1, <2>2
    <2>4. WriteSoFar'
      BY <1>2, <2>2, <2>3 DEF WriteSoFar, Setting, Built
    <2>5. phase' \in WritingPhases
      BY <1>2 DEF WritingPhases, Built
    <2> QED
      BY <1>2, <2>1, <2>2, <2>4, <2>5, DataWrites DEF data
  <1> QED
    BY <1>1, <1>2 DEF NewTable

\* While the table is built, the chain waits with its STREAMINFO.
LEMMA BuildingData ==
  ASSUME DataInv, phase \in Built, phase' \in Built, UNCHANGED <<call, data, outcome>>,
         DOMAIN slots' = DOMAIN slots, cursor' \in 1..(Len(Wanted) + 1),
         phase' \in {"build", "length", "unwind"} => cursor' <= Len(Wanted)
  PROVE  DataInv'
  <1>1. call = "write" /\ WriteSoFar /\ chain \in Seq(NativeBlocks)
    BY WritingCall DEF DataInv, DataTypeOK
  <1>2. Wanted' = Wanted /\ chain' = chain /\ chain = <<StreamInfo>> /\ DOMAIN slots' = DOMAIN Wanted
    BY <1>1 DEF Wanted, data, WriteSoFar
  <1>3. WriteSoFar'
    BY <1>2 DEF WriteSoFar, Setting, Built
  <1>4. phase' \in WritingPhases
    BY DEF WritingPhases
  <1> QED
    BY <1>1, <1>2, <1>3, <1>4, DataWrites DEF data

\* The steps of the builders.
LEMMA BuildersData ==
  ASSUME DataInv, OpenElement \/ BuilderStep \/ BuilderFails \/ Publish \/ CheckLength \/ Unwind
  PROVE  DataInv'
  <1>1. phase \in Built
    BY DEF OpenElement, BuilderStep, BuilderFails, Publish, CheckLength, Unwind, Built
  <1>2. /\ Len(Wanted) \in Nat /\ cursor \in 1..(Len(Wanted) + 1)
        /\ phase \in {"build", "length", "unwind"} => cursor <= Len(Wanted)
    BY <1>1, WritingCall DEF WriteSoFar
  <1>3. cursor \in Nat \ {0}
    BY <1>2
  <1>4. CASE OpenElement
    <2>1. cursor <= Len(Wanted) /\ cursor' = cursor /\ slots' = slots /\ phase' \in {"build", "failed"}
          /\ UNCHANGED <<call, data, outcome>>
      BY <1>4 DEF OpenElement
    <2> QED
      BY <1>1, <1>2, <2>1, BuildingData DEF Built
  <1>5. CASE BuilderStep
    <2>1. cursor' = cursor /\ slots' = slots /\ phase' = phase /\ UNCHANGED <<call, data, outcome>>
      BY <1>5 DEF BuilderStep
    <2> QED
      BY <1>1, <1>2, <2>1, BuildingData
  <1>6. CASE BuilderFails
    <2>1. /\ phase = "build" /\ phase' = "unwind" /\ cursor' = cursor /\ slots' = slots
          /\ UNCHANGED <<call, data, outcome>>
      BY <1>6 DEF BuilderFails, place
    <2> QED
      BY <1>1, <1>2, <2>1, BuildingData DEF Built
  <1>7. CASE Publish
    <2>1. /\ phase = "build" /\ phase' = "length" /\ cursor' = cursor
          /\ slots' = [slots EXCEPT ![cursor] = ptr["block"]] /\ UNCHANGED <<call, data, outcome>>
      BY <1>7 DEF Publish, place
    <2> QED
      BY <1>1, <1>2, <2>1, BuildingData DEF Built
  <1>8. CASE CheckLength
    <2>1. /\ phase = "length" /\ UNCHANGED <<call, data, outcome>>
          /\ \/ phase' = "element" /\ cursor' = cursor + 1 /\ slots' = slots
             \/ /\ phase' = "unwind" /\ cursor' = cursor
                /\ slots' = slots \/ slots' = [slots EXCEPT ![cursor] = "null"]
      BY <1>8 DEF CheckLength
    <2>2. cursor + 1 \in 1..(Len(Wanted) + 1)
      BY <1>2, <1>3, <2>1
    <2>3. DOMAIN slots' = DOMAIN slots
      BY <2>1
    <2> QED
      BY <1>1, <1>2, <2>1, <2>2, <2>3, BuildingData DEF Built
  <1>9. CASE Unwind
    <2>1. /\ phase' = "failed" /\ cursor' = cursor /\ slots' = slots
          /\ UNCHANGED <<call, data, outcome>>
      BY <1>9 DEF Unwind, place
    <2> QED
      BY <1>1, <1>2, <2>1, BuildingData DEF Built
  <1> QED
    BY <1>4, <1>5, <1>6, <1>7, <1>8, <1>9

\* A table that could not be built ends the call.
LEMMA TableFailsData ==
  ASSUME DataInv, TableFails
  PROVE  DataInv'
  <1>1. /\ call' = "none" /\ phase' = "idle" /\ outcome' = "threw"
        /\ UNCHANGED <<request, typed, edits, file, chain, view>>
    BY DEF TableFails, Return, FailureOutcome
  <1> QED
    BY <1>1, DataThrown DEF DataInv, DataTypeOK

\* All blocks are built, and none is in the chain.
LEMMA AllBuiltData ==
  ASSUME DataInv, AllBuilt
  PROVE  DataInv'
  <1>1. /\ phase = "element" /\ phase' = "insert" /\ cursor' = 1
        /\ UNCHANGED <<call, memory, data, outcome>>
    BY DEF AllBuilt
  <1>2. /\ call = "write" /\ WriteSoFar /\ chain \in Seq(NativeBlocks)
        /\ Wanted \in Seq(JavaBlocks) /\ Len(Wanted) \in Nat
    BY <1>1, WritingCall DEF Built, DataInv, DataTypeOK
  <1>3. Wanted' = Wanted /\ chain' = chain /\ chain = <<StreamInfo>> /\ DOMAIN slots' = DOMAIN Wanted
    BY <1>1, <1>2 DEF Wanted, data, memory, WriteSoFar, Built
  <1>4. NewChain(0)' = <<StreamInfo>>
    <2>1. /\ NewChain(0) \in Seq(NativeBlocks) /\ Len(NewChain(0)) = 0 + 1
          /\ NewChain(0)[1] = StreamInfo
      <3>1. 0 \in 0..Len(Wanted)
        BY <1>2
      <3> QED
        BY <1>2, <3>1, NewChainTyped
    <2>2. ASSUME NEW s \in Seq(NativeBlocks), Len(s) = 1 PROVE s = <<s[1]>>
      BY <2>2
    <2>3. NewChain(0) = <<StreamInfo>>
      BY <2>1, <2>2
    <2> QED
      BY <1>3, <2>3 DEF NewChain
  <1>5. WriteSoFar'
    <2>1. cursor' - 1 = 0 /\ cursor' \in 1..(Len(Wanted') + 1)
      BY <1>1, <1>2, <1>3
    <2>2. phase' = "insert" => cursor' \in 1..(Len(Wanted') + 1) /\ chain' = NewChain(cursor - 1)'
      BY <1>1, <1>3, <1>4, <2>1
    <2> QED
      BY <1>1, <1>3, <2>2 DEF WriteSoFar, Setting, Built
  <1>6. phase' \in WritingPhases
    BY <1>1 DEF WritingPhases
  <1> QED
    BY <1>1, <1>2, <1>3, <1>5, <1>6, DataWrites DEF data

\* The table is as long as what it is built from.
LEMMA TableLength ==
  ASSUME DataInv, MemoryInv, phase = "insert"
  PROVE  slots \in Seq({"null", "live"}) /\ Len(slots) = Len(Wanted)
  <1>1. Len(Wanted) \in Nat /\ DOMAIN Wanted = 1..Len(Wanted) /\ DOMAIN slots = DOMAIN Wanted
    BY WritingCall DEF WriteSoFar
  <1>2. slots \in [1..Len(Wanted) -> {"null", "live"}]
    BY <1>1 DEF MemoryInv, MemoryTypeOK
  <1> QED
    BY <1>1, <1>2

\* A block goes from the table to the chain.
LEMMA InsertData ==
  ASSUME DataInv, MemoryInv, InsertBlock
  PROVE  DataInv'
  <1>1. /\ phase = "insert" /\ cursor <= Len(slots) /\ call = "write" /\ WriteSoFar
        /\ chain \in Seq(NativeBlocks) /\ Wanted \in Seq(JavaBlocks) /\ Len(Wanted) \in Nat
        /\ DOMAIN Wanted = 1..Len(Wanted)
    BY WritingCall DEF InsertBlock, DataInv, DataTypeOK
  <1>2. /\ Len(slots) = Len(Wanted) /\ DOMAIN slots = DOMAIN Wanted
        /\ cursor \in 1..(Len(Wanted) + 1) /\ chain = NewChain(cursor - 1)
    BY <1>1, TableLength DEF WriteSoFar
  <1>3. CASE /\ chain' = Append(chain, ToNative(Wanted[cursor]))
             /\ slots' = [slots EXCEPT ![cursor] = "null"]
             /\ cursor' = cursor + 1
             /\ UNCHANGED <<call, phase, pc, pass, ptr, fault, pending, file, request, typed, order, view, outcome, edits>>
    <2>1. /\ cursor \in 1..Len(Wanted) /\ cursor - 1 \in 0..Len(Wanted) /\ cursor \in 0..Len(Wanted)
          /\ cursor - 1 + 1 = cursor /\ cursor + 1 - 1 = cursor
          /\ cursor + 1 \in 1..(Len(Wanted) + 1)
      BY <1>1, <1>2
    <2>2. Wanted' = Wanted
      BY <1>3 DEF Wanted
    <2>3. ToNative(Wanted[cursor]) \in NativeBlocks
      <3>1. Wanted[cursor] \in JavaBlocks
        BY <1>1, <2>1
      <3> QED
        BY <3>1, ToNativeInverts
    <2> DEFINE old == NewChain(cursor - 1)
               new == NewChain(cursor)
               next == ToNative(Wanted[cursor])
    <2>4. /\ old \in Seq(NativeBlocks) /\ Len(old) = cursor /\ old[1] = StreamInfo
          /\ \A i \in 1..(cursor - 1) : old[i + 1] = ToNative(Wanted[i])
      BY <1>1, <2>1, NewChainTyped
    <2>5. /\ new \in Seq(NativeBlocks) /\ Len(new) = cursor + 1 /\ new[1] = StreamInfo
          /\ \A i \in 1..cursor : new[i + 1] = ToNative(Wanted[i])
      BY <1>1, <2>1, NewChainTyped
    <2> HIDE DEF old, new
    <2>6. Append(old, next) = new
      <3> DEFINE s == Append(old, next)
      <3>1. /\ s \in Seq(NativeBlocks) /\ Len(s) = cursor + 1 /\ s[cursor + 1] = next
            /\ \A i \in 1..cursor : s[i] = old[i]
        BY <2>1, <2>3, <2>4
      <3> HIDE DEF s
      <3>2. ASSUME NEW i \in 1..(cursor + 1) PROVE s[i] = new[i]
        <4>1. i = 1 \/ i = cursor + 1 \/ (i \in 1..cursor /\ i - 1 \in 1..(cursor - 1) /\ i - 1 + 1 = i)
          BY <2>1
        <4>2. CASE i = 1
          <5>1. 1 \in 1..cursor
            BY <2>1
          <5> QED
            BY <2>4, <2>5, <3>1, <4>2, <5>1
        <4>3. CASE i = cursor + 1
          <5>1. cursor \in 1..cursor
            BY <2>1
          <5> QED
            BY <2>5, <3>1, <4>3, <5>1
        <4>4. CASE i \in 1..cursor /\ i - 1 \in 1..(cursor - 1) /\ i - 1 + 1 = i
          <5>1. i - 1 \in 1..cursor
            <6>1. cursor \in Nat
              BY <2>1
            <6> QED
              BY <4>4, <6>1
          <5>2. s[i] = old[i - 1 + 1] /\ old[i - 1 + 1] = ToNative(Wanted[i - 1])
            BY <2>4, <3>1, <4>4
          <5>3. new[i - 1 + 1] = ToNative(Wanted[i - 1])
            BY <2>5, <5>1
          <5> QED
            BY <4>4, <5>2, <5>3
        <4> QED
          BY <4>1, <4>2, <4>3, <4>4
      <3>3. s = new
        BY <2>5, <3>1, <3>2
      <3> QED
        BY <3>3 DEF s
    <2>7. chain' \in Seq(NativeBlocks) /\ chain' = new
      BY <1>2, <1>3, <2>5, <2>6 DEF old
    <2>8. NewChain(cursor - 1)' = new
      <3>1. cursor' - 1 = cursor
        BY <1>3, <2>1
      <3> QED
        BY <2>2, <3>1 DEF NewChain, new
    <2>9. DOMAIN slots' = DOMAIN Wanted' /\ cursor' \in 1..(Len(Wanted') + 1)
      BY <1>2, <1>3, <2>1, <2>2
    <2>10. WriteSoFar'
      BY <1>1, <1>3, <2>7, <2>8, <2>9 DEF WriteSoFar, Setting, Built
    <2>11. phase' \in WritingPhases
      BY <1>1, <1>3 DEF WritingPhases
    <2> QED
      BY <1>1, <1>3, <2>7, <2>10, <2>11, DataWrites
  <1>4. CASE Return("threw") /\ UNCHANGED <<file, pending, chain, view>>
    BY <1>4, DataThrown DEF Return, DataInv, DataTypeOK
  <1> QED
    BY <1>3, <1>4 DEF InsertBlock

\* All blocks are in the chain.
LEMMA AllInsertedData ==
  ASSUME DataInv, MemoryInv, AllInserted
  PROVE  DataInv'
  <1>1. /\ phase = "insert" /\ cursor > Len(slots) /\ call = "write" /\ WriteSoFar
        /\ chain \in Seq(NativeBlocks) /\ Wanted \in Seq(JavaBlocks) /\ Len(Wanted) \in Nat
        /\ phase' = "write" /\ UNCHANGED <<call, place, pending, data, outcome>>
    BY WritingCall DEF AllInserted, DataInv, DataTypeOK
  <1>2. /\ Len(slots) = Len(Wanted) /\ cursor \in 1..(Len(Wanted) + 1)
        /\ chain = NewChain(cursor - 1)
    BY <1>1, TableLength DEF WriteSoFar
  <1>3. cursor - 1 = Len(Wanted)
    BY <1>1, <1>2
  <1>4. chain' = chain /\ Wanted' = Wanted /\ chain = NewChain(Len(Wanted))
    BY <1>1, <1>2, <1>3 DEF data, Wanted
  <1>5. chain' = NewChain(Len(Wanted))'
    BY <1>4 DEF NewChain
  <1>6. WriteSoFar'
    BY <1>1, <1>5 DEF WriteSoFar, Setting, Built
  <1>7. phase' \in WritingPhases
    BY <1>1 DEF WritingPhases
  <1> QED
    BY <1>1, <1>4, <1>6, <1>7, DataWrites DEF data

\* The file is written, or the write fails.
LEMMA WriteData ==
  ASSUME DataInv, WriteChain
  PROVE  DataInv'
  <1>1. /\ phase = "write" /\ call = "write" /\ WriteSoFar /\ view = NoView /\ DataTypeOK
        /\ Wanted \in Seq(JavaBlocks)
    BY WritingCall DEF WriteChain
  <1>2. CASE file' \in Written(chain) /\ Return("returned") /\ UNCHANGED <<slots, pending, chain, view>>
    <2>1. file' \in Written(NewChain(Len(Wanted)))
      BY <1>1, <1>2 DEF WriteSoFar
    <2>2. /\ file' \in Seq(NativeBlocks) /\ file'[1] = StreamInfo
          /\ Trimmed(MapBlocks(ToPublic, Tail(file'))) = Trimmed(MapBlocks(Storable, Wanted))
      BY <1>1, <2>1, WrittenIsWanted
    <2>3. /\ call' = "none" /\ phase' = "idle" /\ outcome' = "returned"
          /\ UNCHANGED <<request, typed, edits, chain, view>> /\ Wanted' = Wanted
      BY <1>2 DEF Return, Wanted
    <2>4. DataTypeOK'
      BY <1>1, <2>2, <2>3 DEF DataTypeOK
    <2>5. ReadSoFar' /\ WriteSoFar'
      BY <2>3 DEF ReadSoFar, WriteSoFar, Setting, Counted, Built
    <2>6. EditTellsTruth'
      <3>1. (Trimmed(MapBlocks(ToPublic, Tail(file))) = Trimmed(MapBlocks(Storable, Wanted)))'
        BY <2>2, <2>3 DEF MapBlocks
      <3> QED
        BY <2>2, <3>1 DEF EditTellsTruth
    <2>7. ReadKeepsOrder'
      BY <1>1, <2>3 DEF ReadKeepsOrder
    <2> QED
      BY <2>4, <2>5, <2>6, <2>7 DEF DataInv
  <1>3. CASE file' \in {file, <<>>} /\ Return("threw") /\ UNCHANGED <<slots, pending, chain, view>>
    <2>1. file \in Seq(NativeBlocks) /\ <<>> \in Seq(NativeBlocks)
      BY <1>1 DEF DataTypeOK
    <2>2. file' \in Seq(NativeBlocks)
      BY <1>3, <2>1
    <2> QED
      BY <1>1, <1>3, <2>2, DataThrown DEF Return, DataTypeOK
  <1> QED
    BY <1>2, <1>3 DEF WriteChain

-----------------------------------------------------------------------------
(* Counting blocks.                                                        *)

\* The blocks of a kind among the first n.
SeenAt(k, n) == {j \in 1..n : chain[j].kind = k}

\* They are finitely many, and none before the first.
LEMMA SeenTyped ==
  ASSUME NEW k, NEW n \in Nat
  PROVE  /\ IsFiniteSet(SeenAt(k, n)) /\ Seen(k, n) = Cardinality(SeenAt(k, n))
         /\ Seen(k, n) \in Nat /\ Seen(k, 0) = 0
  <1>1. IsFiniteSet(SeenAt(k, n)) /\ Cardinality(SeenAt(k, n)) \in Nat
    <2> DEFINE ps == SeenAt(k, n)
    <2>1. ps \in SUBSET (1..n)
      BY DEF SeenAt
    <2> HIDE DEF ps
    <2>2. IsFiniteSet(ps) /\ Cardinality(ps) \in Nat
      BY <2>1, FinitePositions
    <2> QED
      BY <2>2 DEF ps
  <1>2. SeenAt(k, 0) = {}
    BY DEF SeenAt
  <1>3. Cardinality(SeenAt(k, 0)) = 0
    BY <1>2, FS_EmptySet
  <1> QED
    BY <1>1, <1>3 DEF Seen, SeenAt

\* One more block counts if it is of the kind.
LEMMA SeenNext ==
  ASSUME NEW k, NEW n \in Nat \ {0}
  PROVE  Seen(k, n) = IF chain[n].kind = k THEN Seen(k, n - 1) + 1 ELSE Seen(k, n - 1)
  <1> DEFINE before == SeenAt(k, n - 1)
             now == SeenAt(k, n)
  <1>1. n - 1 \in Nat /\ n \notin 1..(n - 1) /\ 1..n = (1..(n - 1)) \cup {n}
    OBVIOUS
  <1>2. IsFiniteSet(before) /\ Seen(k, n - 1) = Cardinality(before) /\ Seen(k, n) = Cardinality(now)
    BY <1>1, SeenTyped
  <1>3. n \notin before
    BY <1>1 DEF SeenAt
  <1>4. now = IF chain[n].kind = k THEN before \cup {n} ELSE before
    BY <1>1 DEF SeenAt
  <1> HIDE DEF before, now
  <1>5. Cardinality(before \cup {n}) = Cardinality(before) + 1
    BY <1>2, <1>3, FS_AddElement
  <1> QED
    BY <1>2, <1>4, <1>5

\* Later counts are no smaller.
LEMMA SeenGrows ==
  ASSUME NEW k, NEW n \in Nat, NEW m \in Nat, n <= m
  PROVE  /\ Seen(k, n) <= Seen(k, m)
         /\ (\A j \in (n + 1)..m : chain[j].kind # k) => Seen(k, n) = Seen(k, m)
  <1> DEFINE small == SeenAt(k, n)
             large == SeenAt(k, m)
  <1>1. /\ IsFiniteSet(large) /\ Seen(k, n) = Cardinality(small) /\ Seen(k, m) = Cardinality(large)
    BY SeenTyped
  <1>2. \A j \in 1..n : j \in 1..m
    OBVIOUS
  <1>3. small \in SUBSET large
    BY <1>2 DEF SeenAt
  <1>4. ASSUME \A j \in (n + 1)..m : chain[j].kind # k PROVE small = large
    <2>1. ASSUME NEW j \in large PROVE j \in small
      <3>1. j \in 1..m /\ chain[j].kind = k
        BY <2>1 DEF SeenAt
      <3>2. j \in 1..n \/ j \in (n + 1)..m
        BY <3>1
      <3> QED
        BY <1>4, <3>1, <3>2 DEF SeenAt
    <2> QED
      BY <1>3, <2>1
  <1> HIDE DEF small, large
  <1>5. Cardinality(small) <= Cardinality(large)
    BY <1>1, <1>3, FS_Subset
  <1> QED
    BY <1>1, <1>4, <1>5

\* A block has its place among the blocks of its kind.
LEMMA SeenPlace ==
  ASSUME NEW n \in Nat, NEW i \in 1..n, NEW k, chain[i].kind = k
  PROVE  Seen(k, i) \in 1..Seen(k, n) /\ Seen(k, i) = Seen(k, i - 1) + 1
  <1>1. i \in Nat \ {0} /\ i - 1 \in Nat /\ i <= n
    OBVIOUS
  <1>2. Seen(k, i) = Seen(k, i - 1) + 1
    BY <1>1, SeenNext
  <1>3. Seen(k, i) \in Nat /\ Seen(k, i - 1) \in Nat /\ Seen(k, n) \in Nat
    BY <1>1, SeenTyped
  <1>4. Seen(k, i) <= Seen(k, n)
    BY <1>1, SeenGrows
  <1> QED
    BY <1>2, <1>3, <1>4

\* An array with the blocks so far has those of a longer stretch without more.
LEMMA FilledFurther ==
  ASSUME NEW k, NEW n \in Nat, NEW m \in Nat, n <= m, Filled(k, n),
         \A j \in (n + 1)..m : chain[j].kind # k
  PROVE  Filled(k, m)
  <1>1. Seen(k, n) = Seen(k, m)
    BY SeenGrows
  <1>2. ASSUME NEW i \in 1..m, chain[i].kind = k PROVE i \in 1..n
    <2>1. i \in 1..n \/ i \in (n + 1)..m
      OBVIOUS
    <2> QED
      BY <1>2, <2>1
  <1> QED
    BY <1>1, <1>2 DEF Filled

-----------------------------------------------------------------------------
(* Steps of a read.                                                        *)

\* The call to which the phases of a read belong.
LEMMA ReadingCall ==
  ASSUME DataInv, phase \in Counted \cup {"count"}
  PROVE  /\ call = "read" /\ DataTypeOK /\ ReadSoFar /\ chain \in Seq(NativeBlocks) /\ chain = file
         /\ Len(chain) \in Nat /\ DOMAIN chain = 1..Len(chain)
         /\ DOMAIN typed = Kinds \cup {"streaminfo"}
  <1>1. call = "read"
    BY DEF DataInv, DataTypeOK, Built, Setting, Counted
  <1>2. chain \in Seq(NativeBlocks) /\ ReadSoFar
    BY DEF DataInv, DataTypeOK
  <1> QED
    BY <1>1, <1>2 DEF DataInv, DataTypeOK, ReadSoFar

\* Every kind has its pass, and only one.
LEMMA PassKinds ==
  /\ DOMAIN Passes = 1..8 /\ Len(Passes) = 8
  /\ \A q \in 1..8 : Passes[q] \in Kinds \cup {"streaminfo"}
  /\ \A k \in Kinds \cup {"streaminfo"} : \E q \in 1..8 : Passes[q] = k
  /\ \A q, r \in 1..8 : Passes[q] = Passes[r] => q = r
  BY KindNames DEF Passes

\* Nothing is filled before the first pass.
LEMMA CountData ==
  ASSUME DataInv, CountBlocks
  PROVE  DataInv'
  <1>1. CASE GiveUp
    BY <1>1, GivingUpData
  <1>2. CASE phase' = "convert" /\ UNCHANGED <<call, place, memory, data, outcome>>
    <2>1. /\ phase = "count" /\ call = "read" /\ ReadSoFar /\ chain \in Seq(NativeBlocks)
          /\ chain = file /\ Len(chain) \in Nat /\ DOMAIN typed = Kinds \cup {"streaminfo"}
      BY ReadingCall DEF CountBlocks
    <2>2. pass = 1 /\ cursor = 1 /\ \A k \in DOMAIN typed : typed[k] = <<>>
      BY <2>1 DEF ReadSoFar
    <2>3. pass' = 1 /\ cursor' = 1 /\ typed' = typed /\ chain' = chain
      BY <1>2, <2>2 DEF place, data
    <2>4. \A q \in DOMAIN Passes : Filled(Passes[q], 0)'
      <3>1. ASSUME NEW q \in DOMAIN Passes PROVE Filled(Passes[q], 0)
        <4>1. typed[Passes[q]] = <<>>
          BY <2>1, <2>2, PassKinds
        <4>2. Seen(Passes[q], 0) = 0
          BY SeenTyped
        <4> QED
          BY <4>1, <4>2 DEF Filled
      <3> QED
        BY <2>3, <3>1 DEF Filled, Seen
    <2>5. \A q \in DOMAIN Passes : Passed(q)' = 0
      BY <2>3, PassKinds DEF Passed
    <2>6. pass' \in DOMAIN Passes /\ cursor' \in 1..(Len(chain') + 1)
      BY <2>1, <2>3, PassKinds
    <2>7. \A q \in DOMAIN Passes : Filled(Passes[q], Passed(q))'
      BY <2>4, <2>5 DEF Filled
    <2>8. ReadSoFar'
      BY <1>2, <2>1, <2>3, <2>6, <2>7 DEF ReadSoFar, Setting, Counted, data
    <2>9. phase' \in ReadingPhases
      BY <1>2 DEF ReadingPhases, Counted
    <2> QED
      BY <1>2, <2>1, <2>3, <2>8, <2>9, DataReads DEF data
  <1> QED
    BY <1>1, <1>2 DEF CountBlocks

\* The next block of a pass is the least that is left; without one, the pass is over.
LEMMA NextData ==
  ASSUME DataInv, NextBlock
  PROVE  DataInv'
  <1> DEFINE kind == Passes[pass]
             matches == {i \in cursor..Len(chain) : chain[i].kind = kind}
  <1>1. CASE GiveUp
    BY <1>1, GivingUpData
  <1>2. /\ phase = "convert" /\ call = "read" /\ ReadSoFar /\ chain \in Seq(NativeBlocks)
        /\ chain = file /\ Len(chain) \in Nat /\ DOMAIN typed = Kinds \cup {"streaminfo"}
    BY ReadingCall DEF NextBlock, Counted
  <1>3. /\ pass \in 1..8 /\ cursor \in 1..(Len(chain) + 1)
        /\ \A q \in 1..8 : Filled(Passes[q], Passed(q))
    BY <1>2, PassKinds DEF ReadSoFar
  <1>4. pass \in Nat /\ cursor \in Nat \ {0} /\ cursor - 1 \in Nat /\ cursor - 1 <= Len(chain)
        /\ \A q \in 1..8 : q \in Int
    BY <1>2, <1>3
  <1>5. Filled(kind, cursor - 1)
    BY <1>3, <1>4 DEF Passed
  <1>6. ASSUME typed' = typed, chain' = chain
        PROVE  \A k, n : Filled(k, n)' <=> Filled(k, n)
    BY <1>6 DEF Filled, Seen
  <1>7. CASE /\ matches # {} /\ cursor' = CHOOSE i \in matches : \A j \in matches : i <= j
             /\ phase' = "converting" /\ UNCHANGED <<call, pass, memory, data, outcome>>
    <2>1. cursor' \in matches /\ \A j \in matches : cursor' <= j
      <3>1. matches \in SUBSET Nat
        BY <1>2, <1>4
      <3> HIDE DEF matches
      <3>2. \E i \in matches : \A j \in matches : i <= j
        BY <1>7, <3>1, LeastExists
      <3> QED
        BY <1>7, <3>2
    <2>2. /\ cursor' \in cursor..Len(chain) /\ chain[cursor'].kind = kind
          /\ \A j \in cursor..Len(chain) : chain[j].kind = kind => cursor' <= j
      BY <2>1
    <2>3. /\ cursor' \in Nat /\ cursor' - 1 \in Nat /\ cursor - 1 <= cursor' - 1
          /\ cursor' \in 1..(Len(chain) + 1) /\ cursor' <= Len(chain)
          /\ \A j \in (cursor - 1 + 1)..(cursor' - 1) : j \in cursor..Len(chain) /\ ~ (cursor' <= j)
      <3>1. ASSUME NEW c \in Nat \ {0}, NEW n \in Nat, NEW d \in c..n
            PROVE  /\ d \in Nat /\ d - 1 \in Nat /\ c - 1 <= d - 1 /\ d \in 1..(n + 1) /\ d <= n
                   /\ \A j \in (c - 1 + 1)..(d - 1) : j \in c..n /\ ~ (d <= j)
        <4>1. d \in Int /\ c <= d /\ d <= n
          OBVIOUS
        <4> QED
          BY <4>1
      <3> QED
        BY <1>2, <1>4, <2>2, <3>1
    <2>4. ASSUME NEW j \in (cursor - 1 + 1)..(cursor' - 1) PROVE chain[j].kind # kind
      BY <2>2, <2>3
    <2> HIDE DEF kind, matches
    <2>5. Filled(kind, cursor' - 1)
      BY <1>4, <1>5, <2>3, <2>4, FilledFurther
    <2>6. typed' = typed /\ chain' = chain /\ pass' = pass
      BY <1>7 DEF data
    <2>7. ASSUME NEW q \in 1..8 PROVE Filled(Passes[q], Passed(q)')
      <3>1. Passed(q)' = IF q = pass THEN cursor' - 1 ELSE Passed(q)
        BY <1>4, <2>6 DEF Passed
      <3> QED
        BY <1>3, <2>5, <3>1 DEF kind
    <2>8. ASSUME NEW q \in DOMAIN Passes PROVE Filled(Passes[q], Passed(q))'
      <3>1. Filled(Passes[q], Passed(q)')
        BY <2>7, PassKinds
      <3> QED
        BY <2>6, <3>1 DEF Filled, Seen
    <2>9. /\ pass' \in DOMAIN Passes /\ cursor' \in 1..(Len(chain') + 1) /\ cursor' <= Len(chain')
          /\ chain'[cursor'].kind = Passes[pass']
      BY <1>3, <2>2, <2>3, <2>6, PassKinds DEF kind
    <2>10. ReadSoFar'
      BY <1>2, <1>7, <2>6, <2>8, <2>9 DEF ReadSoFar, Setting, Counted, data
    <2>11. phase' \in ReadingPhases
      BY <1>7 DEF ReadingPhases, Counted
    <2> QED
      BY <1>2, <1>7, <2>6, <2>10, <2>11, DataReads DEF data
  <1>8. ASSUME matches = {} PROVE Filled(kind, Len(chain))
    <2>1. ASSUME NEW j \in (cursor - 1 + 1)..Len(chain) PROVE chain[j].kind # kind
      <3>1. j \in cursor..Len(chain)
        BY <1>4
      <3> QED
        BY <1>8, <3>1
    <2> HIDE DEF kind, matches
    <2> QED
      BY <1>2, <1>4, <1>5, <2>1, FilledFurther
  <1>9. CASE /\ matches = {} /\ pass < Len(Passes) /\ pass' = pass + 1 /\ cursor' = 1
             /\ UNCHANGED <<call, phase, pc, memory, data, outcome>>
    <2> HIDE DEF kind, matches
    <2>1. typed' = typed /\ chain' = chain
      BY <1>9 DEF data
    <2>2. pass + 1 \in 1..8
      BY <1>3, <1>9, PassKinds
    <2>3. ASSUME NEW q \in 1..8 PROVE Filled(Passes[q], Passed(q)')
      <3>1. CASE q < pass
        <4>1. Passed(q)' = Passed(q)
          BY <1>4, <1>9, <2>1, <3>1 DEF Passed
        <4> QED
          BY <1>3, <4>1
      <3>2. CASE q = pass
        <4>1. Passed(q)' = Len(chain)
          BY <1>4, <1>9, <2>1, <3>2 DEF Passed
        <4> QED
          BY <1>8, <1>9, <3>2, <4>1 DEF kind
      <3>3. CASE q > pass
        <4>1. Passed(q)' = 0 /\ Passed(q) = 0
          BY <1>4, <1>9, <2>1, <3>3 DEF Passed
        <4> QED
          BY <1>3, <4>1
      <3> QED
        BY <1>4, <3>1, <3>2, <3>3
    <2>4. ASSUME NEW q \in DOMAIN Passes PROVE Filled(Passes[q], Passed(q))'
      <3>1. Filled(Passes[q], Passed(q)')
        BY <2>3, PassKinds
      <3> QED
        BY <2>1, <3>1 DEF Filled, Seen
    <2>5. pass' \in DOMAIN Passes /\ cursor' \in 1..(Len(chain') + 1) /\ phase' = "convert"
      BY <1>2, <1>9, <2>1, <2>2, PassKinds
    <2>6. ReadSoFar'
      BY <1>2, <1>9, <2>1, <2>4, <2>5 DEF ReadSoFar, Setting, Counted, data
    <2>7. phase' \in ReadingPhases
      BY <2>5 DEF ReadingPhases, Counted
    <2> QED
      BY <1>2, <1>9, <2>1, <2>6, <2>7, DataReads DEF data
  <1>10. CASE /\ matches = {} /\ pass = Len(Passes) /\ phase' = "order"
              /\ UNCHANGED <<call, place, memory, data, outcome>>
    <2> HIDE DEF kind, matches
    <2>1. typed' = typed /\ chain' = chain
      BY <1>10 DEF data
    <2>2. ASSUME NEW k \in DOMAIN typed PROVE Filled(k, Len(chain))
      <3>1. PICK q \in 1..8 : Passes[q] = k
        BY <1>2, PassKinds
      <3>2. CASE q = pass
        BY <1>8, <1>10, <3>1, <3>2 DEF kind
      <3>3. CASE q # pass
        <4>1. q < pass
          BY <1>10, <3>3, PassKinds
        <4>2. Passed(q) = Len(chain)
          BY <4>1 DEF Passed
        <4> QED
          BY <1>3, <3>1, <4>2
      <3> QED
        BY <3>2, <3>3
    <2>3. ASSUME NEW k \in DOMAIN typed' PROVE Filled(k, Len(chain))'
      <3>1. Filled(k, Len(chain))
        BY <2>1, <2>2
      <3> QED
        BY <2>1, <3>1 DEF Filled, Seen
    <2>4. ReadSoFar'
      BY <1>2, <1>10, <2>1, <2>3 DEF ReadSoFar, Setting, Counted, data
    <2>5. phase' \in ReadingPhases
      BY <1>10 DEF ReadingPhases, Counted
    <2> QED
      BY <1>2, <1>10, <2>1, <2>4, <2>5, DataReads DEF data
  <1> QED
    BY <1>1, <1>7, <1>9, <1>10 DEF NextBlock

\* The object of a block becomes the last of its array.
LEMMA ConvertedData ==
  ASSUME DataInv, Converted
  PROVE  DataInv'
  <1> DEFINE kind == Passes[pass]
             object == ToPublic(chain[cursor])
             Both == JavaBlocks \cup {StreamInfo}
  <1>1. CASE GiveUp
    BY <1>1, GivingUpData
  <1>2. CASE /\ typed' = [typed EXCEPT ![Passes[pass]] = Append(@, ToPublic(chain[cursor]))]
             /\ phase' = "convert" /\ cursor' = cursor + 1
             /\ UNCHANGED <<call, pc, pass, slots, fault, pending, file, request, chain, order, view, outcome, edits>>
    <2>1. /\ phase = "converting" /\ call = "read" /\ ReadSoFar /\ chain \in Seq(NativeBlocks)
          /\ chain = file /\ Len(chain) \in Nat /\ DOMAIN typed = Kinds \cup {"streaminfo"}
      BY ReadingCall DEF Converted, Counted
    <2>2. /\ pass \in 1..8 /\ cursor \in 1..(Len(chain) + 1) /\ cursor <= Len(chain)
          /\ \A q \in 1..8 : Filled(Passes[q], Passed(q))
          /\ chain[cursor].kind = kind
      BY <2>1, PassKinds DEF ReadSoFar
    <2>3. /\ cursor \in 1..Len(chain) /\ cursor \in Nat \ {0} /\ cursor - 1 \in Nat
          /\ cursor + 1 \in 1..(Len(chain) + 1) /\ cursor + 1 - 1 = cursor
          /\ \A q \in 1..8 : q \in Int
      BY <2>1, <2>2
    <2>4. Filled(kind, cursor - 1)
      BY <2>2, <2>3 DEF Passed
    <2>5. object \in Both
      <3>1. chain[cursor] \in NativeBlocks
        BY <2>1, <2>3
      <3> QED
        BY <3>1, ToPublicTyped
    <2> HIDE DEF object, Both
    <2>6. typed' = [typed EXCEPT ![kind] = Append(typed[kind], object)] /\ kind \in DOMAIN typed
      BY <1>2, <2>1, <2>2, PassKinds DEF object
    <2> HIDE DEF kind
    <2> DEFINE old == typed[kind]
               new == Append(old, object)
    <2>7. /\ old \in Seq(Both) /\ Len(old) = Seen(kind, cursor - 1)
          /\ \A i \in 1..(cursor - 1) : chain[i].kind = kind => old[Seen(kind, i)] = ToPublic(chain[i])
      BY <2>4 DEF Filled, Both
    <2> HIDE DEF old
    <2>8. /\ new \in Seq(Both) /\ Len(new) = Len(old) + 1 /\ new[Len(old) + 1] = object
          /\ \A i \in 1..Len(old) : new[i] = old[i]
      BY <2>5, <2>7
    <2> HIDE DEF new
    <2>9. Seen(kind, cursor) = Seen(kind, cursor - 1) + 1
      BY <2>2, <2>3, SeenNext
    <2>10. ASSUME NEW i \in 1..cursor, chain[i].kind = kind
           PROVE  new[Seen(kind, i)] = ToPublic(chain[i])
      <3>1. CASE i = cursor
        BY <2>7, <2>8, <2>9, <3>1 DEF object
      <3>2. CASE i # cursor
        <4>1. i \in 1..(cursor - 1)
          BY <2>3, <3>2
        <4>2. Seen(kind, i) \in 1..Seen(kind, cursor - 1)
          BY <2>3, <2>10, <4>1, SeenPlace
        <4> QED
          BY <2>7, <2>8, <2>10, <4>1, <4>2
      <3> QED
        BY <3>1, <3>2
    <2>11. typed'[kind] = new /\ chain' = chain /\ DOMAIN typed' = DOMAIN typed
           /\ \A k \in DOMAIN typed : k # kind => typed'[k] = typed[k]
      BY <1>2, <2>6 DEF new, old
    <2>12. /\ new \in Seq(JavaBlocks \cup {StreamInfo}) /\ Len(new) = Seen(kind, cursor)
      BY <2>7, <2>8, <2>9 DEF Both
    <2>13. ASSUME NEW q \in 1..8 PROVE Filled(Passes[q], Passed(q))'
      <3>1. CASE q = pass
        <4>1. Passed(q)' = cursor /\ Passes[q] = kind
          BY <1>2, <2>2, <2>3, <3>1 DEF Passed, kind
        <4> QED
          BY <2>10, <2>11, <2>12, <4>1 DEF Filled, Seen
      <3>2. CASE q # pass
        <4>1. Passed(q)' = Passed(q)
          BY <1>2, <2>2, <2>3, <2>11, <3>2 DEF Passed
        <4>2. Passes[q] # kind /\ Passes[q] \in DOMAIN typed
          BY <2>1, <2>2, <3>2, PassKinds DEF kind
        <4>3. typed'[Passes[q]] = typed[Passes[q]] /\ Filled(Passes[q], Passed(q))
          BY <2>2, <2>11, <4>2
        <4> QED
          BY <2>11, <4>1, <4>3 DEF Filled, Seen
      <3> QED
        BY <3>1, <3>2
    <2>14. pass' \in DOMAIN Passes /\ cursor' \in 1..(Len(chain') + 1)
      BY <1>2, <2>2, <2>3, PassKinds
    <2>15. \A q \in DOMAIN Passes : Filled(Passes[q], Passed(q))'
      BY <2>13, PassKinds
    <2>16. ReadSoFar'
      BY <1>2, <2>1, <2>11, <2>14, <2>15 DEF ReadSoFar, Setting, Counted
    <2>17. phase' \in ReadingPhases
      BY <1>2 DEF ReadingPhases, Counted
    <2> QED
      BY <1>2, <2>1, <2>11, <2>16, <2>17, DataReads
  <1> QED
    BY <1>1, <1>2 DEF Converted

\* The converters touch no data of the call.
LEMMA ConvertersData ==
  ASSUME DataInv, ConverterStep \/ ConverterFails
  PROVE  DataInv'
  <1>1. CASE ConverterStep
    BY <1>1, DataStutter DEF ConverterStep, dataVars, data
  <1>2. CASE ConverterFails
    BY <1>2, DataThrown DEF ConverterFails, Return, DataInv, DataTypeOK
  <1> QED
    BY <1>1, <1>2

\* The table of the order is what OrderTable makes it.
LEMMA OrderData ==
  ASSUME DataInv, OrderTable
  PROVE  DataInv'
  <1>1. CASE GiveUp
    BY <1>1, GivingUpData
  <1>2. CASE /\ order' = Without("streaminfo",
                            [i \in DOMAIN chain |-> [kind |-> chain[i].kind, index |-> IndexOf(i)]])
             /\ phase' = "payload"
             /\ UNCHANGED <<call, place, memory, file, request, chain, typed, view, outcome, edits>>
    <2>1. /\ phase = "order" /\ call = "read" /\ ReadSoFar /\ chain \in Seq(NativeBlocks)
          /\ chain = file
      BY ReadingCall DEF OrderTable, Counted
    <2>2. \A k \in DOMAIN typed : Filled(k, Len(chain))
      BY <2>1 DEF ReadSoFar
    <2>3. ASSUME NEW k \in DOMAIN typed' PROVE Filled(k, Len(chain))'
      BY <1>2, <2>2 DEF Filled, Seen
    <2>4. (order = Without("streaminfo",
                     [i \in DOMAIN chain |-> [kind |-> chain[i].kind, index |-> IndexOf(i)]]))'
      BY <1>2 DEF IndexOf
    <2>5. ReadSoFar'
      BY <1>2, <2>1, <2>3, <2>4 DEF ReadSoFar, Setting, Counted
    <2>6. phase' \in ReadingPhases
      BY <1>2 DEF ReadingPhases, Counted
    <2> QED
      BY <1>2, <2>1, <2>5, <2>6, DataReads
  <1> QED
    BY <1>1, <1>2 DEF OrderTable

\* What Kotlin rebuilds from the arrays and the order is what is in the chain.
LEMMA RebuildsChain ==
  ASSUME DataInv, phase = "payload"
  PROVE  Rebuild = MapBlocks(ToPublic, Without("streaminfo", chain)) /\ Rebuild \in Seq(JavaBlocks)
  <1> DEFINE rows == [i \in DOMAIN chain |-> [kind |-> chain[i].kind, index |-> IndexOf(i)]]
             ps == DOMAIN chain \ Where("streaminfo", chain)
             RowSet == [kind : Kinds \cup {"streaminfo"}, index : Nat]
             N == Cardinality(ps)
  <1>1. /\ ReadSoFar /\ chain \in Seq(NativeBlocks) /\ Len(chain) \in Nat
        /\ DOMAIN chain = 1..Len(chain) /\ DOMAIN typed = Kinds \cup {"streaminfo"}
    BY ReadingCall DEF Counted
  <1>2. order = Without("streaminfo", rows) /\ \A k \in DOMAIN typed : Filled(k, Len(chain))
    BY <1>1 DEF ReadSoFar
  <1>3. ASSUME NEW i \in DOMAIN chain
        PROVE  LET k == chain[i].kind IN
                 /\ k \in DOMAIN typed /\ IndexOf(i) \in Nat
                 /\ IndexOf(i) < Len(typed[k]) /\ typed[k][IndexOf(i) + 1] = ToPublic(chain[i])
    <2> DEFINE k == chain[i].kind
    <2>1. k \in DOMAIN typed
      <3>1. chain[i] \in NativeBlocks
        BY <1>1
      <3> QED
        BY <1>1, <3>1, BlockKinds
    <2> HIDE DEF k
    <2>2. i \in 1..Len(chain) /\ i - 1 \in Nat /\ chain[i].kind = k
      BY <1>1 DEF k
    <2>3. IndexOf(i) = Seen(k, i - 1) /\ Seen(k, i - 1) \in Nat
      <3>1. IndexOf(i) = Seen(k, i - 1)
        BY <2>2 DEF IndexOf, Seen
      <3>2. Seen(k, i - 1) \in Nat
        BY <2>2, SeenTyped
      <3> QED
        BY <3>1, <3>2
    <2>4. Seen(k, i) \in 1..Seen(k, Len(chain)) /\ Seen(k, i) = Seen(k, i - 1) + 1
      BY <1>1, <2>2, SeenPlace
    <2>5. Len(typed[k]) = Seen(k, Len(chain)) /\ typed[k][Seen(k, i)] = ToPublic(chain[i])
      BY <1>2, <2>1, <2>2 DEF Filled
    <2>6. Seen(k, Len(chain)) \in Nat
      BY <1>1, SeenTyped
    <2>7. k \in DOMAIN typed /\ IndexOf(i) \in Nat /\ IndexOf(i) < Len(typed[k])
          /\ typed[k][IndexOf(i) + 1] = ToPublic(chain[i])
      BY <2>1, <2>3, <2>4, <2>5, <2>6
    <2> QED
      BY <2>7 DEF k
  <1>4. \A i \in DOMAIN chain : rows[i].kind = chain[i].kind /\ rows[i].index = IndexOf(i)
    OBVIOUS
  <1>5. rows \in Seq(RowSet) /\ DOMAIN rows = DOMAIN chain
    <2>1. \A i \in 1..Len(chain) : rows[i] \in RowSet
      BY <1>1, <1>3
    <2> QED
      BY <1>1, <2>1
  <1> HIDE DEF rows, RowSet
  <1>6. DOMAIN rows \ Where("streaminfo", rows) = ps
    BY <1>4, <1>5 DEF Where
  <1>7. order = At(rows, ps)
    BY <1>2, <1>6 DEF Without
  <1>8. ps \in SUBSET DOMAIN chain /\ \A i \in ps : chain[i].kind # "streaminfo"
    BY DEF Where
  <1> HIDE DEF ps
  <1>9. /\ order \in Seq(RowSet) /\ DOMAIN order = 1..N /\ N \in Nat
        /\ \A n \in 1..N : Nth(ps, n) \in ps /\ order[n] = rows[Nth(ps, n)]
    BY <1>5, <1>7, <1>8, AtSelects
  <1>10. /\ DOMAIN At(chain, ps) = 1..N
         /\ \A n \in 1..N : At(chain, ps)[n] = chain[Nth(ps, n)]
    BY <1>1, <1>8, AtSelects
  <1> HIDE DEF N
  <1>11. ASSUME NEW n \in 1..N
         PROVE  /\ order[n].index < Len(typed[order[n].kind])
                /\ typed[order[n].kind][order[n].index + 1] = ToPublic(chain[Nth(ps, n)])
                /\ ToPublic(chain[Nth(ps, n)]) \in JavaBlocks
    <2> DEFINE i == Nth(ps, n)
    <2>1. i \in ps /\ i \in DOMAIN chain /\ order[n] = rows[i]
      BY <1>8, <1>9
    <2> HIDE DEF i
    <2>2. order[n].kind = chain[i].kind /\ order[n].index = IndexOf(i)
      BY <1>4, <2>1
    <2>3. chain[i] \in NativeBlocks /\ chain[i].kind # "streaminfo"
      BY <1>1, <1>8, <2>1
    <2>4. ToPublic(chain[i]) \in JavaBlocks
      BY <2>3, ToPublicTyped
    <2>5. /\ IndexOf(i) < Len(typed[chain[i].kind])
          /\ typed[chain[i].kind][IndexOf(i) + 1] = ToPublic(chain[i])
      BY <1>3, <2>1
    <2>6. /\ order[n].index < Len(typed[order[n].kind])
          /\ typed[order[n].kind][order[n].index + 1] = ToPublic(chain[i])
      BY <2>2, <2>5
    <2> QED
      BY <2>4, <2>6 DEF i
  <1> DEFINE known == At(order, {i \in DOMAIN order : order[i].index < Len(typed[order[i].kind])})
  <1>12. known = order
    <2>1. {i \in DOMAIN order : order[i].index < Len(typed[order[i].kind])} = DOMAIN order
      BY <1>9, <1>11
    <2>2. known = At(order, DOMAIN order)
      BY <2>1
    <2> HIDE DEF known
    <2> QED
      BY <1>9, <2>2, AtAll
  <1> HIDE DEF known
  <1>13. Rebuild = [i \in DOMAIN known |-> typed[known[i].kind][known[i].index + 1]]
    BY DEF Rebuild, known
  <1>14. Rebuild = [n \in 1..N |-> ToPublic(chain[Nth(ps, n)])]
    BY <1>9, <1>11, <1>12, <1>13
  <1>15. Without("streaminfo", chain) = At(chain, ps)
    BY DEF Without, ps
  <1>16. Rebuild = MapBlocks(ToPublic, Without("streaminfo", chain))
    BY <1>10, <1>14, <1>15 DEF MapBlocks
  <1>17. Rebuild \in Seq(JavaBlocks)
    BY <1>9, <1>11, <1>14
  <1> QED
    BY <1>16, <1>17

\* The payload goes to Kotlin, which has the file's blocks in their order.
LEMMA PayloadData ==
  ASSUME DataInv, ReturnPayload
  PROVE  DataInv'
  <1>1. CASE GiveUp
    BY <1>1, GivingUpData
  <1>2. CASE view' = Rebuild /\ Return("returned") /\ UNCHANGED <<file, slots, pending, chain>>
    <2>1. phase = "payload" /\ DataTypeOK /\ chain = file
      BY ReadingCall DEF ReturnPayload, Counted
    <2>2. /\ call' = "none" /\ phase' = "idle" /\ outcome' = "returned"
          /\ UNCHANGED <<request, typed, edits, chain, file>>
      BY <1>2 DEF Return
    <2>3. /\ view' = MapBlocks(ToPublic, Without("streaminfo", chain)) /\ view' \in Seq(JavaBlocks)
      BY <1>2, <2>1, RebuildsChain
    <2>4. DataTypeOK'
      BY <2>1, <2>2, <2>3 DEF DataTypeOK
    <2>5. ReadSoFar' /\ WriteSoFar'
      BY <2>2 DEF ReadSoFar, WriteSoFar, Setting, Counted, Built
    <2>6. EditTellsTruth'
      <3>1. view' # NoView
        <4>1. \A s \in Seq(JavaBlocks) : Len(s) = 1 => s[1] \in JavaBlocks
          OBVIOUS
        <4>2. Len(NoView) = 1 /\ NoView[1] = StreamInfo
          BY DEF NoView
        <4> QED
          BY <2>3, <4>1, <4>2, BlockKinds
      <3>2. NoView' = NoView
        BY DEF NoView
      <3> QED
        BY <3>1, <3>2 DEF EditTellsTruth
    <2>7. ReadKeepsOrder'
      <3>1. view' = MapBlocks(ToPublic, Without("streaminfo", file))'
        BY <2>1, <2>2, <2>3 DEF MapBlocks, Without, Where
      <3> QED
        BY <3>1 DEF ReadKeepsOrder
    <2> QED
      BY <2>4, <2>5, <2>6, <2>7 DEF DataInv
  <1> QED
    BY <1>1, <1>2 DEF ReturnPayload

-----------------------------------------------------------------------------
(* The theorems.                                                           *)

\* Before the first call there is nothing to say but what a file is.
LEMMA DataInit ==
  ASSUME Init
  PROVE  DataInv
  <1>1. file \in Seq(NativeBlocks)
    BY ValuesAssumption DEF Init
  <1>2. DataTypeOK
    BY <1>1 DEF Init, DataTypeOK
  <1>3. ReadSoFar /\ WriteSoFar /\ EditTellsTruth /\ ReadKeepsOrder
    BY DEF Init, ReadSoFar, WriteSoFar, Setting, Counted, Built, EditTellsTruth, ReadKeepsOrder
  <1> QED
    BY <1>2, <1>3 DEF DataInv

\* Every step keeps the invariant.
LEMMA DataHolds ==
  ASSUME DataInv, MemoryInv, [Next]_vars
  PROVE  DataInv'
  <1>1. CASE BeginRead \/ Replace \/ Edit
    BY <1>1, CallsBegin
  <1>2. CASE Reading
    BY <1>2, CountData, NextData, ConvertersData, ConvertedData, OrderData, PayloadData DEF Reading
  <1>3. CASE Writing
    BY <1>3, FirstData, DeleteData, NewTableData, BuildersData, TableFailsData, AllBuiltData,
       InsertData, AllInsertedData, WriteData DEF Writing
  <1>4. CASE UNCHANGED vars
    BY <1>4, DataStutter DEF vars, dataVars
  <1> QED
    BY <1>1, <1>2, <1>3, <1>4, SetupData DEF Next

\* What the arrays of a read and the chain of a write hold at each place of
\* the native code: an invariant for requests and files of any length.
THEOREM DataInvariantHolds == Spec => []DataInv
  <1> QED
    BY DataInit, DataHolds, MemoryInvariantHolds, PTL DEF Spec

\* writeMetadata returns without an exception only when the file has the blocks
\* that were requested, in table order and up to padding at the end.
THEOREM SuccessIsTruth == Spec => []EditTellsTruth
  <1>1. DataInv => EditTellsTruth
    BY DEF DataInv
  <1> QED
    BY <1>1, DataInvariantHolds, PTL

\* The blocks that Kotlin rebuilds from the payload of readMetadata are those of
\* the file, all of them and in physical order.
THEOREM ReadIsInOrder == Spec => []ReadKeepsOrder
  <1>1. DataInv => ReadKeepsOrder
    BY DEF DataInv
  <1> QED
    BY <1>1, DataInvariantHolds, PTL
=============================================================================
