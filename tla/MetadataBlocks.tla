--------------------------- MODULE MetadataBlocks ---------------------------
(***************************************************************************)
(* Who frees what while native/src/jflac_jni.c turns Java metadata into    *)
(* libFLAC blocks and back.                                                *)
(*                                                                         *)
(* Each builder and converter is a list of steps, in the order of the      *)
(* code.  A step may take native objects, release others, and fail; then   *)
(* it releases what the code releases at that place.  The lists say what   *)
(* the code says and no more: whether they add up, over every path, loops  *)
(* and failures included, is what MetadataEdit runs them for.              *)
(***************************************************************************)
EXTENDS Naturals, Sequences

(***************************************************************************)
(* The variables that hold something to give back.  free(NULL) and the     *)
(* guarded ReleaseByteArrayElements do nothing; the others must hold an    *)
(* object when they are released.                                          *)
(*   path, chain, iterator      of readMetadata and writeMetadata          *)
(*   table                      metadata_blocks, the table of built blocks *)
(*   element                    the local frame around one table element   *)
(*   frame, trackFrame, inner   local frames of builders, converters and   *)
(*                              of the helpers they call                   *)
(*   block                      a libFLAC object not yet in the table      *)
(*   text, description          strings converted by jstring_to_utf8       *)
(*   data                       a payload copy, or a borrowed Java array   *)
(*   reference, class           local references deleted by hand           *)
(***************************************************************************)
NullSafe == {"path", "text", "description", "data"}
Locals == {"frame", "trackFrame", "inner", "block", "text", "description", "data", "reference", "class"}
Pointers == Locals \cup {"path", "chain", "iterator", "table", "element"}

\* What a failing step leaves behind: a Java exception, or nothing (libFLAC
\* or malloc failed), or either.
Thrown == {TRUE}
Silent == {FALSE}
Either == {TRUE, FALSE}
Never == {}

Step(take, maybe, drop, undo, fail) ==
  [take |-> take, maybe |-> maybe, drop |-> drop, undo |-> undo, fail |-> fail]
Get(p, undo, fail) == Step({p}, {}, {}, undo, fail)
Maybe(p, undo, fail) == Step({}, {p}, {}, undo, fail)
Check(undo, fail) == Step({}, {}, {}, undo, fail)
Drop(ps, undo, fail) == Step({}, {}, ps, undo, fail)
Swap(p, ps, undo, fail) == Step({p}, {}, ps, undo, fail)

\* A list of steps with its loops and its optional parts, each given by its
\* first and last step.
Code(steps, loops, optional) == [steps |-> steps, loops |-> loops, optional |-> optional]

\* The steps that may follow step i; one past the end means done.
After(code, i) ==
  LET passable == code.loops \cup code.optional
      past(n) == {p[2] + 1 : p \in {q \in passable : q[1] = n}}
  IN  {i + 1} \cup past(i + 1) \cup (UNION {past(n) : n \in past(i + 1)})
              \cup {p[1] : p \in {q \in code.loops : q[2] = i}}

-----------------------------------------------------------------------------
(* Strings.  undo is what the caller releases when the conversion fails.   *)

\* Java to UTF-8: class, charset and bytes in a local frame, then the buffer.
jstring_to_utf8(p, undo) ==
  <<Get("inner", undo, Either),
    Get(p, {"inner"} \cup undo, Either),
    Drop({"inner"}, {"inner", p} \cup undo, Thrown)>>

\* UTF-8 to Java; PopLocalFrame carries the string into the caller's frame.
new_utf8_string(undo) ==
  <<Get("inner", undo, Thrown), Drop({"inner"}, {"inner"} \cup undo, Thrown)>>

-----------------------------------------------------------------------------
(* Builders.                                                               *)

\* The vendor if there is one, then for each entry: local frame, element,
\* UTF-8, "KEY=" in place of an entry without '=', append.
build_vorbis_comment_block ==
  Code(<<Get("block", {}, Silent)>>
       \o jstring_to_utf8("text", {"block"})
       \o <<Drop({"text"}, {"text", "block"}, Silent),
            Get("frame", {"block"}, Thrown),
            Check({"frame", "block"}, Thrown)>>
       \o jstring_to_utf8("text", {"frame", "block"})
       \o <<Maybe("data", {"text", "frame", "block"}, Silent),
            Drop({"data", "text", "frame"}, {"data", "text", "frame", "block"}, Silent)>>,
       {<<6, 12>>}, {<<2, 5>>})

PictureForgetsMime ==                  \* mutant: free(mime_type) is left out on one path
  Code(<<Check({}, Thrown), Get("block", {}, Silent)>>
       \o jstring_to_utf8("text", {"block"})
       \o jstring_to_utf8("description", {"block"})
       \o <<Drop({"text", "description", "data"}, {"text", "description", "data", "block"}, Silent)>>, {}, {})

\* Class, methods and getters; MIME type and description; payload; setters.
build_picture_block ==
  Code(<<Check({}, Thrown),
         Get("block", {}, Silent)>>
       \o jstring_to_utf8("text", {"block"})
       \o jstring_to_utf8("description", {"text", "block"})
       \o <<Get("data", {"text", "description", "block"}, Silent),
            Check({"text", "description", "data", "block"}, Thrown),
            Drop({"text", "description", "data"}, {"text", "description", "data", "block"}, Silent)>>,
       {}, {<<9, 10>>})

build_application_block ==
  Code(<<Check({}, Thrown),
         Get("block", {}, Silent),
         Check({"block"}, Thrown),
         Get("data", {"block"}, Silent),
         Check({"data", "block"}, Thrown),
         Drop({"data"}, {"data", "block"}, Silent)>>,
       {}, {<<4, 5>>})

build_padding_block == Code(<<Check({}, Thrown), Get("block", {}, Silent)>>, {}, {})

\* The payload is borrowed from the JVM while libFLAC clones it.
build_unknown_metadata_block ==
  Code(<<Check({}, Thrown),
         Get("data", {}, Either),
         Swap("block", {"data"}, {"data"}, Silent)>>,
       {}, {<<2, 2>>})

\* Resize, then point by point, then the legality check.
build_seek_table_block ==
  Code(<<Check({}, Thrown),
         Get("block", {}, Silent),
         Check({"block"}, Silent),
         Get("reference", {"block"}, Thrown),
         Drop({"reference"}, {"reference", "block"}, Thrown),
         Check({"block"}, Thrown)>>,
       {<<4, 5>>}, {})

\* One track, inside the caller's frame and with the caller's block: what it
\* does not release itself build_cue_sheet_block releases when it fails.
fill_cue_sheet_track ==
  LET caller == {"frame", "block"}
  IN  <<Check(caller, Thrown)>>
      \o jstring_to_utf8("text", caller)
      \o <<Check({"text"} \cup caller, Either),
           Drop({"text"}, {"text"} \cup caller, Thrown),
           Get("reference", caller, Thrown),
           Drop({"reference"}, {"reference"} \cup caller, Thrown)>>

build_cue_sheet_block ==
  Code(<<Check({}, Thrown)>>
       \o jstring_to_utf8("text", {})
       \o <<Check({"text"}, Thrown),
            Get("block", {"text"}, Silent),
            Drop({"text"}, {"text", "block"}, Thrown),
            Check({"block"}, Silent),
            Get("frame", {"block"}, Thrown),
            Check({"frame", "block"}, Thrown)>>
       \o fill_cue_sheet_track
       \o <<Drop({"frame"}, {}, Never),
            Check({"block"}, Thrown)>>,
       {<<9, 19>>, <<17, 18>>}, {})

Builders ==
  [vorbis |-> build_vorbis_comment_block, picture |-> build_picture_block,
   application |-> build_application_block, seektable |-> build_seek_table_block,
   cuesheet |-> build_cue_sheet_block, padding |-> build_padding_block,
   unknown |-> build_unknown_metadata_block]

Kinds == DOMAIN Builders

-----------------------------------------------------------------------------
(* Converters.  Each runs in a local frame of its own; PopLocalFrame       *)
(* carries the result out.  Lists delete the reference of each element as  *)
(* soon as it is added.                                                    *)

Framed == Code(<<Get("frame", {}, Thrown), Drop({"frame"}, {"frame"}, Thrown)>>, {}, {})

new_stream_info == Framed
new_application_block == Framed
new_padding_block == Framed
new_unknown_metadata_block == Framed

new_picture ==
  Code(<<Get("frame", {}, Thrown)>>
       \o new_utf8_string({"frame"}) \o new_utf8_string({"frame"})
       \o <<Drop({"frame"}, {"frame"}, Thrown)>>, {}, {})

new_seek_table ==
  Code(<<Get("frame", {}, Thrown),
         Check({"frame"}, Thrown),
         Get("reference", {"frame"}, Thrown),
         Drop({"reference"}, {"reference", "frame"}, Thrown),
         Drop({"frame"}, {"frame"}, Thrown)>>,
       {<<3, 4>>}, {})

new_cue_sheet_index(undo) ==
  <<Get("inner", undo, Thrown), Swap("reference", {"inner"}, {"inner"} \cup undo, Thrown)>>

new_cue_sheet_track(undo) ==
  LET mine == {"trackFrame"} \cup undo
  IN  <<Get("trackFrame", undo, Thrown), Check(mine, Thrown)>>
      \o new_cue_sheet_index(mine)
      \o <<Drop({"reference"}, {"reference"} \cup mine, Thrown)>>
      \o new_utf8_string(mine)
      \o <<Swap("reference", {"trackFrame"}, mine, Thrown)>>

new_cue_sheet ==
  Code(<<Get("frame", {}, Thrown), Check({"frame"}, Thrown)>>
       \o new_cue_sheet_track({"frame"})
       \o <<Drop({"reference"}, {"reference", "frame"}, Thrown)>>
       \o new_utf8_string({"frame"})
       \o <<Drop({"frame"}, {"frame"}, Thrown)>>,
       {<<3, 11>>, <<5, 7>>}, {})

\* readMetadata converts the comment itself: the vendor, the array, the entries.
new_comment_entries ==
  Code(<<Get("class", {}, Thrown)>>
       \o new_utf8_string({"class"})
       \o <<Check({"class"}, Thrown),
            Get("inner", {"class"}, Thrown),
            Swap("reference", {"inner"}, {"inner", "class"}, Thrown),
            Drop({"reference"}, {"reference", "class"}, Thrown),
            Drop({"class"}, {}, Never)>>,
       {<<5, 7>>}, {})

Converters ==
  [streaminfo |-> new_stream_info, vorbis |-> new_comment_entries, picture |-> new_picture,
   application |-> new_application_block, seektable |-> new_seek_table,
   cuesheet |-> new_cue_sheet, padding |-> new_padding_block,
   unknown |-> new_unknown_metadata_block]
=============================================================================
