--------------------------- MODULE MCMetadataEdit ---------------------------
(***************************************************************************)
(* Files, blocks and comments for model checking MetadataEdit.             *)
(***************************************************************************)
EXTENDS MetadataEdit

\* Plain, with stray and repeated comment entries, with two comments, without
\* STREAMINFO, and one that cannot be read.
MCFiles ==
  LET comment == Block("vorbis", <<<<"A", 1>>, <<"", 5>>, <<"B", 2>>, <<"A", 3>>>>)
  IN  {<<StreamInfo>>,
       <<StreamInfo, Block("padding", 1), comment, Block("picture", 1), Block("unknown", 1),
         Block("picture", 2), Block("seektable", 1), Block("cuesheet", 1), Block("application", 1)>>,
       <<StreamInfo, comment, comment>>,
       <<Block("picture", 1)>>,
       <<>>}

\* No key, one value, two keys with two values, and keys without values: alone
\* and before one that has a value.
MCComments ==
  {[k \in {} |-> <<>>], [k \in {"A"} |-> <<1>>], [k \in {"A", "B"} |-> <<2, 1>>],
   [k \in {"A"} |-> <<>>], [k \in {"A", "B"} |-> IF k = "A" THEN <<>> ELSE <<3>>]}
MCSamples == [kind : Kinds \ {"vorbis"}, value : {1}] \cup {Block("picture", 2)}
               \cup [kind : {"vorbis"}, value : MCComments]
=============================================================================
