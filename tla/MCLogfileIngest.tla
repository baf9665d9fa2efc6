--------------------------- MODULE MCLogfileIngest ---------------------------
(* One text byte and the newline, so that files begin alike or differ; a      *)
(* block of two bytes, so that a series ends within or at the end of a block; *)
(* five bytes, so that a file of one block can be followed by a longer one,   *)
(* none of them longer than two blocks.  A line of one byte has a timestamp,  *)
(* a longer or an empty one has none.                                         *)
EXTENDS LogfileIngest

MCStamped == {<<1>>}
=============================================================================
