--------------------------- MODULE MCRawSegments ---------------------------
(* Instances of RawSegments for TLC: four segments, one of them empty, and *)
(* fewer cache entries than segments.                                      *)
EXTENDS RawSegments

SmallSegs == <<2, 0, 3, 1>>

(* Reads inside the image, across its end and behind it: tsk_img_read cuts *)
(* a small read at the end, and hands a large one on as it is.             *)
SomeRequests == (0 .. 7) \X {0, 1, 3, 6}

(* One segment, as most images have, and a read that is longer than it *)
OneSeg == <<3>>
=============================================================================
