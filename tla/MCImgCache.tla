----------------------------- MODULE MCImgCache -----------------------------
(* Instances of ImgCache and of its refinement of LruCache for TLC. *)
EXTENDS ImgCacheLru

ReadOffsets == {-1, 1, 2, 3}
=============================================================================
