---------------------------- MODULE ImgContract ----------------------------
(***************************************************************************)
(* What tsk_img_read relies on when it calls TSK_IMG_INFO.read, the read   *)
(* function of an image format: it may fail (-1) and it may return fewer   *)
(* bytes than asked; it never returns bytes beyond the end of the image.   *)
(* A byte of the image is represented by its offset.                       *)
(***************************************************************************)
EXTENDS Integers

CONSTANT ImgSize  \* TSK_IMG_INFO.size

Answers(off, len) == {-1} \union {n \in 0 .. len : off + n <= ImgSize}

(* What it has put in the buffer when it returns: the n bytes it reports,  *)
(* or, when it fails part way, those that it had read by then.             *)
Delivered(n, off, len) ==
  IF n >= 0 THEN {n} ELSE {k \in 0 .. len : k = 0 \/ off + k <= ImgSize}
=============================================================================
