------------------------------ MODULE LruCache ------------------------------
(***************************************************************************)
(* What the cache of tsk_img_read promises about replacement: a bounded    *)
(* set of entries of which only the least recently used is ever dropped,   *)
(* and only when there is no free place.                                   *)
(***************************************************************************)
EXTENDS Integers, Sequences

CONSTANTS Capacity, Entries

VARIABLE recency  \* the entries held, the most recently used first

Init == recency = <<>>

(* A read answered from entry i makes it the most recently used. *)
Touch ==
  \E i \in 1 .. Len(recency) :
    recency' = <<recency[i]>> \o SubSeq(recency, 1, i - 1)
                              \o SubSeq(recency, i + 1, Len(recency))

Evict ==
  /\ Len(recency) = Capacity
  /\ recency' = SubSeq(recency, 1, Capacity - 1)

Insert ==
  /\ Len(recency) < Capacity
  /\ \E e \in Entries : recency' = <<e>> \o recency

Next == Touch \/ Evict \/ Insert

Spec == Init /\ [][Next]_recency
=============================================================================
