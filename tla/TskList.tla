------------------------------ MODULE TskList ------------------------------
(***************************************************************************)
(* tsk_list.c: a set of 64-bit keys kept as a list of buckets in reverse   *)
(* order, with which the file system code recognises what it has already   *)
(* seen.  A bucket [key, len] stands for key, key - 1, ..., key - len + 1. *)
(* Arithmetic wraps around at the width of a key.                          *)
(***************************************************************************)
EXTENDS Integers, Sequences

CONSTANT Width  \* the number of keys, 2^64 in the code

ASSUME WidthAssumption == Width \in Nat \ {0}

VARIABLES
  list,   \* the buckets from *a_tsk_list_head on
  added   \* the keys whose addition was reported as successful

vars == <<list, added>>

Keys == 0 .. Width - 1

Bucket(k) == [key |-> k, len |-> 1]

(* The key just below a bucket: Width - 1 when the bucket contains 0 *)
Below(b) == (b.key - b.len) % Width
Above(b) == (b.key + 1) % Width

(* Mutant: the bucket that grows upwards keeps its length. *)
GrowUpKeepsLen(b) == [key |-> Above(b), len |-> b.len]

GrowUp(b)   == [key |-> Above(b), len |-> b.len + 1]
GrowDown(b) == [b EXCEPT !.len = @ + 1]

(* Mutant: a bucket goes before the one at which the walk stopped. *)
InsertBefore(i, b) == SubSeq(list, 1, i - 1) \o <<b>> \o SubSeq(list, i, Len(list))

InsertAfter(i, b) == SubSeq(list, 1, i) \o <<b>> \o SubSeq(list, i + 1, Len(list))

-----------------------------------------------------------------------------
Init == list = <<>> /\ added = {}

(* A malloc failure leaves everything as it was and returns 1. *)
Added(k, newList) ==
  /\ list' = newList
  /\ added' = added \union {k}

AddToEmpty(k) ==
  /\ list = <<>>
  /\ Added(k, <<Bucket(k)>>)

AddAtHead(k) ==
  /\ list # <<>>
  /\ k > Head(list).key
  /\ \/ k = Above(Head(list)) /\ Added(k, <<GrowUp(Head(list))>> \o Tail(list))
     \/ k # Above(Head(list)) /\ Added(k, <<Bucket(k)>> \o list)

AddHeadAgain(k) ==
  /\ list # <<>>
  /\ k = Head(list).key
  /\ Added(k, list)

(* Why the walk along the list ends at bucket i *)
Contained(i, k)  == k > Below(list[i])
JustBelow(i, k)  == k = Below(list[i])
IsLast(i)        == i = Len(list)

JustAbove(i, k)  == i < Len(list) /\ k = Above(list[i + 1])
Between(i, k)    == i < Len(list) /\ k > list[i + 1].key
IsNext(i, k)     == i < Len(list) /\ k = list[i + 1].key

Stops(i, k) == \/ Contained(i, k) \/ JustBelow(i, k) \/ IsLast(i)
               \/ JustAbove(i, k) \/ Between(i, k) \/ IsNext(i, k)

(* The tests are made in this order at each bucket. *)
NewList(i, k) ==
  IF Contained(i, k) THEN list
  ELSE IF JustBelow(i, k)
  THEN IF IsNext(i, k) THEN list ELSE [list EXCEPT ![i] = GrowDown(@)]
  ELSE IF JustAbove(i, k) THEN [list EXCEPT ![i + 1] = GrowUp(@)]
  ELSE IF IsNext(i, k) THEN list
  ELSE InsertAfter(i, Bucket(k))

AddBelowHead(k) ==
  /\ list # <<>>
  /\ k < Head(list).key
  /\ \E i \in 1 .. Len(list) :
       /\ Stops(i, k) /\ \A j \in 1 .. i - 1 : ~Stops(j, k)
       /\ Added(k, NewList(i, k))

Add(k) == AddToEmpty(k) \/ AddAtHead(k) \/ AddHeadAgain(k) \/ AddBelowHead(k)

(* tsk_list_free, called with the head that the owner then resets *)
Free == list' = <<>> /\ added' = {}

Next == (\E k \in Keys : Add(k)) \/ Free

Spec == Init /\ [][Next]_vars

-----------------------------------------------------------------------------
(* The range test of tsk_list_find, written so that it does not wrap when  *)
(* the bucket contains 0                                                   *)
InBucket(b, k) == k <= b.key /\ k >= (b.key + 1 - b.len) % Width

(* tsk_list_find: the walk stops at the first bucket that contains the key *)
(* or whose keys are all smaller.                                          *)
Find(k) ==
  \E i \in 1 .. Len(list) :
    /\ InBucket(list[i], k)
    /\ \A j \in 1 .. i - 1 : InBucket(list[j], k) \/ k <= list[j].key

-----------------------------------------------------------------------------
(* The buckets are in reverse order of their keys, and none reaches below  *)
(* key 0: the order is what lets a walk stop at the first smaller bucket.  *)
Descending ==
  \A i \in 1 .. Len(list) :
    /\ list[i].len <= list[i].key + 1
    /\ i < Len(list) => list[i + 1].key < list[i].key

(* The list is the set of the keys added: tsk_list_find finds a key        *)
(* exactly if it was added, in whatever order and however often.           *)
FindsExactlyTheAdded == \A k \in Keys : Find(k) <=> k \in added
=============================================================================
