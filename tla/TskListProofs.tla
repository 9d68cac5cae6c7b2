---------------------------- MODULE TskListProofs ----------------------------
(***************************************************************************)
(* For every width of the keys: tsk_list_find finds exactly what           *)
(* tsk_list_add has added (TskList!FindsExactlyTheAdded).  The argument is *)
(* that the buckets stand for the keys added and stay in reverse order,    *)
(* so that a walk that goes on is always above the key that it looks for.  *)
(***************************************************************************)
EXTENDS TskList, SequenceTheorems, TLAPS

Buckets == [key : Keys, len : Nat \ {0}]

(* The keys that a bucket stands for *)
Within(b) == {k \in Keys : b.key - b.len < k /\ k <= b.key}

(* No bucket reaches below key 0. *)
Sound(b) == b.len <= b.key + 1

InOrder(l) == \A i, j \in 1 .. Len(l) : i < j => l[j].key < l[i].key

StandsFor(l, keys) ==
  \A k \in Keys : k \in keys <=> \E i \in 1 .. Len(l) : k \in Within(l[i])

ListOK(l, keys) ==
  /\ l \in Seq(Buckets) /\ keys \subseteq Keys
  /\ \A i \in 1 .. Len(l) : Sound(l[i])
  /\ InOrder(l)
  /\ StandsFor(l, keys)

ListInv == ListOK(list, added)
-----------------------------------------------------------------------------
LEMMA ModBounds ==
  /\ \A x \in Keys : x % Width = x
  /\ (-1) % Width = Width - 1
  /\ Width % Width = 0
  BY WidthAssumption DEF Keys

(* The arithmetic of a bucket wraps around in two cases only.              *)
LEMMA BucketArithmetic ==
  ASSUME NEW b \in Buckets, Sound(b)
  PROVE  /\ (b.key + 1 - b.len) % Width = b.key + 1 - b.len
         /\ b.len = b.key + 1 => Below(b) = Width - 1
         /\ b.len # b.key + 1 => Below(b) = b.key - b.len
         /\ b.key = Width - 1 => Above(b) = 0
         /\ b.key # Width - 1 => Above(b) = b.key + 1
<1>1. b.key \in Nat /\ b.key < Width /\ b.len \in Nat \ {0}
  BY WidthAssumption DEF Buckets, Keys
<1>2. b.key + 1 - b.len \in Keys
  BY <1>1, WidthAssumption DEF Sound, Keys
<1>3. CASE b.len = b.key + 1
  <2>1. b.key - b.len = -1
    BY <1>1, <1>3
  <2> QED
    BY <1>1, <1>2, <1>3, <2>1, ModBounds, WidthAssumption DEF Below, Above, Keys
<1>4. CASE b.len # b.key + 1
  <2>1. b.key - b.len \in Keys
    BY <1>1, <1>4, WidthAssumption DEF Sound, Keys
  <2> QED
    BY <1>1, <1>2, <1>4, <2>1, ModBounds, WidthAssumption DEF Below, Above, Keys
<1> QED
  BY <1>3, <1>4

LEMMA OneBucket ==
  ASSUME NEW k \in Keys
  PROVE  Bucket(k) \in Buckets /\ Sound(Bucket(k)) /\ Within(Bucket(k)) = {k}
         /\ Bucket(k).key = k
  BY WidthAssumption DEF Bucket, Buckets, Sound, Within, Keys

(* A bucket that grows stands for one key more. *)
LEMMA GrownDown ==
  ASSUME NEW b \in Buckets, Sound(b), NEW k \in Keys, k < b.key, k = Below(b)
  PROVE  /\ GrowDown(b) \in Buckets /\ Sound(GrowDown(b)) /\ GrowDown(b).key = b.key
         /\ Within(GrowDown(b)) = Within(b) \union {k}
<1>1. b.key \in Nat /\ b.key < Width /\ b.len \in Nat \ {0} /\ k \in Nat
  BY WidthAssumption DEF Buckets, Keys
<1>2. k = b.key - b.len
  BY <1>1, BucketArithmetic, WidthAssumption
<1>3. GrowDown(b).key = b.key /\ GrowDown(b).len = b.len + 1 /\ GrowDown(b) \in Buckets
  BY <1>1 DEF GrowDown, Buckets
<1>4. Sound(GrowDown(b))
  BY <1>1, <1>2, <1>3 DEF Sound
<1>5. \A x \in Keys : x \in Within(GrowDown(b)) <=> x \in Within(b) \union {k}
  BY <1>1, <1>2, <1>3, WidthAssumption DEF Within, Keys
<1> QED
  BY <1>3, <1>4, <1>5 DEF Within

LEMMA GrownUp ==
  ASSUME NEW b \in Buckets, Sound(b), NEW k \in Keys, b.key < k \/ b.key # Width - 1,
         k = Above(b)
  PROVE  /\ GrowUp(b) \in Buckets /\ Sound(GrowUp(b)) /\ GrowUp(b).key = k
         /\ Within(GrowUp(b)) = Within(b) \union {k}
<1>1. b.key \in Nat /\ b.key < Width /\ b.len \in Nat \ {0} /\ k \in Nat /\ k < Width
  BY WidthAssumption DEF Buckets, Keys
<1>2. k = b.key + 1
  BY <1>1, BucketArithmetic, WidthAssumption
<1>3. GrowUp(b).key = k /\ GrowUp(b).len = b.len + 1 /\ GrowUp(b) \in Buckets
  BY <1>1 DEF GrowUp, Buckets
<1>4. Sound(GrowUp(b))
  BY <1>1, <1>2, <1>3 DEF Sound
<1>5. \A x \in Keys : x \in Within(GrowUp(b)) <=> x \in Within(b) \union {k}
  BY <1>1, <1>2, <1>3, WidthAssumption DEF Within, Keys
<1> QED
  BY <1>3, <1>4, <1>5 DEF Within
-----------------------------------------------------------------------------
LEMMA KeysOfList ==
  ASSUME NEW l \in Seq(Buckets)
  PROVE  \A j \in 1 .. Len(l) : l[j] \in Buckets /\ l[j].key \in Int
<1>1. \A j \in 1 .. Len(l) : l[j] \in Buckets
  BY ElementOfSeq
<1> QED
  BY <1>1, WidthAssumption DEF Buckets, Keys

(* A bucket that takes the place of another *)
LEMMA Replaced ==
  ASSUME NEW l, NEW keys, ListOK(l, keys), NEW k \in Keys,
         NEW i \in 1 .. Len(l), NEW b \in Buckets, Sound(b),
         Within(b) = Within(l[i]) \union {k},
         b.key >= l[i].key, \A j \in 1 .. i - 1 : b.key < l[j].key
  PROVE  ListOK([l EXCEPT ![i] = b], keys \union {k})
<1> DEFINE m == [l EXCEPT ![i] = b]
<1>1. /\ m \in Seq(Buckets) /\ Len(m) = Len(l) /\ Len(l) \in Nat
      /\ \A j \in 1 .. Len(l) : m[j] = IF j = i THEN b ELSE l[j]
  BY ExceptSeq, LenProperties DEF ListOK
<1>2. b.key \in Int /\ \A j \in 1 .. Len(l) : l[j].key \in Int
  <2>1. b.key \in Int
    BY WidthAssumption DEF Buckets, Keys
  <2> QED
    BY <2>1, KeysOfList DEF ListOK
<1> HIDE DEF m
<1>3. InOrder(m)
  <2> SUFFICES ASSUME NEW a \in 1 .. Len(l), NEW c \in 1 .. Len(l), a < c
               PROVE  m[c].key < m[a].key
    BY <1>1 DEF InOrder
  <2>1. l[c].key < l[a].key
    BY DEF ListOK, InOrder
  <2>2. CASE a = i
    <3>1. m[a] = b /\ m[c] = l[c]
      BY <1>1, <2>2
    <3> QED
      BY <1>2, <2>1, <2>2, <3>1
  <2>3. CASE c = i
    <3>1. m[a] = l[a] /\ m[c] = b /\ a \in 1 .. i - 1
      BY <1>1, <2>3
    <3> QED
      BY <3>1
  <2>4. CASE a # i /\ c # i
    BY <1>1, <2>1, <2>4
  <2> QED
    BY <2>2, <2>3, <2>4
<1>4. StandsFor(m, keys \union {k})
  <2> SUFFICES ASSUME NEW x \in Keys
               PROVE  x \in keys \union {k} <=> \E j \in 1 .. Len(m) : x \in Within(m[j])
    BY DEF StandsFor
  <2>1. x \in keys <=> \E j \in 1 .. Len(l) : x \in Within(l[j])
    BY DEF ListOK, StandsFor
  <2> QED
    BY <1>1, <2>1
<1> QED
  BY <1>1, <1>3, <1>4 DEF ListOK, m

(* A bucket that is linked in after the first i *)
LEMMA LinkedIn ==
  ASSUME NEW l, NEW keys, ListOK(l, keys), NEW k \in Keys,
         NEW m \in Seq(Buckets), NEW i \in 0 .. Len(l),
         Len(m) = Len(l) + 1, m[i + 1] = Bucket(k),
         \A j \in 1 .. i : m[j] = l[j] /\ k < l[j].key,
         \A j \in i + 1 .. Len(l) : m[j + 1] = l[j] /\ l[j].key < k
  PROVE  ListOK(m, keys \union {k})
<1>1. Len(l) \in Nat /\ i \in Nat /\ i <= Len(l)
  BY LenProperties DEF ListOK
<1>2. \A j \in 1 .. Len(l) : l[j].key \in Int
  BY KeysOfList, WidthAssumption DEF ListOK, Buckets, Keys
<1>3. k \in Int /\ Bucket(k).key = k /\ Sound(Bucket(k)) /\ Within(Bucket(k)) = {k}
  BY OneBucket, WidthAssumption DEF Keys
<1>4. \A j \in 1 .. Len(m) :
        \/ j <= i /\ j \in 1 .. Len(l) /\ m[j] = l[j] /\ k < l[j].key
        \/ j = i + 1 /\ m[j] = Bucket(k)
        \/ j > i + 1 /\ j - 1 \in 1 .. Len(l) /\ m[j] = l[j - 1] /\ l[j - 1].key < k
  <2> SUFFICES ASSUME NEW j \in 1 .. Len(m), j > i + 1
               PROVE  j - 1 \in 1 .. Len(l) /\ m[j] = l[j - 1] /\ l[j - 1].key < k
    BY <1>1
  <2>1. Len(m) = Len(l) + 1 /\ j \in Nat
    BY <1>1
  <2>2. j - 1 \in i + 1 .. Len(l) /\ j = (j - 1) + 1
    BY <1>1, <2>1
  <2> QED
    BY <1>1, <2>2
<1>5. \A j \in 1 .. Len(m) : Sound(m[j])
  BY <1>1, <1>3, <1>4 DEF ListOK
<1>6. InOrder(m)
  <2> SUFFICES ASSUME NEW a \in 1 .. Len(m), NEW c \in 1 .. Len(m), a < c
               PROVE  m[c].key < m[a].key
    BY DEF InOrder
  <2>1. a \in Nat /\ c \in Nat
    BY <1>1
  <2>2. CASE c <= i
    <3>1. m[a] = l[a] /\ m[c] = l[c] /\ a \in 1 .. Len(l) /\ c \in 1 .. Len(l)
      BY <1>1, <2>1, <2>2
    <3> QED
      BY <3>1 DEF ListOK, InOrder
  <2>3. CASE c = i + 1
    BY <1>1, <1>3, <2>1, <2>3
  <2>4. CASE c > i + 1
    <3>1. c - 1 \in 1 .. Len(l) /\ m[c] = l[c - 1] /\ l[c - 1].key < k
      BY <1>1, <1>4, <2>1, <2>4
    <3>2. CASE a <= i
      BY <1>1, <1>2, <1>3, <2>1, <3>1, <3>2, SMTT(20)
    <3>3. CASE a = i + 1
      BY <1>3, <3>1, <3>3
    <3>4. CASE a > i + 1
      <4>1. a - 1 \in 1 .. Len(l) /\ m[a] = l[a - 1] /\ a - 1 < c - 1
        BY <1>1, <1>4, <2>1, <3>4
      <4> QED
        BY <3>1, <4>1 DEF ListOK, InOrder
    <3> QED
      BY <1>1, <2>1, <3>2, <3>3, <3>4
  <2> QED
    BY <1>1, <2>1, <2>2, <2>3, <2>4
<1>7. StandsFor(m, keys \union {k})
  <2> SUFFICES ASSUME NEW x \in Keys
               PROVE  x \in keys \union {k} <=> \E j \in 1 .. Len(m) : x \in Within(m[j])
    BY DEF StandsFor
  <2>1. x \in keys <=> \E j \in 1 .. Len(l) : x \in Within(l[j])
    BY DEF ListOK, StandsFor
  <2>2. ASSUME NEW j \in 1 .. Len(l), x \in Within(l[j])
        PROVE  \E j2 \in 1 .. Len(m) : x \in Within(m[j2])
    BY <1>1, <2>2, SMTT(20)
  <2>3. i + 1 \in 1 .. Len(m)
    BY <1>1
  <2>4. ASSUME NEW j \in 1 .. Len(m), x \in Within(m[j])
        PROVE  x = k \/ \E j2 \in 1 .. Len(l) : x \in Within(l[j2])
    <3>1. \/ j \in 1 .. Len(l) /\ m[j] = l[j]
          \/ m[j] = Bucket(k)
          \/ j - 1 \in 1 .. Len(l) /\ m[j] = l[j - 1]
      BY <1>4
    <3> QED
      BY <1>3, <2>4, <3>1, SMTT(20)
  <2> QED
    BY <1>3, <2>1, <2>2, <2>3, <2>4
<1> QED
  BY <1>5, <1>6, <1>7 DEF ListOK
-----------------------------------------------------------------------------
(* Adding a key at the head of the list *)
LEMMA AddAtHeadKeeps ==
  ASSUME ListInv, NEW k \in Keys, AddToEmpty(k) \/ AddAtHead(k) \/ AddHeadAgain(k)
  PROVE  ListInv'
<1> USE DEF ListInv, Added
<1>1. /\ list \in Seq(Buckets) /\ Len(list) \in Nat /\ k \in Int
      /\ Bucket(k) \in Buckets /\ Bucket(k).key = k
      /\ added' = added \union {k}
  BY LenProperties, OneBucket, WidthAssumption
     DEF ListOK, Keys, AddToEmpty, AddAtHead, AddHeadAgain
<1>2. CASE AddToEmpty(k)
  <2>1. list' = <<Bucket(k)>> /\ list = <<>> /\ Len(list) = 0
    BY <1>2 DEF AddToEmpty
  <2>2. list' \in Seq(Buckets) /\ Len(list') = 1 /\ list'[1] = Bucket(k)
    BY <1>1, <2>1
  <2>3. ListOK(list', added \union {k})
    <3>1. /\ ListOK(list, added) /\ 0 \in 0 .. Len(list)
          /\ Len(list') = Len(list) + 1 /\ list'[0 + 1] = Bucket(k)
          /\ \A j \in 1 .. 0 : list'[j] = list[j] /\ k < list[j].key
          /\ \A j \in 0 + 1 .. Len(list) : list'[j + 1] = list[j] /\ list[j].key < k
      BY <2>1, <2>2
    <3> QED
      BY <2>2, <3>1, LinkedIn
  <2> QED
    BY <1>1, <2>3
<1>3. ASSUME list # <<>>
      PROVE  /\ 1 \in 1 .. Len(list) /\ Head(list) = list[1]
             /\ list[1] \in Buckets /\ Sound(list[1]) /\ list[1].key \in Int
  <2>1. 1 \in 1 .. Len(list)
    BY <1>1, <1>3, EmptySeq
  <2> QED
    BY <1>1, <2>1, KeysOfList DEF ListOK
<1>4. CASE AddAtHead(k) /\ k = Above(Head(list))
  <2> DEFINE b == GrowUp(Head(list))
  <2>1. /\ list # <<>> /\ k > list[1].key /\ k = Above(list[1])
        /\ list' = <<b>> \o Tail(list)
    BY <1>3, <1>4 DEF AddAtHead
  <2>2. /\ b \in Buckets /\ Sound(b) /\ b.key = k
        /\ Within(b) = Within(list[1]) \union {k}
    BY <1>3, <2>1, GrownUp
  <2>3. /\ <<b>> \in Seq(Buckets) /\ Len(<<b>>) = 1 /\ <<b>>[1] = b
        /\ Tail(list) \in Seq(Buckets) /\ Len(Tail(list)) = Len(list) - 1
        /\ \A i \in 1 .. Len(Tail(list)) : Tail(list)[i] = list[i + 1]
    BY <1>1, <2>1, <2>2, HeadTailProperties
  <2>4. /\ list' \in Seq(Buckets) /\ Len(list') = Len(list)
        /\ \A i \in 1 .. Len(list) : list'[i] = IF i = 1 THEN b ELSE list[i]
    <3> HIDE DEF b
    <3>1. /\ list' \in Seq(Buckets) /\ Len(list') = 1 + (Len(list) - 1)
          /\ \A i \in 1 .. 1 + (Len(list) - 1) :
               list'[i] = IF i <= 1 THEN b ELSE Tail(list)[i - 1]
      BY <2>1, <2>3, ConcatProperties
    <3>2. \A i \in 2 .. Len(list) : i - 1 \in 1 .. Len(Tail(list)) /\ (i - 1) + 1 = i
      BY <1>1, <2>3
    <3> QED
      BY <1>1, <2>3, <3>1, <3>2
  <2> HIDE DEF b
  <2>5. /\ [list EXCEPT ![1] = b] \in Seq(Buckets)
        /\ Len([list EXCEPT ![1] = b]) = Len(list)
        /\ \A i \in 1 .. Len(list) :
             [list EXCEPT ![1] = b][i] = IF i = 1 THEN b ELSE list[i]
    BY <1>1, <1>3, <2>1, <2>2, ExceptSeq
  <2>6. list' = [list EXCEPT ![1] = b]
    BY <2>4, <2>5, SeqEqual
  <2>7. ListOK([list EXCEPT ![1] = b], added \union {k})
    <3>1. /\ ListOK(list, added) /\ 1 \in 1 .. Len(list)
          /\ b.key >= list[1].key /\ \A j \in 1 .. 1 - 1 : b.key < list[j].key
      BY <1>1, <1>3, <2>1, <2>2
    <3> QED
      BY <2>2, <3>1, Replaced
  <2> QED
    BY <1>1, <2>6, <2>7
<1>5. CASE AddAtHead(k) /\ k # Above(Head(list))
  <2>1. list # <<>> /\ k > list[1].key /\ list' = <<Bucket(k)>> \o list
    BY <1>3, <1>5 DEF AddAtHead
  <2>2. <<Bucket(k)>> \in Seq(Buckets) /\ Len(<<Bucket(k)>>) = 1 /\ <<Bucket(k)>>[1] = Bucket(k)
    BY <1>1
  <2>3. /\ list' \in Seq(Buckets) /\ Len(list') = 1 + Len(list)
        /\ \A i \in 1 .. 1 + Len(list) :
             list'[i] = IF i <= 1 THEN Bucket(k) ELSE list[i - 1]
    BY <1>1, <2>1, <2>2, ConcatProperties
  <2>4. \A j \in 1 .. Len(list) : list'[j + 1] = list[j]
    <3> TAKE j \in 1 .. Len(list)
    <3>1. j + 1 \in 1 .. 1 + Len(list) /\ ~(j + 1 <= 1) /\ (j + 1) - 1 = j
      BY <1>1
    <3> QED
      BY <2>3, <3>1
  <2>5. \A j \in 1 .. Len(list) : list[j].key < k
    <3> TAKE j \in 1 .. Len(list)
    <3>1. j = 1 \/ list[j].key < list[1].key
      BY <1>3, <2>1 DEF ListOK, InOrder
    <3> QED
      BY <1>1, <1>3, <2>1, <3>1, KeysOfList
  <2>6. list'[0 + 1] = Bucket(k)
    BY <1>1, <2>3
  <2>7. ListOK(list', added \union {k})
    <3>1. /\ ListOK(list, added) /\ 0 \in 0 .. Len(list)
          /\ Len(list') = Len(list) + 1 /\ list'[0 + 1] = Bucket(k)
          /\ \A j \in 1 .. 0 : list'[j] = list[j] /\ k < list[j].key
          /\ \A j \in 0 + 1 .. Len(list) : list'[j + 1] = list[j] /\ list[j].key < k
      BY <1>1, <2>3, <2>4, <2>5, <2>6
    <3> QED
      BY <2>3, <3>1, LinkedIn
  <2> QED
    BY <1>1, <2>7
<1>6. CASE AddHeadAgain(k)
  <2>1. list' = list /\ list # <<>> /\ k = list[1].key
    BY <1>3, <1>6 DEF AddHeadAgain
  <2>2. k \in Within(list[1])
    BY <1>3, <2>1 DEF Within, Buckets
  <2>3. k \in added
    BY <1>3, <2>1, <2>2 DEF ListOK, StandsFor
  <2>4. added \union {k} = added
    BY <2>3
  <2> QED
    BY <1>1, <2>1, <2>4
<1> QED
  BY <1>2, <1>4, <1>5, <1>6 DEF AddAtHead

LEMMA InsertedAfter ==
  ASSUME list \in Seq(Buckets), NEW i \in 1 .. Len(list), NEW b \in Buckets
  PROVE  /\ InsertAfter(i, b) \in Seq(Buckets)
         /\ Len(InsertAfter(i, b)) = Len(list) + 1
         /\ \A j \in 1 .. i : InsertAfter(i, b)[j] = list[j]
         /\ InsertAfter(i, b)[i + 1] = b
         /\ \A j \in i + 1 .. Len(list) : InsertAfter(i, b)[j + 1] = list[j]
<1> DEFINE first == SubSeq(list, 1, i)
           rest == SubSeq(list, i + 1, Len(list))
           begin == first \o <<b>>
<1>1. Len(list) \in Nat /\ i \in Nat /\ i <= Len(list)
      /\ \A j \in 1 .. Len(list) : list[j] \in Buckets
  BY LenProperties, KeysOfList
<1>2. /\ first \in Seq(Buckets) /\ Len(first) = i
      /\ \A j \in 1 .. i : first[j] = list[j]
  <2>1. \A j \in 1 .. i : list[j] \in Buckets
    BY <1>1
  <2>2. /\ first \in Seq(Buckets) /\ Len(first) = IF 1 <= i THEN i - 1 + 1 ELSE 0
        /\ \A j \in 1 .. i - 1 + 1 : first[j] = list[1 + j - 1]
    BY <1>1, <2>1, SubSeqProperties
  <2> HIDE DEF first
  <2> QED
    BY <1>1, <2>2
<1>3. /\ rest \in Seq(Buckets) /\ Len(rest) = Len(list) - i
      /\ \A j \in 1 .. Len(list) - i : rest[j] = list[i + j]
  <2>1. \A j \in i + 1 .. Len(list) : list[j] \in Buckets
    BY <1>1
  <2>2. /\ rest \in Seq(Buckets)
        /\ Len(rest) = IF i + 1 <= Len(list) THEN Len(list) - (i + 1) + 1 ELSE 0
        /\ \A j \in 1 .. Len(list) - (i + 1) + 1 : rest[j] = list[(i + 1) + j - 1]
    BY <1>1, <2>1, SubSeqProperties
  <2> HIDE DEF rest
  <2>3. \A j \in 1 .. Len(list) - i : (i + 1) + j - 1 = i + j
    BY <1>1
  <2> QED
    BY <1>1, <2>2, <2>3
<1> HIDE DEF first, rest
<1>4. <<b>> \in Seq(Buckets) /\ Len(<<b>>) = 1 /\ <<b>>[1] = b
  OBVIOUS
<1>5. /\ begin \in Seq(Buckets) /\ Len(begin) = i + 1
      /\ \A j \in 1 .. i + 1 : begin[j] = IF j <= i THEN first[j] ELSE <<b>>[j - i]
  BY <1>2, <1>4, ConcatProperties
<1>6. /\ \A j \in 1 .. i : begin[j] = list[j]
      /\ begin[i + 1] = b
  <2>1. i + 1 \in 1 .. i + 1 /\ ~(i + 1 <= i) /\ (i + 1) - i = 1
    BY <1>1
  <2>2. \A j \in 1 .. i : j \in 1 .. i + 1 /\ j <= i
    BY <1>1
  <2> QED
    BY <1>2, <1>4, <1>5, <2>1, <2>2
<1> HIDE DEF begin
<1>7. InsertAfter(i, b) = begin \o rest
  BY DEF InsertAfter, begin, first, rest
<1>8. /\ begin \o rest \in Seq(Buckets) /\ Len(begin \o rest) = Len(list) + 1
      /\ \A j \in 1 .. Len(list) + 1 : (begin \o rest)[j] =
             IF j <= i + 1 THEN begin[j] ELSE rest[j - (i + 1)]
  <2>1. Len(begin) + Len(rest) = Len(list) + 1
    BY <1>1, <1>3, <1>5
  <2>2. /\ begin \o rest \in Seq(Buckets)
        /\ Len(begin \o rest) = Len(begin) + Len(rest)
        /\ \A j \in 1 .. Len(begin) + Len(rest) : (begin \o rest)[j] =
               IF j <= Len(begin) THEN begin[j] ELSE rest[j - Len(begin)]
    BY <1>3, <1>5, ConcatProperties
  <2>3. Len(begin) = i + 1
    BY <1>5
  <2> QED
    BY <2>1, <2>2, <2>3
<1>9. \A j \in 1 .. i + 1 : (begin \o rest)[j] = begin[j]
  <2>1. \A j \in 1 .. i + 1 : j \in 1 .. Len(list) + 1 /\ j <= i + 1
    BY <1>1
  <2> QED
    BY <1>8, <2>1
<1>10. \A j \in i + 1 .. Len(list) : (begin \o rest)[j + 1] = list[j]
  <2> TAKE j \in i + 1 .. Len(list)
  <2>1. /\ j + 1 \in 1 .. Len(list) + 1 /\ ~(j + 1 <= i + 1)
        /\ (j + 1) - (i + 1) = j - i /\ j - i \in 1 .. Len(list) - i /\ i + (j - i) = j
    BY <1>1
  <2> QED
    BY <1>3, <1>8, <2>1
<1>11. \A j \in 1 .. i : j \in 1 .. i + 1
  BY <1>1
<1>12. i + 1 \in 1 .. i + 1
  BY <1>1
<1> QED
  BY <1>6, <1>7, <1>8, <1>9, <1>10, <1>11, <1>12

(* Adding a key below the head: the walk has passed buckets above it only. *)
LEMMA AddBelowHeadKeeps ==
  ASSUME ListInv, NEW k \in Keys, AddBelowHead(k)
  PROVE  ListInv'
<1> USE DEF ListInv, Added
<1>1. /\ list \in Seq(Buckets) /\ Len(list) \in Nat /\ k \in Int
      /\ \A j \in 1 .. Len(list) : /\ list[j] \in Buckets /\ list[j].key \in Int
                                    /\ Sound(list[j])
  BY LenProperties, KeysOfList, WidthAssumption DEF ListOK, Keys
<1>2. PICK i \in 1 .. Len(list) :
        /\ Stops(i, k) /\ \A j \in 1 .. i - 1 : ~Stops(j, k)
        /\ list' = NewList(i, k) /\ added' = added \union {k}
  BY DEF AddBelowHead
<1>3. k < list[i].key
  <2>1. CASE i = 1
    BY <1>2, <2>1 DEF AddBelowHead
  <2>2. CASE i # 1
    <3>1. i - 1 \in 1 .. i - 1 /\ (i - 1) + 1 = i /\ i - 1 < Len(list)
      BY <1>1, <1>2, <2>2
    <3>2. ~Between(i - 1, k) /\ ~IsNext(i - 1, k)
      BY <1>2, <3>1 DEF Stops
    <3> QED
      BY <1>1, <3>1, <3>2 DEF Between, IsNext
  <2> QED
    BY <2>1, <2>2
<1>4. \A j \in 1 .. i : k < list[j].key
  <2> TAKE j \in 1 .. i
  <2>1. j \in 1 .. Len(list) /\ (j = i \/ list[i].key < list[j].key)
    BY <1>1, <1>2 DEF ListOK, InOrder
  <2> QED
    BY <1>1, <1>3, <2>1
<1>5. ASSUME k \in Within(list[i]) \/ IsNext(i, k), list' = list PROVE ListInv'
  <2>1. \E j \in 1 .. Len(list) : k \in Within(list[j])
    <3>1. CASE IsNext(i, k)
      <4>1. i + 1 \in 1 .. Len(list) /\ k = list[i + 1].key
        BY <1>1, <3>1 DEF IsNext
      <4>2. k \in Within(list[i + 1])
        BY <1>1, <4>1 DEF Within, Buckets
      <4> QED
        BY <4>1, <4>2
    <3> QED
      BY <1>5, <3>1
  <2>2. added \union {k} = added
    BY <2>1 DEF ListOK, StandsFor
  <2> QED
    BY <1>2, <1>5, <2>2
<1>6. CASE Contained(i, k)
  <2>1. list' = list
    BY <1>2, <1>6 DEF NewList
  <2>2. list[i].len \in Nat
    BY <1>1 DEF Buckets
  <2>3. k > list[i].key - list[i].len
    <3>1. /\ list[i].len = list[i].key + 1 => Below(list[i]) = Width - 1
          /\ list[i].len # list[i].key + 1 => Below(list[i]) = list[i].key - list[i].len
      BY <1>1, BucketArithmetic
    <3>2. k > Below(list[i]) /\ k < Width
      BY <1>6, WidthAssumption DEF Contained, Keys
    <3> QED
      BY <1>1, <2>2, <3>1, <3>2, WidthAssumption
  <2> QED
    BY <1>1, <1>3, <1>5, <2>1, <2>2, <2>3 DEF Within
<1>7. CASE ~Contained(i, k) /\ JustBelow(i, k)
  <2>1. CASE IsNext(i, k)
    BY <1>2, <1>5, <1>7, <2>1 DEF NewList
  <2>2. CASE ~IsNext(i, k)
    <3> DEFINE b == GrowDown(list[i])
    <3>1. list' = [list EXCEPT ![i] = b]
      BY <1>2, <1>7, <2>2 DEF NewList
    <3>2. /\ b \in Buckets /\ Sound(b) /\ b.key = list[i].key
          /\ Within(b) = Within(list[i]) \union {k}
      BY <1>1, <1>2, <1>3, <1>7, GrownDown DEF JustBelow
    <3> HIDE DEF b
    <3>3. \A j \in 1 .. i - 1 : b.key < list[j].key
      BY <1>1, <1>2, <3>2 DEF ListOK, InOrder
    <3>4. b.key >= list[i].key
      BY <1>1, <3>2
    <3>5. ListOK([list EXCEPT ![i] = b], added \union {k})
      BY <3>2, <3>3, <3>4, Replaced
    <3> QED
      BY <1>2, <3>1, <3>5
  <2> QED
    BY <2>1, <2>2
<1>8. CASE ~Contained(i, k) /\ ~JustBelow(i, k) /\ JustAbove(i, k)
  <2> DEFINE b == GrowUp(list[i + 1])
  <2>1. i + 1 \in 1 .. Len(list) /\ i < i + 1 /\ k = Above(list[i + 1])
    BY <1>1, <1>8 DEF JustAbove
  <2>2. list' = [list EXCEPT ![i + 1] = b]
    BY <1>2, <1>8 DEF NewList
  <2>3. list[i + 1].key # Width - 1
    <3>1. list[i + 1].key < list[i].key
      BY <1>1, <2>1 DEF ListOK, InOrder
    <3>2. list[i].key <= Width - 1
      BY <1>1, WidthAssumption DEF Buckets, Keys
    <3> QED
      BY <1>1, <2>1, <3>1, <3>2, WidthAssumption
  <2>4. /\ b \in Buckets /\ Sound(b) /\ b.key = k
        /\ Within(b) = Within(list[i + 1]) \union {k}
    BY <1>1, <2>1, <2>3, GrownUp
  <2>5. k = list[i + 1].key + 1
    BY <1>1, <2>1, <2>3, BucketArithmetic
  <2> HIDE DEF b
  <2>6. b.key >= list[i + 1].key /\ \A j \in 1 .. (i + 1) - 1 : b.key < list[j].key
    BY <1>1, <1>4, <2>1, <2>4, <2>5
  <2>7. ListOK([list EXCEPT ![i + 1] = b], added \union {k})
    BY <2>1, <2>4, <2>6, Replaced
  <2> QED
    BY <1>2, <2>2, <2>7
<1>9. CASE ~Contained(i, k) /\ ~JustBelow(i, k) /\ ~JustAbove(i, k) /\ IsNext(i, k)
  BY <1>2, <1>5, <1>9 DEF NewList
<1>10. CASE ~Contained(i, k) /\ ~JustBelow(i, k) /\ ~JustAbove(i, k) /\ ~IsNext(i, k)
  <2>1. list' = InsertAfter(i, Bucket(k)) /\ Bucket(k) \in Buckets
    BY <1>2, <1>10, OneBucket DEF NewList
  <2>2. /\ list' \in Seq(Buckets) /\ Len(list') = Len(list) + 1
        /\ \A j \in 1 .. i : list'[j] = list[j]
        /\ list'[i + 1] = Bucket(k)
        /\ \A j \in i + 1 .. Len(list) : list'[j + 1] = list[j]
    BY <1>1, <2>1, InsertedAfter
  <2>3. i = Len(list) \/ (i < Len(list) /\ k > list[i + 1].key)
    BY <1>2, <1>10 DEF Stops, IsLast, Between
  <2>4. \A j \in i + 1 .. Len(list) : list[j].key < k
    <3> TAKE j \in i + 1 .. Len(list)
    <3>1. /\ i + 1 \in 1 .. Len(list) /\ j \in 1 .. Len(list) /\ k > list[i + 1].key
          /\ j = i + 1 \/ i + 1 < j
      BY <1>1, <2>3
    <3>2. j = i + 1 \/ list[j].key < list[i + 1].key
      BY <3>1 DEF ListOK, InOrder
    <3> QED
      BY <1>1, <3>1, <3>2
  <2>5. i \in 0 .. Len(list) /\ ListOK(list, added)
    BY <1>1
  <2>6. ListOK(list', added \union {k})
    BY <1>4, <2>2, <2>4, <2>5, LinkedIn
  <2> QED
    BY <1>2, <2>6
<1> QED
  BY <1>6, <1>7, <1>8, <1>9, <1>10
-----------------------------------------------------------------------------
(* The buckets stand for the keys added and are in reverse order, whatever *)
(* was added in whatever order (tsk_list_add).                             *)
THEOREM ListInvariance == Spec => []ListInv
<1>1. Init => ListInv
  BY EmptySeq DEF Init, ListInv, ListOK, InOrder, StandsFor
<1>2. ListInv /\ [Next]_vars => ListInv'
  <2> SUFFICES ASSUME ListInv, [Next]_vars PROVE ListInv'
    OBVIOUS
  <2>1. ASSUME NEW k \in Keys, Add(k) PROVE ListInv'
    BY <2>1, AddAtHeadKeeps, AddBelowHeadKeeps DEF Add
  <2>2. CASE Free
    BY <2>2, EmptySeq DEF Free, ListInv, ListOK, InOrder, StandsFor
  <2>3. CASE UNCHANGED vars
    BY <2>3 DEF vars, ListInv
  <2> QED
    BY <2>1, <2>2, <2>3 DEF Next
<1> QED
  BY <1>1, <1>2, PTL DEF Spec

(* The order by which tsk_list_add and tsk_list_find end their walks       *)
THEOREM ListDescends == Spec => []Descending
<1>1. ListInv => Descending
  <2> SUFFICES ASSUME ListInv, NEW i \in 1 .. Len(list)
               PROVE  /\ list[i].len <= list[i].key + 1
                      /\ i < Len(list) => list[i + 1].key < list[i].key
    BY DEF Descending
  <2>1. Len(list) \in Nat /\ Sound(list[i])
    BY LenProperties DEF ListInv, ListOK
  <2> QED
    BY <2>1 DEF ListInv, ListOK, InOrder, Sound
<1> QED
  BY <1>1, ListInvariance, PTL

(* tsk_list_find finds a key exactly if tsk_list_add has added it, for     *)
(* keys of any width and in spite of the arithmetic that wraps around.     *)
THEOREM ListIsSet == Spec => []FindsExactlyTheAdded
<1>1. ListInv => FindsExactlyTheAdded
  <2> SUFFICES ASSUME ListInv, NEW k \in Keys PROVE Find(k) <=> k \in added
    BY DEF FindsExactlyTheAdded
  <2>1. /\ Len(list) \in Nat /\ k \in Int
        /\ \A i \in 1 .. Len(list) : /\ list[i] \in Buckets /\ list[i].key \in Int
                                      /\ Sound(list[i])
    BY LenProperties, KeysOfList, WidthAssumption DEF ListInv, ListOK, Keys
  <2>2. \A i \in 1 .. Len(list) : InBucket(list[i], k) <=> k \in Within(list[i])
    <3> TAKE i \in 1 .. Len(list)
    <3>1. list[i].len \in Int
      BY <2>1 DEF Buckets
    <3>2. (list[i].key + 1 - list[i].len) % Width = list[i].key + 1 - list[i].len
      BY <2>1, BucketArithmetic
    <3> QED
      BY <2>1, <3>1, <3>2 DEF InBucket, Within
  <2>3. ASSUME NEW i \in 1 .. Len(list), k \in Within(list[i])
        PROVE  \A j \in 1 .. i - 1 : k <= list[j].key
    <3> TAKE j \in 1 .. i - 1
    <3>1. j \in 1 .. Len(list) /\ j < i
      BY <2>1
    <3>2. list[i].key < list[j].key /\ k <= list[i].key
      BY <2>3, <3>1 DEF ListInv, ListOK, InOrder, Within
    <3> QED
      BY <2>1, <3>1, <3>2
  <2>4. Find(k) <=> \E i \in 1 .. Len(list) : k \in Within(list[i])
    BY <2>2, <2>3 DEF Find
  <2> QED
    BY <2>4 DEF ListInv, ListOK, StandsFor
<1> QED
  BY <1>1, ListInvariance, PTL
=============================================================================
