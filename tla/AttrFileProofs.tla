--------------------------- MODULE AttrFileProofs ---------------------------
(***************************************************************************)
(* Proofs about an attribute, for every file, every block size and every   *)
(* order in which the runs of the file arrive.  The first part is about    *)
(* the run list that is being filled, the second about the bytes that are  *)
(* read or shown through it.                                               *)
(*                                                                         *)
(* A list is taken apart into pieces: one from block x to block y is a     *)
(* sequence of runs, each starting where the one before it ends.  Pieces   *)
(* can be joined and split, and what a joined piece says of the blocks is  *)
(* what its parts say; each branch of tsk_fs_attr_add_run is a joining of  *)
(* pieces of the old list, new runs and fillers.                           *)
(***************************************************************************)
EXTENDS AttrFile, Ext4Extents, FiniteSetTheorems, WellFoundedInduction, SequenceTheorems, TLAPS

(* A set of natural numbers that is not empty has a least one: what stands *)
(* in for induction (what fails somewhere fails somewhere first).          *)
(* Of the intervals from 0 to the numbers of the set one has none of the   *)
(* others strictly inside it.                                              *)
LEMMA LeastNat ==
  ASSUME NEW T, T \subseteq Nat, T # {}
  PROVE  \E x \in T : \A y \in T : x <= y
<1> DEFINE D == {0 .. x : x \in T}
           Inside == StrictSubsetOrdering(Nat)
<1>1. IsWellFoundedOn(Inside, FiniteSubsetsOf(Nat))
  BY FS_StrictSubsetOrderingWellFounded
<1>2. \A x \in Nat : 0 .. x \in FiniteSubsetsOf(Nat)
  <2> TAKE x \in Nat
  <2>1. IsFiniteSet(0 .. x)
    BY FS_Interval
  <2>2. 0 .. x \subseteq Nat
    OBVIOUS
  <2> QED
    BY <2>1, <2>2 DEF FiniteSubsetsOf
<1>3. D \subseteq FiniteSubsetsOf(Nat) /\ D # {}
  BY <1>2
<1>4. PICK d \in D : \A e \in D : ~(<<e, d>> \in Inside)
  <2> HIDE DEF D, Inside
  <2> QED
    BY <1>1, <1>3, WFMin
<1>5. PICK x \in T : d = 0 .. x
  OBVIOUS
<1>6. ASSUME NEW y \in T, y < x PROVE FALSE
  <2>1. 0 .. y \subseteq d /\ 0 .. y # d
    BY <1>5, <1>6
  <2>2. <<0 .. y, d>> \in Inside
    BY <2>1, <1>5 DEF StrictSubsetOrdering
  <2> QED
    BY <1>4, <2>2
<1> QED
  BY <1>6

-----------------------------------------------------------------------------
(* A part of a run list that starts at block x of the file: each run starts *)
(* where the one before ends.  Upto is where the part ends.                *)
ListRun == [offset : Nat, addr : Nat, len : Nat \ {0}, filler : BOOLEAN]

(* The runs of s are consecutive from block x on. *)
Follows(x, s) ==
  /\ s \in Seq(ListRun)
  /\ s # <<>> => s[1].offset = x
  /\ \A i \in 1 .. Len(s) - 1 : s[i + 1].offset = s[i].offset + s[i].len

(* Where they end *)
Upto(x, s) == IF s = <<>> THEN x ELSE EndOf(s)

(* The runs of a piece are runs of a list. *)
LEMMA FollowsRuns ==
  ASSUME NEW x \in Nat, NEW s, Follows(x, s)
  PROVE  /\ s \in Seq(ListRun) /\ Len(s) \in Nat
         /\ \A i \in 1 .. Len(s) : /\ s[i] \in ListRun
                                   /\ s[i].offset \in Nat /\ s[i].len \in Nat
                                   /\ s[i].len > 0 /\ s[i].addr \in Nat
                                   /\ s[i].filler \in BOOLEAN
         /\ Upto(x, s) \in Nat
<1>1. s \in Seq(ListRun) /\ Len(s) \in Nat
  BY DEF Follows
<1>2. ASSUME NEW i \in 1 .. Len(s)
      PROVE  /\ s[i] \in ListRun
             /\ s[i].offset \in Nat /\ s[i].len \in Nat /\ s[i].len > 0
             /\ s[i].addr \in Nat /\ s[i].filler \in BOOLEAN
  <2>1. s[i] \in ListRun
    BY <1>1
  <2> QED
    BY <2>1 DEF ListRun
<1>3. Upto(x, s) \in Nat
  <2>1. CASE s = <<>>
    BY <2>1 DEF Upto
  <2>2. CASE s # <<>>
    <3>1. Len(s) \in 1 .. Len(s)
      BY <1>1, <2>2
    <3> QED
      BY <1>2, <2>2, <3>1 DEF Upto, EndOf, Last
  <2> QED
    BY <2>1, <2>2
<1> QED
  BY <1>1, <1>2, <1>3

(* Runs behind others are behind them in the file. *)
LEMMA FollowsInOrder ==
  ASSUME NEW x \in Nat, NEW s, Follows(x, s), NEW i \in 1 .. Len(s), NEW j \in 1 .. Len(s), i < j
  PROVE  s[i].offset + s[i].len <= s[j].offset
<1> DEFINE T == {k \in 1 .. Len(s) : i < k /\ ~(s[i].offset + s[i].len <= s[k].offset)}
<1> SUFFICES ASSUME T # {} PROVE FALSE
  OBVIOUS
<1>1. Len(s) \in Nat
      /\ \A k \in 1 .. Len(s) : s[k].offset \in Nat /\ s[k].len \in Nat /\ s[k].len > 0
  BY FollowsRuns
<1>2. T \subseteq Nat
  BY <1>1
<1>3. PICK m \in T : \A k \in T : m <= k
  BY <1>2, LeastNat
<1>4. m \in 1 .. Len(s) /\ m - 1 \in 1 .. Len(s) - 1 /\ m - 1 >= i /\ m - 1 \in 1 .. Len(s)
  BY <1>1, <1>3
<1>5. s[m].offset = s[m - 1].offset + s[m - 1].len
  BY <1>4, <1>1 DEF Follows
<1>6. CASE m - 1 = i
  BY <1>3, <1>5, <1>6, <1>1
<1>7. CASE m - 1 > i
  <2>1. m - 1 \notin T
    BY <1>3, <1>4
  <2>2. s[i].offset + s[i].len <= s[m - 1].offset
    BY <2>1, <1>4, <1>7
  <2> DEFINE a == s[i].offset + s[i].len
             b == s[m - 1].offset
             c == s[m - 1].len
             d == s[m].offset
  <2>3. a \in Nat /\ b \in Nat /\ c \in Nat /\ d \in Nat
    <3>1. \A k \in 1 .. Len(s) : s[k].offset \in Nat /\ s[k].len \in Nat
      BY <1>1
    <3>2. s[i].offset \in Nat /\ s[i].len \in Nat
      BY <3>1
    <3>3. /\ s[m].offset \in Nat
          /\ s[m - 1].offset \in Nat
          /\ s[m - 1].len \in Nat
      <4> HIDE DEF T
      <4>1. m \in 1 .. Len(s) /\ m - 1 \in 1 .. Len(s)
        BY <1>4
      <4> QED
        BY <3>1, <4>1
    <3>4. s[i].offset + s[i].len \in Nat
      BY <3>2, SMTT(20)
    <3> QED
      BY <3>3, <3>4
  <2>4. a <= d
    <3>1. d = b + c /\ a <= b
      BY <1>5, <2>2
    <3> HIDE DEF a, b, c, d
    <3> QED
      BY <2>3, <3>1
  <2> QED
    BY <1>3, <2>4
<1> QED
  BY <1>4, <1>6, <1>7

(* Every run of a part lies between its ends. *)
LEMMA FollowsWithin ==
  ASSUME NEW x \in Nat, NEW s, Follows(x, s), NEW i \in 1 .. Len(s)
  PROVE  x <= s[i].offset /\ s[i].offset + s[i].len <= Upto(x, s)
<1>1. Len(s) \in Nat /\ s \in Seq(ListRun)
      /\ \A k \in 1 .. Len(s) : s[k].offset \in Nat /\ s[k].len \in Nat /\ s[k].len > 0
  BY FollowsRuns
<1>2. s # <<>> /\ 1 \in 1 .. Len(s) /\ Len(s) \in 1 .. Len(s) /\ s[1].offset = x
  BY <1>1 DEF Follows
<1>3. Upto(x, s) = s[Len(s)].offset + s[Len(s)].len
  BY <1>2 DEF Upto, EndOf, Last
<1>4. x <= s[i].offset
  <2>1. CASE i = 1
    BY <2>1, <1>2
  <2>2. CASE 1 < i
    <3>1. s[1].offset + s[1].len <= s[i].offset
      BY <2>2, <1>2, FollowsInOrder
    <3> QED
      BY <3>1, <1>1, <1>2
  <2> QED
    BY <2>1, <2>2
<1>5. s[i].offset + s[i].len <= Upto(x, s)
  <2>1. CASE i = Len(s)
    BY <2>1, <1>3, <1>1
  <2>2. CASE i < Len(s)
    <3>1. s[i].offset + s[i].len <= s[Len(s)].offset
      BY <2>2, <1>2, FollowsInOrder
    <3> DEFINE a == s[i].offset + s[i].len
               b == s[Len(s)].offset
               c == s[Len(s)].len
    <3>2. s[i].offset \in Nat /\ s[i].len \in Nat
      BY <1>1
    <3>3. a \in Nat /\ b \in Nat /\ c \in Nat
      BY <1>1, <1>2, <3>2
    <3>4. a <= b + c
      <4> HIDE DEF a, b, c
      <4> QED
        BY <3>1, <3>3 DEF a, b
    <3> QED
      BY <3>4, <1>3
  <2> QED
    BY <2>1, <2>2, <1>1
<1> QED
  BY <1>4, <1>5

(* Every block between the ends of a part is in one of its runs. *)
LEMMA FollowsCovers ==
  ASSUME NEW x \in Nat, NEW s, Follows(x, s), NEW y \in Nat, x <= y, y < Upto(x, s)
  PROVE  \E i \in 1 .. Len(s) : s[i].offset <= y /\ y < s[i].offset + s[i].len
<1> DEFINE T == {k \in 1 .. Len(s) : y < s[k].offset + s[k].len}
<1>1. Len(s) \in Nat /\ s \in Seq(ListRun)
      /\ \A k \in 1 .. Len(s) : s[k].offset \in Nat /\ s[k].len \in Nat /\ s[k].len > 0
  BY FollowsRuns
<1>2. s # <<>> /\ Len(s) \in 1 .. Len(s) /\ s[1].offset = x
  BY <1>1 DEF Follows, Upto
<1>3. Len(s) \in T
  BY <1>2 DEF Upto, EndOf, Last
<1>4. PICK m \in T : \A k \in T : m <= k
  <2>1. T \subseteq Nat
    BY <1>1
  <2> QED
    BY <2>1, <1>3, LeastNat
<1>5. CASE m = 1
  BY <1>5, <1>4, <1>2
<1>6. CASE m # 1
  <2>1. m - 1 \in 1 .. Len(s) - 1 /\ m - 1 \in 1 .. Len(s)
    BY <1>1, <1>4, <1>6
  <2>2. m - 1 \notin T
    BY <1>4, <2>1
  <2>3. s[m].offset = s[m - 1].offset + s[m - 1].len
    BY <2>1, <1>1, <1>4 DEF Follows
  <2>4. s[m].offset <= y
    BY <2>1, <2>2, <2>3, <1>1
  <2> QED
    BY <2>4, <1>4
<1> QED
  BY <1>5, <1>6

(* Parts that follow each other are a part. *)
LEMMA FollowsConcat ==
  ASSUME NEW x \in Nat, NEW s, NEW t, Follows(x, s), Follows(Upto(x, s), t)
  PROVE  /\ Follows(x, s \o t)
         /\ Upto(x, s \o t) = Upto(Upto(x, s), t)
         /\ Len(s \o t) = Len(s) + Len(t)
<1>1. Upto(x, s) \in Nat /\ s \in Seq(ListRun) /\ Len(s) \in Nat
  BY FollowsRuns
<1>2. t \in Seq(ListRun) /\ Len(t) \in Nat
  BY <1>1, FollowsRuns
<1>3. s \o t \in Seq(ListRun) /\ Len(s \o t) = Len(s) + Len(t)
  BY <1>1, <1>2
<1>4. \A i \in 1 .. Len(s \o t) : (s \o t)[i] = IF i <= Len(s) THEN s[i] ELSE t[i - Len(s)]
  BY <1>1, <1>2
<1>5. CASE s = <<>>
  <2>1. s \o t = t
    BY <1>5, <1>2
  <2> QED
    BY <1>3, <1>5, <2>1 DEF Upto
<1>6. CASE t = <<>>
  <2>1. s \o t = s
    BY <1>6, <1>1
  <2> QED
    BY <1>3, <1>6, <2>1 DEF Upto
<1>7. CASE s # <<>> /\ t # <<>>
  <2>1. s \o t # <<>> /\ Len(s) > 0 /\ Len(t) > 0
    BY <1>7, <1>1, <1>2, <1>3
  <2>2. (s \o t)[1].offset = x
    BY <1>3, <1>4, <2>1, <1>7, <1>1, <1>2 DEF Follows
  <2>3. Upto(x, s) = s[Len(s)].offset + s[Len(s)].len /\ t[1].offset = Upto(x, s)
    BY <1>7 DEF Upto, EndOf, Last, Follows
  <2>4. ASSUME NEW i \in 1 .. Len(s \o t) - 1
        PROVE  (s \o t)[i + 1].offset = (s \o t)[i].offset + (s \o t)[i].len
    <3>1. CASE i < Len(s)
      <4>1. (s \o t)[i] = s[i] /\ (s \o t)[i + 1] = s[i + 1] /\ i \in 1 .. Len(s) - 1
        BY <3>1, <1>1, <1>2, <1>3, <1>4
      <4> QED
        BY <4>1 DEF Follows
    <3>2. CASE i = Len(s)
      <4>1. (s \o t)[i] = s[Len(s)] /\ (s \o t)[i + 1] = t[1]
        BY <3>2, <1>1, <1>2, <1>3, <1>4
      <4> QED
        BY <4>1, <2>3
    <3>3. CASE i > Len(s)
      <4> DEFINE k == i - Len(s)
      <4>1. (s \o t)[i] = t[k] /\ (s \o t)[i + 1] = t[k + 1] /\ k \in 1 .. Len(t) - 1
        BY <3>3, <1>1, <1>2, <1>3, <1>4
      <4> HIDE DEF k
      <4> QED
        BY <4>1 DEF Follows
    <3> QED
      BY <3>1, <3>2, <3>3, <1>1, <1>3
  <2>5. (s \o t)[Len(s \o t)] = t[Len(t)]
    BY <1>1, <1>2, <1>3, <1>4, <2>1
  <2> QED
    BY <1>3, <2>1, <2>2, <2>4, <2>5, <1>7 DEF Follows, Upto, EndOf, Last
<1> QED
  BY <1>5, <1>6, <1>7

(* A part can be taken apart anywhere. *)
LEMMA FollowsSplit ==
  ASSUME NEW x \in Nat, NEW s, Follows(x, s), NEW k \in 0 .. Len(s)
  PROVE  /\ Follows(x, SubSeq(s, 1, k))
         /\ Upto(x, SubSeq(s, 1, k)) = IF k = 0 THEN x ELSE s[k].offset + s[k].len
         /\ Len(SubSeq(s, 1, k)) = k
         /\ Follows(Upto(x, SubSeq(s, 1, k)), SubSeq(s, k + 1, Len(s)))
         /\ Upto(Upto(x, SubSeq(s, 1, k)), SubSeq(s, k + 1, Len(s))) = Upto(x, s)
         /\ k < Len(s) => s[k + 1].offset = Upto(x, SubSeq(s, 1, k))
<1> DEFINE a == SubSeq(s, 1, k)
           b == SubSeq(s, k + 1, Len(s))
           n == Len(s)
<1>1. s \in Seq(ListRun) /\ n \in Nat /\ (s = <<>> <=> n = 0)
  BY FollowsRuns
<1>2. a \in Seq(ListRun) /\ Len(a) = k /\ \A i \in 1 .. k : a[i] = s[i]
  BY <1>1
<1>3. b \in Seq(ListRun) /\ Len(b) = n - k /\ \A i \in 1 .. n - k : b[i] = s[k + i]
  BY <1>1
<1>4. (n > 0 => s[1].offset = x) /\ \A i \in 1 .. n - 1 : s[i + 1].offset = s[i].offset + s[i].len
  BY <1>1 DEF Follows
<1>5. Upto(x, s) = IF n = 0 THEN x ELSE s[n].offset + s[n].len
  BY <1>1 DEF Upto, EndOf, Last
<1> HIDE DEF a, b, n
<1>6. (a = <<>> <=> k = 0) /\ (b = <<>> <=> k = n)
  BY <1>1, <1>2, <1>3 DEF n
<1>7. Upto(x, a) = IF k = 0 THEN x ELSE s[k].offset + s[k].len
  BY <1>2, <1>6 DEF Upto, EndOf, Last
<1>8. Follows(x, a)
  BY <1>1, <1>2, <1>4, <1>6, SMTT(20) DEF Follows, n
<1>9. k < n => s[k + 1].offset = Upto(x, a)
  BY <1>1, <1>4, <1>7 DEF n
<1>10. Follows(Upto(x, a), b)
  <2>1. b # <<>> => b[1].offset = Upto(x, a)
    <3> SUFFICES ASSUME b # <<>> PROVE b[1].offset = Upto(x, a)
      OBVIOUS
    <3>1. k < n /\ 1 \in 1 .. n - k
      BY <1>1, <1>6 DEF n
    <3> QED
      BY <3>1, <1>3, <1>9
  <2>2. ASSUME NEW i \in 1 .. Len(b) - 1 PROVE b[i + 1].offset = b[i].offset + b[i].len
    <3>1. i \in 1 .. n - k /\ i + 1 \in 1 .. n - k /\ k + i \in 1 .. n - 1
      BY <1>1, <1>3 DEF n
    <3>2. b[i] = s[k + i] /\ b[i + 1] = s[k + i + 1]
      <4>1. b[i + 1] = s[k + (i + 1)] /\ k + (i + 1) = k + i + 1
        BY <3>1, <1>3, <1>1
      <4> QED
        BY <4>1, <3>1, <1>3
    <3> QED
      BY <3>1, <3>2, <1>4
  <2> QED
    BY <2>1, <2>2, <1>3 DEF Follows
<1>11. Upto(Upto(x, a), b) = Upto(x, s)
  <2>1. CASE k = n
    BY <2>1, <1>5, <1>6, <1>7 DEF Upto
  <2>2. CASE k < n
    <3>1. b[n - k] = s[n] /\ Len(b) = n - k /\ b # <<>> /\ n # 0
      BY <2>2, <1>1, <1>3, <1>6 DEF n
    <3> QED
      BY <3>1, <1>5 DEF Upto, EndOf, Last
  <2> QED
    BY <2>1, <2>2, <1>1 DEF n
<1> QED
  BY <1>2, <1>7, <1>8, <1>9, <1>10, <1>11 DEF a, b, n

(* The length of consecutive runs is the distance between their ends.      *)
LEMMA RunLenIs ==
  ASSUME NEW x \in Nat, NEW s, Follows(x, s)
  PROVE  RunLen(s) = Upto(x, s) - x
<1> DEFINE n == Len(s)
           Sums(u) == [i \in 0 .. n |-> IF i = 0 THEN 0 ELSE u[i - 1] + s[i].len]
           w == [i \in 0 .. n |-> IF i = 0 THEN 0 ELSE s[i].offset + s[i].len - x]
           f == CHOOSE u : u = Sums(u)
<1>1. /\ n \in Nat
      /\ \A i \in 1 .. n : s[i].offset \in Nat /\ s[i].len \in Nat
      /\ n > 0 => s[1].offset = x
      /\ \A i \in 1 .. n - 1 : s[i + 1].offset = s[i].offset + s[i].len
  <2>1. n > 0 => s # <<>>
    BY FollowsRuns
  <2> QED
    BY FollowsRuns, <2>1 DEF Follows
<1>2. w = Sums(w)
  <2>1. ASSUME NEW i \in 0 .. n, i # 0 PROVE w[i] = w[i - 1] + s[i].len
    <3> HIDE DEF n
    <3>1. CASE i = 1
      BY <3>1, <1>1
    <3>2. CASE i > 1
      <4>1. i - 1 \in 1 .. n - 1 /\ i - 1 \in 1 .. n /\ i \in 1 .. n
        BY <1>1, <3>2
      <4>2. s[(i - 1) + 1].offset = s[i - 1].offset + s[i - 1].len
        BY <4>1, <1>1
      <4>3. w[i] = s[i].offset + s[i].len - x /\ w[i - 1] = s[i - 1].offset + s[i - 1].len - x
        BY <4>1, <2>1
      <4> HIDE DEF w
      <4>4. s[i].offset = s[i - 1].offset + s[i - 1].len
        BY <4>1, <4>2
      <4>5. /\ s[i].offset \in Nat /\ s[i].len \in Nat
            /\ s[i - 1].offset \in Nat /\ s[i - 1].len \in Nat
        BY <1>1, <4>1
      <4> QED
        BY <4>3, <4>4, <4>5
    <3> QED
      BY <3>1, <3>2, <2>1
  <2>2. w[0] = 0
    BY <1>1
  <2>3. w = [i \in 0 .. n |-> w[i]]
    OBVIOUS
  <2> HIDE DEF w, n
  <2> QED
    BY <2>1, <2>2, <2>3
<1>3. f = Sums(f)
  <2> HIDE DEF w, Sums
  <2> QED
    BY <1>2
<1>4. ASSUME NEW T, T = {i \in 0 .. n : f[i] # w[i]}, T # {} PROVE FALSE
  <2> HIDE DEF f, w, n
  <2>1. T \subseteq Nat
    BY <1>1, <1>4
  <2>2. PICK m \in T : \A i \in T : m <= i
    BY <2>1, <1>4, LeastNat
  <2>3. m \in 0 .. n /\ f[m] # w[m]
    BY <2>2, <1>4
  <2>4. CASE m = 0
    BY <2>3, <2>4, <1>2, <1>3
  <2>5. CASE m # 0
    <3>1. m - 1 \in 0 .. n /\ m - 1 \notin T
      BY <2>1, <2>2, <2>3, <2>5, <1>1
    <3>2. f[m - 1] = w[m - 1]
      BY <3>1, <1>4
    <3>3. f[m] = f[m - 1] + s[m].len
      BY <1>3, <2>3, <2>5
    <3>4. w[m] = w[m - 1] + s[m].len
      BY <1>2, <2>3, <2>5
    <3> QED
      BY <2>3, <3>2, <3>3, <3>4
  <2> QED
    BY <2>4, <2>5
<1>5. f[n] = w[n]
  <2> DEFINE U == {i \in 0 .. n : f[i] # w[i]}
  <2>1. U = {}
    <3> HIDE DEF U, f, w
    <3> QED
      BY <1>4 DEF U
  <2>2. n \in 0 .. n
    BY <1>1
  <2> HIDE DEF f, w, n
  <2> QED
    BY <2>1, <2>2
<1>6. RunLen(s) = f[n]
  BY DEF RunLen
<1>7. w[n] = IF n = 0 THEN 0 ELSE s[n].offset + s[n].len - x
  BY <1>1
<1>8. Upto(x, s) = IF n = 0 THEN x ELSE s[n].offset + s[n].len
  <2>1. s = <<>> <=> n = 0
    BY FollowsRuns
  <2> QED
    BY <2>1 DEF Upto, EndOf, Last
<1> HIDE DEF f, w
<1> QED
  BY <1>5, <1>6, <1>7, <1>8, <1>1

(* Renumbered runs are the same runs at another place in the file. *)
LEMMA RenumberedIs ==
  ASSUME NEW x \in Nat, NEW s, Follows(x, s), NEW from \in Nat
  PROVE  /\ Follows(from, Renumbered(from, s))
         /\ Upto(from, Renumbered(from, s)) = from + (Upto(x, s) - x)
         /\ Len(Renumbered(from, s)) = Len(s)
         /\ \A i \in 1 .. Len(s) : Renumbered(from, s)[i].filler = s[i].filler
<1> DEFINE n == Len(s)
           Sums(u) == [i \in 1 .. n |-> IF i = 1 THEN from ELSE u[i - 1] + s[i - 1].len]
           w == [i \in 1 .. n |-> from + (s[i].offset - x)]
           f == CHOOSE u : u = Sums(u)
           t == Renumbered(from, s)
<1>1. /\ n \in Nat /\ s \in Seq(ListRun)
      /\ \A i \in 1 .. n : s[i].offset \in Nat /\ s[i].len \in Nat
      /\ n > 0 => s[1].offset = x
      /\ \A i \in 1 .. n - 1 : s[i + 1].offset = s[i].offset + s[i].len
  <2>1. n > 0 => s # <<>>
    BY FollowsRuns
  <2> QED
    BY FollowsRuns, <2>1 DEF Follows
<1>2. w = Sums(w)
  <2>1. ASSUME NEW i \in 1 .. n, i # 1 PROVE w[i] = w[i - 1] + s[i - 1].len
    <3> HIDE DEF n
    <3>1. i - 1 \in 1 .. n - 1 /\ i - 1 \in 1 .. n /\ i \in 1 .. n
      BY <1>1, <2>1
    <3>2. s[(i - 1) + 1].offset = s[i - 1].offset + s[i - 1].len
      BY <3>1, <1>1
    <3>3. w[i] = from + (s[i].offset - x) /\ w[i - 1] = from + (s[i - 1].offset - x)
      BY <3>1
    <3> HIDE DEF w
    <3>4. s[i].offset = s[i - 1].offset + s[i - 1].len
      BY <3>1, <3>2
    <3>5. s[i - 1].offset \in Nat /\ s[i - 1].len \in Nat
      BY <1>1, <3>1
    <3> QED
      BY <3>3, <3>4, <3>5
  <2>2. n > 0 => w[1] = from
    BY <1>1
  <2>3. w = [i \in 1 .. n |-> w[i]]
    OBVIOUS
  <2>4. \A i \in 1 .. n : w[i] = IF i = 1 THEN from ELSE w[i - 1] + s[i - 1].len
    <3> TAKE i \in 1 .. n
    <3>1. n > 0
      BY <1>1
    <3> HIDE DEF w, n
    <3> QED
      BY <2>1, <2>2, <3>1
  <2> HIDE DEF w, n
  <2> QED
    BY <2>3, <2>4
<1>3. f = Sums(f)
  <2> HIDE DEF w, Sums
  <2> QED
    BY <1>2
<1>4. ASSUME NEW T, T = {i \in 1 .. n : f[i] # w[i]}, T # {} PROVE FALSE
  <2> HIDE DEF f, w, n
  <2>1. T \subseteq Nat
    BY <1>1, <1>4
  <2>2. PICK m \in T : \A i \in T : m <= i
    BY <2>1, <1>4, LeastNat
  <2>3. m \in 1 .. n /\ f[m] # w[m]
    BY <2>2, <1>4
  <2>4. CASE m = 1
    BY <2>3, <2>4, <1>2, <1>3
  <2>5. CASE m # 1
    <3>1. m - 1 \in 1 .. n /\ m - 1 \notin T
      BY <2>1, <2>2, <2>3, <2>5, <1>1
    <3>2. f[m - 1] = w[m - 1]
      BY <3>1, <1>4
    <3>3. f[m] = f[m - 1] + s[m - 1].len
      BY <1>3, <2>3, <2>5
    <3>4. w[m] = w[m - 1] + s[m - 1].len
      BY <1>2, <2>3, <2>5
    <3> QED
      BY <2>3, <3>2, <3>3, <3>4
  <2> QED
    BY <2>4, <2>5
<1>5. \A i \in 1 .. n : f[i] = w[i]
  <2> DEFINE U == {i \in 1 .. n : f[i] # w[i]}
  <2>1. U = {}
    <3> HIDE DEF U, f, w
    <3> QED
      BY <1>4 DEF U
  <2> HIDE DEF f, w, n
  <2> QED
    BY <2>1
<1>6. t = [i \in 1 .. n |-> [s[i] EXCEPT !.offset = f[i]]]
  BY DEF Renumbered
<1> HIDE DEF f, t
<1>7. \A i \in 1 .. n : t[i] = [s[i] EXCEPT !.offset = from + (s[i].offset - x)]
  BY <1>5, <1>6
<1>8. \A i \in 1 .. n : x <= s[i].offset /\ s[i] \in ListRun
  BY FollowsWithin, FollowsRuns
<1>9. ASSUME NEW i \in 1 .. n
      PROVE  /\ t[i] \in ListRun
             /\ t[i].offset = from + (s[i].offset - x) /\ t[i].len = s[i].len
             /\ t[i].filler = s[i].filler
  <2>1. x <= s[i].offset /\ s[i] \in ListRun /\ t[i] = [s[i] EXCEPT !.offset = from + (s[i].offset - x)]
    BY <1>7, <1>8
  <2>2. from + (s[i].offset - x) \in Nat
    BY <2>1 DEF ListRun
  <2> QED
    BY <2>1, <2>2 DEF ListRun
<1>10. t \in Seq(ListRun) /\ Len(t) = n /\ (t = <<>> <=> n = 0)
  BY <1>1, <1>6, <1>9
<1>11. Follows(from, t)
  <2>1. ASSUME t # <<>> PROVE t[1].offset = from
    BY <2>1, <1>10, <1>9, <1>1
  <2>2. ASSUME NEW i \in 1 .. Len(t) - 1 PROVE t[i + 1].offset = t[i].offset + t[i].len
    <3>1. i \in 1 .. n /\ i + 1 \in 1 .. n /\ i \in 1 .. n - 1
      BY <1>10, <1>1
    <3>2. t[i + 1].offset = from + (s[i + 1].offset - x) /\ t[i].offset = from + (s[i].offset - x)
          /\ t[i].len = s[i].len
      BY <3>1, <1>9
    <3>3. s[i].offset \in Nat /\ s[i].len \in Nat /\ s[i + 1].offset = s[i].offset + s[i].len
      BY <3>1, <1>1
    <3> QED
      BY <3>2, <3>3
  <2> QED
    BY <2>1, <2>2, <1>10 DEF Follows
<1>12. Upto(from, t) = from + (Upto(x, s) - x)
  <2>1. s = <<>> <=> n = 0
    BY <1>1
  <2>2. CASE n = 0
    BY <2>1, <2>2, <1>10 DEF Upto
  <2>3. CASE n > 0
    <3>1. n \in 1 .. n
      BY <1>1, <2>3
    <3>2. t[n].offset = from + (s[n].offset - x) /\ t[n].len = s[n].len
      BY <3>1, <1>9
    <3>3. s[n].offset \in Nat /\ s[n].len \in Nat
      BY <3>1, <1>1
    <3>4. Upto(from, t) = t[n].offset + t[n].len /\ Upto(x, s) = s[n].offset + s[n].len
      BY <2>1, <2>3, <1>10, <1>1 DEF Upto, EndOf, Last
    <3> QED
      BY <3>2, <3>3, <3>4
  <2> QED
    BY <2>2, <2>3, <1>1
<1> QED
  BY <1>9, <1>10, <1>11, <1>12 DEF t

-----------------------------------------------------------------------------
(* What one run says of the blocks of the file *)
RunMap(r) == IF r.filler THEN {} ELSE {<<r.offset + k, Address(r, k)>> : k \in 0 .. r.len - 1}

(* A list says what its runs say. *)
LEMMA MapOfRuns ==
  ASSUME NEW s
  PROVE  BlockMap(s) = UNION {RunMap(s[i]) : i \in 1 .. Len(s)}
BY DEF BlockMap, RunMap

(* Two lists one after the other say what each of them says. *)
LEMMA MapConcat ==
  ASSUME NEW S, NEW s \in Seq(S), NEW t \in Seq(S)
  PROVE  BlockMap(s \o t) = BlockMap(s) \union BlockMap(t)
<1>1. Len(s \o t) = Len(s) + Len(t) /\ Len(s) \in Nat /\ Len(t) \in Nat
  OBVIOUS
<1>2. \A i \in 1 .. Len(s \o t) : (s \o t)[i] = IF i <= Len(s) THEN s[i] ELSE t[i - Len(s)]
  OBVIOUS
<1>3. ASSUME NEW b, b \in BlockMap(s \o t) PROVE b \in BlockMap(s) \union BlockMap(t)
  <2>1. PICK i \in 1 .. Len(s \o t) : b \in RunMap((s \o t)[i])
    BY <1>3, MapOfRuns
  <2>2. CASE i <= Len(s)
    BY <2>1, <2>2, <1>1, <1>2, MapOfRuns
  <2>3. CASE i > Len(s)
    <3>1. i - Len(s) \in 1 .. Len(t) /\ (s \o t)[i] = t[i - Len(s)]
      BY <2>3, <1>1, <1>2
    <3> QED
      BY <2>1, <3>1, MapOfRuns
  <2> QED
    BY <2>2, <2>3, <1>1
<1>4. ASSUME NEW b, b \in BlockMap(s) PROVE b \in BlockMap(s \o t)
  <2>1. PICK i \in 1 .. Len(s) : b \in RunMap(s[i])
    BY <1>4, MapOfRuns
  <2>2. i \in 1 .. Len(s \o t) /\ (s \o t)[i] = s[i]
    BY <1>1, <1>2
  <2> QED
    BY <2>1, <2>2, MapOfRuns
<1>5. ASSUME NEW b, b \in BlockMap(t) PROVE b \in BlockMap(s \o t)
  <2>1. PICK i \in 1 .. Len(t) : b \in RunMap(t[i])
    BY <1>5, MapOfRuns
  <2>2. i + Len(s) \in 1 .. Len(s \o t) /\ (s \o t)[i + Len(s)] = t[i]
    <3>1. i + Len(s) \in 1 .. Len(s \o t) /\ ~(i + Len(s) <= Len(s)) /\ (i + Len(s)) - Len(s) = i
      BY <1>1
    <3> QED
      BY <3>1, <1>2
  <2> QED
    BY <2>1, <2>2, MapOfRuns
<1> QED
  BY <1>3, <1>4, <1>5

(* An empty list says nothing. *)
LEMMA MapOfNothing == BlockMap(<<>>) = {}
BY MapOfRuns

(* Neither does a filler. *)
LEMMA MapOfFiller ==
  ASSUME NEW x, NEW n
  PROVE  BlockMap(<<Filler(x, n)>>) = {}
<1>1. Len(<<Filler(x, n)>>) = 1 /\ <<Filler(x, n)>>[1] = Filler(x, n)
  OBVIOUS
<1>2. RunMap(Filler(x, n)) = {}
  BY DEF RunMap, Filler
<1> QED
  BY <1>1, <1>2, MapOfRuns

(* A part of a list speaks of blocks between its ends. *)
LEMMA MapWithin ==
  ASSUME NEW x \in Nat, NEW s, Follows(x, s), NEW b \in BlockMap(s)
  PROVE  b[1] \in Nat /\ x <= b[1] /\ b[1] < Upto(x, s) /\ b[2] \in Nat
<1>1. PICK i \in 1 .. Len(s) : b \in RunMap(s[i])
  BY MapOfRuns
<1>2. /\ s[i].offset \in Nat /\ s[i].len \in Nat /\ s[i].addr \in Nat
      /\ x <= s[i].offset /\ s[i].offset + s[i].len <= Upto(x, s) /\ Upto(x, s) \in Nat
  BY FollowsRuns, FollowsWithin
<1>3. PICK k \in 0 .. s[i].len - 1 : b = <<s[i].offset + k, Address(s[i], k)>>
  BY <1>1 DEF RunMap
<1>4. Address(s[i], k) \in Nat
  BY <1>2, <1>3 DEF Address
<1> QED
  BY <1>2, <1>3, <1>4, SMTT(20)

-----------------------------------------------------------------------------
(* No list of the file has block y inside it, neither first nor behind it. *)
Whole(y) == \A t \in Extents : y <= t[1].offset \/ EndOf(t) <= y

(* A filler is made of whole lists. *)
FillerOk(r) == r.filler => Whole(r.offset) /\ Whole(r.offset + r.len)

(* A part of a run list from block x to block y, its fillers included      *)
Piece(x, s, y) ==
  /\ Follows(x, s) /\ Upto(x, s) = y
  /\ \A i \in 1 .. Len(s) : FillerOk(s[i])

(* No runs are a piece from a block to the same block. *)
LEMMA PieceEmpty ==
  ASSUME NEW x \in Nat
  PROVE  Piece(x, <<>>, x)
BY DEF Piece, Follows, Upto

(* Two pieces of which one ends where the other starts are one. *)
LEMMA PieceConcat ==
  ASSUME NEW x \in Nat, NEW y \in Nat, NEW z, NEW s, NEW t, Piece(x, s, y), Piece(y, t, z)
  PROVE  /\ Piece(x, s \o t, z)
         /\ BlockMap(s \o t) = BlockMap(s) \union BlockMap(t)
         /\ Len(s \o t) = Len(s) + Len(t)
         /\ z \in Nat
<1>1. s \in Seq(ListRun) /\ t \in Seq(ListRun) /\ Len(s) \in Nat /\ Len(t) \in Nat
  BY FollowsRuns DEF Piece
<1>2. Follows(x, s \o t) /\ Upto(x, s \o t) = z /\ Len(s \o t) = Len(s) + Len(t)
  BY FollowsConcat DEF Piece
<1>3. BlockMap(s \o t) = BlockMap(s) \union BlockMap(t)
  BY <1>1, MapConcat
<1>4. ASSUME NEW i \in 1 .. Len(s \o t) PROVE FillerOk((s \o t)[i])
  <2>1. CASE i <= Len(s)
    <3>1. i \in 1 .. Len(s) /\ (s \o t)[i] = s[i]
      BY <2>1, <1>1
    <3> QED
      BY <3>1 DEF Piece
  <2>2. CASE i > Len(s)
    <3>1. i - Len(s) \in 1 .. Len(t) /\ (s \o t)[i] = t[i - Len(s)]
      BY <2>2, <1>1, <1>2
    <3> QED
      BY <3>1 DEF Piece
  <2> QED
    BY <2>1, <2>2, <1>1
<1>5. z \in Nat
  BY <1>2, FollowsRuns
<1> QED
  BY <1>2, <1>3, <1>4, <1>5 DEF Piece

(* A filler made of whole lists is a piece. *)
LEMMA PieceFiller ==
  ASSUME NEW x \in Nat, NEW n \in Nat, n > 0, FillerOk(Filler(x, n))
  PROVE  Piece(x, <<Filler(x, n)>>, x + n) /\ BlockMap(<<Filler(x, n)>>) = {}
<1> DEFINE s == <<Filler(x, n)>>
<1>1. s \in Seq(ListRun) /\ Len(s) = 1 /\ s[1] = Filler(x, n) /\ s # <<>>
  BY DEF ListRun, Filler
<1>2. Follows(x, s)
  BY <1>1 DEF Follows, Filler
<1>3. Upto(x, s) = x + n
  BY <1>1 DEF Upto, EndOf, Last, Filler
<1>4. \A i \in 1 .. Len(s) : FillerOk(s[i])
  BY <1>1
<1> QED
  BY <1>2, <1>3, <1>4, MapOfFiller DEF Piece

(* A list of the file is a part of its run list. *)
LEMMA ExtentIs ==
  ASSUME NEW s \in Extents
  PROVE  /\ s[1].offset \in Nat /\ EndOf(s) \in Nat /\ s[1].offset < EndOf(s) /\ EndOf(s) < Width
         /\ s # <<>> /\ Len(s) \in Nat /\ Len(s) > 0
         /\ s[1].len \in Nat
         /\ Len(s) = 1 => EndOf(s) = s[1].offset + s[1].len
         /\ Piece(s[1].offset, s, EndOf(s))
         /\ \A i \in 1 .. Len(s) : ~s[i].filler
<1>1. /\ s \in Seq(FileRun) /\ s # <<>> /\ EndOf(s) < Width
      /\ \A i \in 1 .. Len(s) - 1 : s[i + 1].offset = s[i].offset + s[i].len
  BY ExtentsAssumption
<1>2. s \in Seq(ListRun)
  <2>1. FileRun \subseteq ListRun
    BY DEF FileRun, ListRun
  <2> QED
    BY <1>1, <2>1
<1>3. Len(s) \in Nat /\ Len(s) > 0 /\ 1 \in 1 .. Len(s)
  BY <1>1
<1>4. \A i \in 1 .. Len(s) : ~s[i].filler /\ s[i].offset \in Nat /\ s[i].len \in Nat /\ s[i].len > 0
  <2> TAKE i \in 1 .. Len(s)
  <2>1. s[i] \in FileRun
    BY <1>1
  <2>2. s[i].filler = FALSE
    BY <2>1 DEF FileRun
  <2>3. s[i].offset \in Nat /\ s[i].len \in Nat \ {0}
    BY <2>1 DEF FileRun
  <2> QED
    BY <2>2, <2>3
<1>5. Follows(s[1].offset, s)
  BY <1>1, <1>2 DEF Follows
<1>6. Upto(s[1].offset, s) = EndOf(s)
  BY <1>1 DEF Upto
<1>7. s[1].offset \in Nat
  BY <1>3, <1>4
<1>8. s[1].offset + s[1].len <= EndOf(s) /\ EndOf(s) \in Nat
  BY <1>3, <1>5, <1>6, <1>7, FollowsWithin, FollowsRuns
<1>9. Piece(s[1].offset, s, EndOf(s))
  BY <1>4, <1>5, <1>6 DEF Piece, FillerOk
<1>10. Len(s) = 1 => EndOf(s) = s[1].offset + s[1].len
  BY DEF EndOf, Last
<1>11. s[1].offset < EndOf(s)
  BY <1>3, <1>4, <1>7, <1>8
<1> QED
  BY <1>1, <1>3, <1>4, <1>7, <1>8, <1>9, <1>10, <1>11

(* Each list of the file has others as a whole on both of its sides.       *)
LEMMA ExtentWhole ==
  ASSUME NEW s \in Extents
  PROVE  Whole(s[1].offset) /\ Whole(EndOf(s)) /\ Whole(0)
<1>1. s[1].offset \in Nat /\ EndOf(s) \in Nat /\ s[1].offset < EndOf(s)
  BY ExtentIs
<1>2. ASSUME NEW t \in Extents
      PROVE  /\ s[1].offset <= t[1].offset \/ EndOf(t) <= s[1].offset
             /\ EndOf(s) <= t[1].offset \/ EndOf(t) <= EndOf(s)
             /\ 0 <= t[1].offset
  <2>1. t[1].offset \in Nat /\ EndOf(t) \in Nat /\ t[1].offset < EndOf(t)
    BY ExtentIs
  <2>2. s = t \/ EndOf(s) <= t[1].offset \/ EndOf(t) <= s[1].offset
    BY FileAssumption
  <2> DEFINE a == s[1].offset
             b == EndOf(s)
             c == t[1].offset
             d == EndOf(t)
  <2>3. s = t => a = c /\ b = d
    OBVIOUS
  <2> HIDE DEF a, b, c, d
  <2> QED
    BY <1>1, <2>1, <2>2, <2>3 DEF a, b, c, d
<1> QED
  BY <1>2 DEF Whole

(* Taking a run out of a list leaves the parts before and behind it.       *)
LEMMA PieceSplit ==
  ASSUME NEW x \in Nat, NEW y \in Nat, NEW s, Piece(x, s, y), NEW i \in 1 .. Len(s)
  PROVE  /\ Piece(x, SubSeq(s, 1, i - 1), s[i].offset)
         /\ Piece(s[i].offset + s[i].len, SubSeq(s, i + 1, Len(s)), y)
         /\ BlockMap(s) = BlockMap(SubSeq(s, 1, i - 1)) \union RunMap(s[i])
                            \union BlockMap(SubSeq(s, i + 1, Len(s)))
         /\ Len(SubSeq(s, 1, i - 1)) = i - 1
         /\ Len(SubSeq(s, i + 1, Len(s))) = Len(s) - i
<1> DEFINE a == SubSeq(s, 1, i - 1)
           b == SubSeq(s, i + 1, Len(s))
           n == Len(s)
<1>1. n \in Nat /\ s \in Seq(ListRun) /\ \A j \in 1 .. n : FillerOk(s[j])
  BY FollowsRuns DEF Piece
<1>2. i - 1 \in 0 .. n /\ i \in 0 .. n /\ i # 0
  BY <1>1
<1>3. Len(a) = i - 1 /\ (\A j \in 1 .. i - 1 : a[j] = s[j])
  BY <1>1, <1>2
<1>4. Len(b) = n - i /\ (\A j \in 1 .. n - i : b[j] = s[i + j])
  BY <1>1, <1>2
<1>5. Follows(x, a) /\ Upto(x, a) = s[i].offset
  <2>1. i - 1 < n /\ (i - 1) + 1 = i
    BY <1>2
  <2> QED
    BY <1>2, <2>1, FollowsSplit DEF Piece
<1>6. /\ Follows(s[i].offset + s[i].len, b)
      /\ Upto(s[i].offset + s[i].len, b) = y
  BY <1>2, FollowsSplit DEF Piece
<1> HIDE DEF a, b
<1>7. Piece(x, a, s[i].offset)
  <2>1. \A j \in 1 .. Len(a) : FillerOk(a[j])
    BY <1>1, <1>2, <1>3
  <2> QED
    BY <1>5, <2>1 DEF Piece
<1>8. Piece(s[i].offset + s[i].len, b, y)
  <2>1. ASSUME NEW j \in 1 .. Len(b) PROVE FillerOk(b[j])
    <3>1. j \in 1 .. n - i /\ i + j \in 1 .. n
      BY <1>1, <1>2, <1>4
    <3> QED
      BY <3>1, <1>1, <1>4
  <2> QED
    BY <1>6, <2>1 DEF Piece
<1>9. BlockMap(s) = BlockMap(a) \union RunMap(s[i]) \union BlockMap(b)
  <2>1. ASSUME NEW c, c \in BlockMap(s)
        PROVE  c \in BlockMap(a) \union RunMap(s[i]) \union BlockMap(b)
    <3>1. PICK j \in 1 .. n : c \in RunMap(s[j])
      BY <2>1, MapOfRuns
    <3>2. CASE j < i
      <4>1. j \in 1 .. Len(a) /\ a[j] = s[j]
        BY <3>2, <1>1, <1>2, <1>3
      <4> QED
        BY <3>1, <4>1, MapOfRuns
    <3>3. CASE j > i
      <4>1. j - i \in 1 .. n - i /\ i + (j - i) = j
        BY <3>3, <1>1, <1>2
      <4>2. j - i \in 1 .. Len(b) /\ b[j - i] = s[j]
        BY <4>1, <1>4
      <4> QED
        BY <3>1, <4>2, MapOfRuns
    <3> QED
      BY <3>1, <3>2, <3>3, <1>1
  <2>2. ASSUME NEW c, c \in BlockMap(a) PROVE c \in BlockMap(s)
    <3>1. PICK j \in 1 .. Len(a) : c \in RunMap(a[j])
      BY <2>2, MapOfRuns
    <3>2. j \in 1 .. n /\ a[j] = s[j]
      BY <1>1, <1>2, <1>3
    <3> QED
      BY <3>1, <3>2, MapOfRuns
  <2>3. ASSUME NEW c, c \in BlockMap(b) PROVE c \in BlockMap(s)
    <3>1. PICK j \in 1 .. Len(b) : c \in RunMap(b[j])
      BY <2>3, MapOfRuns
    <3>2. i + j \in 1 .. n /\ b[j] = s[i + j]
      BY <1>1, <1>2, <1>4
    <3> QED
      BY <3>1, <3>2, MapOfRuns
  <2>4. RunMap(s[i]) \subseteq BlockMap(s)
    BY MapOfRuns
  <2> QED
    BY <2>1, <2>2, <2>3, <2>4
<1> QED
  BY <1>3, <1>4, <1>7, <1>8, <1>9 DEF a, b

-----------------------------------------------------------------------------
(* The run list of an attribute whose address space has not been used up   *)
ListIs(s) == Follows(0, s) /\ Upto(0, s) < Width

(* No end of a run wraps around. *)
LEMMA EndsExact ==
  ASSUME NEW s, ListIs(s)
  PROVE  /\ ListEnd(s) = Upto(0, s)
         /\ \A i \in 1 .. Len(s) : RunEnd(s[i]) = s[i].offset + s[i].len
<1>1. ASSUME NEW i \in 1 .. Len(s) PROVE RunEnd(s[i]) = s[i].offset + s[i].len
  <2> DEFINE e == s[i].offset + s[i].len
  <2>1. e \in Nat /\ e <= Upto(0, s) /\ Upto(0, s) \in Nat
    BY FollowsRuns, FollowsWithin DEF ListIs
  <2>2. e < Width /\ Width \in Nat
    BY <2>1, BoundAssumption DEF ListIs
  <2>3. e % Width = e
    <3> HIDE DEF e
    <3> QED
      BY <2>1, <2>2
  <2> QED
    BY <2>3 DEF RunEnd
<1>2. ListEnd(s) = Upto(0, s)
  <2>1. CASE s = <<>>
    BY <2>1 DEF ListEnd, Upto
  <2>2. CASE s # <<>>
    <3>1. Len(s) \in 1 .. Len(s)
      BY <2>2, FollowsRuns DEF ListIs
    <3> QED
      BY <2>2, <3>1, <1>1 DEF ListEnd, Upto, EndOf, Last
  <2> QED
    BY <2>1, <2>2
<1> QED
  BY <1>1, <1>2

(* A list made of one piece from block 0 is sequential. *)
LEMMA ListSequential ==
  ASSUME NEW s, ListIs(s)
  PROVE  Sequential(s)
<1> SUFFICES ASSUME NEW i \in 1 .. Len(s)
             PROVE  s[i].offset = ListEnd(SubSeq(s, 1, i - 1))
  BY DEF Sequential
<1> DEFINE a == SubSeq(s, 1, i - 1)
<1>1. Follows(0, s) /\ Len(s) \in Nat /\ Upto(0, s) \in Nat
  BY FollowsRuns DEF ListIs
<1>2. i - 1 \in 0 .. Len(s) /\ i - 1 < Len(s) /\ (i - 1) + 1 = i
  BY <1>1
<1>3. Follows(0, a) /\ s[i].offset = Upto(0, a)
  BY <1>1, <1>2, FollowsSplit
<1>4. Upto(0, a) < Width
  <2>1. s[i].offset \in Nat /\ s[i].len \in Nat /\ s[i].offset + s[i].len <= Upto(0, s)
    BY <1>1, FollowsRuns, FollowsWithin
  <2> QED
    BY <2>1, <1>1, <1>3, BoundAssumption DEF ListIs
<1>5. ListEnd(a) = Upto(0, a)
  BY <1>3, <1>4, EndsExact DEF ListIs
<1> QED
  BY <1>3, <1>5

(* What is known of a list of the file is known of all of it. *)
Known(B) ==
  \A t \in Extents, b \in B : t[1].offset <= b[1] /\ b[1] < EndOf(t) => BlockMap(t) \subseteq B

(* A list l that was made by adding runs, B being what they say of the     *)
(* blocks of the file                                                      *)
AddedList(l, B) ==
  /\ ListIs(l.run) /\ Piece(0, l.run, Upto(0, l.run))
  /\ Whole(Upto(0, l.run))
  /\ l.end = Len(l.run)
  /\ BlockMap(l.run) = B
  /\ Known(B)

(* What becomes known at the end stays known. *)
LEMMA KnownGrows ==
  ASSUME NEW B, NEW x \in Nat, NEW s, Piece(x, s, Upto(x, s)), BlockMap(s) = B, Known(B),
         NEW new \in Extents
  PROVE  Known(B \union BlockMap(new))
<1> SUFFICES ASSUME NEW t \in Extents, NEW b \in B \union BlockMap(new),
                    t[1].offset <= b[1], b[1] < EndOf(t)
             PROVE  BlockMap(t) \subseteq B \union BlockMap(new)
  BY DEF Known
<1>1. CASE b \in B
  BY <1>1 DEF Known
<1>2. CASE b \in BlockMap(new)
  <2>1. /\ new[1].offset \in Nat /\ EndOf(new) \in Nat
        /\ Follows(new[1].offset, new) /\ Upto(new[1].offset, new) = EndOf(new)
    BY ExtentIs DEF Piece
  <2>2. b[1] \in Nat /\ new[1].offset <= b[1] /\ b[1] < EndOf(new)
    BY <1>2, <2>1, MapWithin
  <2>3. t[1].offset \in Nat /\ EndOf(t) \in Nat
    BY ExtentIs
  <2>4. t = new
    <3>1. t = new \/ EndOf(t) <= new[1].offset \/ EndOf(new) <= t[1].offset
      BY FileAssumption
    <3> QED
      BY <2>1, <2>2, <2>3, <3>1
  <2> QED
    BY <2>4
<1> QED
  BY <1>1, <1>2

(* A block before the end of the list is in a filler or known. *)
LEMMA BlockKnown ==
  ASSUME NEW x \in Nat, NEW y, NEW s, Piece(x, s, y), NEW k \in Nat, x <= k, k < y,
         \A i \in 1 .. Len(s) : s[i].filler => ~(s[i].offset + s[i].len > k)
  PROVE  \E b \in BlockMap(s) : b[1] = k
<1>1. Follows(x, s) /\ y = Upto(x, s)
  BY DEF Piece
<1>2. PICK i \in 1 .. Len(s) : s[i].offset <= k /\ k < s[i].offset + s[i].len
  BY <1>1, FollowsCovers
<1>3. s[i].offset \in Nat /\ s[i].len \in Nat
  BY <1>1, FollowsRuns
<1>4. ~s[i].filler
  <2>1. s[i].offset + s[i].len > k
    BY <1>2, <1>3
  <2> QED
    BY <2>1
<1>5. k - s[i].offset \in 0 .. s[i].len - 1 /\ s[i].offset + (k - s[i].offset) = k
  BY <1>2, <1>3
<1> DEFINE b == <<s[i].offset + (k - s[i].offset), Address(s[i], k - s[i].offset)>>
<1>6. b \in RunMap(s[i])
  BY <1>4, <1>5 DEF RunMap
<1>7. b[1] = k
  BY <1>5
<1> QED
  BY <1>6, <1>7, MapOfRuns

(* So all of a new list is, if its first block is known. *)
LEMMA StartKnown ==
  ASSUME NEW B, Known(B), NEW new \in Extents, NEW b \in B, b[1] = new[1].offset
  PROVE  BlockMap(new) \subseteq B
<1>1. new[1].offset \in Nat /\ EndOf(new) \in Nat /\ new[1].offset < EndOf(new)
  BY ExtentIs
<1> QED
  BY <1>1 DEF Known

(* A part that follows the list and covers it in full makes a list again.  *)
LEMMA Grown ==
  ASSUME NEW l, NEW B, AddedList(l, B), NEW new \in Extents, NEW run,
         Piece(0, run, Upto(0, run)), BlockMap(run) = B \union BlockMap(new),
         Upto(0, run) < Width, Whole(Upto(0, run))
  PROVE  AddedList([run |-> run, end |-> Len(run)], B \union BlockMap(new))
<1>1. Known(B \union BlockMap(new))
  BY KnownGrows DEF AddedList
<1> QED
  BY <1>1 DEF AddedList, ListIs, Piece

(* New runs behind run_end (fs_attr.c:510). *)
LEMMA AddedAtEnd ==
  ASSUME NEW l, NEW B, AddedList(l, B), NEW new \in Extents, AtEnd(l, new)
  PROVE  AddedList(AppendedAtEnd(l, new), B \union BlockMap(new))
<1> DEFINE run == SubSeq(l.run, 1, l.end) \o new
<1>1. l.end = Len(l.run) /\ l.end # 0 /\ ListIs(l.run) /\ Len(l.run) \in Nat
      /\ l.run \in Seq(ListRun) /\ Piece(0, l.run, Upto(0, l.run)) /\ BlockMap(l.run) = B
      /\ Upto(0, l.run) \in Nat
  BY FollowsRuns DEF AddedList, ListIs, AtEnd
<1>2. SubSeq(l.run, 1, l.end) = l.run /\ l.run # <<>>
  BY <1>1
<1>3. new[1].offset = Upto(0, l.run)
  <2>1. l.end \in 1 .. Len(l.run)
    BY <1>1
  <2>2. RunEnd(l.run[l.end]) = l.run[l.end].offset + l.run[l.end].len
    BY <1>1, <2>1, EndsExact
  <2> QED
    BY <1>1, <1>2, <2>2 DEF AtEnd, Upto, EndOf, Last
<1>4. Piece(new[1].offset, new, EndOf(new)) /\ EndOf(new) \in Nat /\ EndOf(new) < Width /\ new # <<>>
  BY ExtentIs
<1>5. Piece(0, run, EndOf(new)) /\ BlockMap(run) = B \union BlockMap(new)
  <2>1. Piece(0, l.run, new[1].offset) /\ new[1].offset \in Nat
    BY <1>1, <1>3
  <2>2. /\ Piece(0, l.run \o new, EndOf(new))
        /\ BlockMap(l.run \o new) = BlockMap(l.run) \union BlockMap(new)
    BY <2>1, <1>4, PieceConcat
  <2> QED
    BY <2>2, <1>1, <1>2
<1>6. Upto(0, run) = EndOf(new)
  BY <1>5 DEF Piece
<1> HIDE DEF run
<1>7. AddedList([run |-> run, end |-> Len(run)], B \union BlockMap(new))
  BY <1>4, <1>5, <1>6, ExtentWhole, Grown
<1> QED
  BY <1>7 DEF AppendedAtEnd, run

(* Behind the end of the list: with a filler for what lies between *)
LEMMA AddedBehind ==
  ASSUME NEW l, NEW B, AddedList(l, B), NEW new \in Extents, Upto(0, l.run) <= new[1].offset
  PROVE  LET run == l.run \o TailFiller(l, new) \o new
         IN  AddedList([run |-> run, end |-> Len(run)], B \union BlockMap(new))
<1> DEFINE gap == TailFiller(l, new)
           e == Upto(0, l.run)
           o == new[1].offset
           run == l.run \o gap \o new
<1>1. /\ ListIs(l.run) /\ Piece(0, l.run, e) /\ BlockMap(l.run) = B /\ Whole(e) /\ e \in Nat
      /\ ListEnd(l.run) = e
  BY FollowsRuns, EndsExact DEF AddedList, ListIs
<1>2. /\ Piece(o, new, EndOf(new)) /\ EndOf(new) \in Nat /\ EndOf(new) < Width /\ o \in Nat
      /\ Whole(o) /\ Whole(EndOf(new))
  BY ExtentIs, ExtentWhole
<1>3. Piece(e, gap, o) /\ BlockMap(gap) = {}
  <2>1. CASE e = o \/ o = 0
    <3>1. gap = <<>> /\ e = o
      BY <2>1, <1>1, <1>2 DEF TailFiller
    <3> QED
      BY <3>1, <1>1, PieceEmpty, MapOfNothing
  <2>2. CASE ~(e = o \/ o = 0)
    <3> DEFINE n == o - e
    <3>1. gap = <<Filler(e, n)>> /\ n \in Nat /\ n > 0 /\ e + n = o
      BY <2>2, <1>1, <1>2 DEF TailFiller
    <3>2. FillerOk(Filler(e, n))
      <4>1. Filler(e, n).offset = e /\ Filler(e, n).len = n
        BY DEF Filler
      <4> HIDE DEF n, e, o
      <4> QED
        BY <3>1, <4>1, <1>1, <1>2 DEF FillerOk
    <3> HIDE DEF n, e, o, gap
    <3> QED
      BY <3>1, <3>2, <1>1, PieceFiller
  <2> QED
    BY <2>1, <2>2
<1> HIDE DEF gap, e, o
<1>4. Piece(0, l.run \o gap, o) /\ BlockMap(l.run \o gap) = B
  <2>1. Piece(0, l.run \o gap, o) /\ BlockMap(l.run \o gap) = BlockMap(l.run) \union BlockMap(gap)
    <3>1. 0 \in Nat /\ e \in Nat /\ Piece(0, l.run, e) /\ Piece(e, gap, o)
      BY <1>1, <1>3
    <3> QED
      BY ONLY <3>1, PieceConcat
  <2> QED
    BY <2>1, <1>1, <1>3
<1>5. Piece(0, run, EndOf(new)) /\ BlockMap(run) = B \union BlockMap(new)
  BY <1>2, <1>4, PieceConcat
<1>6. Upto(0, run) = EndOf(new)
  BY <1>5 DEF Piece
<1> HIDE DEF run
<1>7. AddedList([run |-> run, end |-> Len(run)], B \union BlockMap(new))
  BY <1>2, <1>5, <1>6, Grown
<1> QED
  BY <1>7 DEF run, gap

(* What is left of a filler behind the new runs *)
LEMMA RestIs ==
  ASSUME NEW new \in Extents, NEW end \in Nat, end < Width, EndOf(new) <= end,
         Whole(end), Len(new) > 1 => end <= EndOf(new)
  PROVE  LET rest == Rest(end - new[1].offset, new)
         IN  Piece(EndOf(new), rest, end) /\ BlockMap(rest) = {}
<1> DEFINE o == new[1].offset
           m == EndOf(new)
           rest == Rest(end - o, new)
<1>1. /\ Follows(o, new) /\ Upto(o, new) = m /\ o \in Nat /\ m \in Nat /\ m < Width
      /\ Len(new) \in Nat /\ Len(new) > 0 /\ (Len(new) = 1 => m = o + new[1].len)
  BY ExtentIs DEF Piece
<1>2. RunLen(new) = m - o
  BY <1>1, RunLenIs
<1>3. CASE end = m
  <2>1. rest = <<>>
    BY <1>2, <1>3 DEF Rest
  <2> QED
    BY <1>1, <1>3, <2>1, PieceEmpty, MapOfNothing
<1>4. CASE end # m
  <2> DEFINE n == end - m
  <2>1. end > m /\ n \in Nat /\ n > 0 /\ n < Width /\ m + n = end
    BY <1>1, <1>4, BoundAssumption
  <2>2. Len(new) = 1 /\ m = o + new[1].len
    <3> DEFINE n1 == Len(new)
    <3>1. n1 > 1 => end <= m
      OBVIOUS
    <3>2. n1 \in Nat /\ n1 > 0 /\ m \in Nat /\ (n1 = 1 => m = o + new[1].len)
      BY <1>1
    <3>3. n1 = 1
      <4> HIDE DEF n1, m
      <4> QED
        BY <2>1, <3>1, <3>2
    <3> QED
      BY <3>2, <3>3
  <2>3. (end - o) - RunLen(new) = n
    BY <1>1, <1>2
  <2>4. n % Width = n
    <3> HIDE DEF n
    <3> QED
      BY <2>1, BoundAssumption
  <2>5. RunLen(new) # end - o
    BY <1>1, <1>2, <1>4
  <2> HIDE DEF n, m, o
  <2>6. rest = <<Filler(m, n)>>
    BY <2>2, <2>3, <2>4, <2>5 DEF Rest, o
  <2>7. FillerOk(Filler(m, n))
    <3>1. Filler(m, n).offset = m /\ Filler(m, n).len = n
      BY DEF Filler
    <3>2. Whole(m)
      BY ExtentWhole DEF m
    <3> QED
      BY <3>1, <3>2, <2>1 DEF FillerOk
  <2> HIDE DEF rest
  <2>8. Piece(m, rest, end) /\ BlockMap(rest) = {}
    BY <2>1, <2>6, <2>7, <1>1, PieceFiller
  <2> QED
    BY <2>8 DEF rest, m, o
<1> QED
  BY <1>3, <1>4

(* Three pieces in a row are one. *)
LEMMA PieceJoin ==
  ASSUME NEW x \in Nat, NEW y \in Nat, NEW s, NEW t, Piece(0, s, x), Piece(x, t, y)
  PROVE  Piece(0, s \o t, y)
<1>1. 0 \in Nat
  OBVIOUS
<1> QED
  BY <1>1, PieceConcat

(* What three pieces in a row say. *)
LEMMA MapJoin ==
  ASSUME NEW s \in Seq(ListRun), NEW t \in Seq(ListRun)
  PROVE  s \o t \in Seq(ListRun) /\ BlockMap(s \o t) = BlockMap(s) \union BlockMap(t)
BY MapConcat

(* In the place of a filler or of a part of it, with one run or to its end *)
LEMMA AddedInFiller ==
  ASSUME NEW l, NEW B, AddedList(l, B), NEW new \in Extents, NEW i \in 1 .. Len(l.run),
         l.run[i].filler, l.run[i].offset <= new[1].offset,
         new[1].offset < l.run[i].offset + l.run[i].len, ~InFrontOfRest(l.run, new)
  PROVE  AddedList(InsertedIn(l, i, new), B \union BlockMap(new))
<1> DEFINE s == l.run
           f == s[i]
           z == Upto(0, s)
           o == new[1].offset
           m == EndOf(new)
           end == f.offset + f.len
           lead == o - f.offset
           a == SubSeq(s, 1, i - 1)
           b == SubSeq(s, i + 1, Len(s))
           first == IF lead = 0 THEN <<>> ELSE <<Filler(f.offset, lead)>>
           rest == Rest(f.len - lead, new)
           run == a \o first \o new \o rest \o b
<1>1. /\ ListIs(s) /\ Piece(0, s, z) /\ BlockMap(s) = B /\ Whole(z) /\ z \in Nat /\ z < Width
      /\ l.end = Len(s) /\ Len(s) \in Nat
  BY FollowsRuns DEF AddedList, ListIs
<1>2. f.offset \in Nat /\ f.len \in Nat /\ f.len > 0 /\ end <= z /\ FillerOk(f)
  BY <1>1, FollowsRuns, FollowsWithin DEF Piece
<1>3. /\ Piece(o, new, m) /\ m \in Nat /\ m < Width /\ o \in Nat /\ o < m
      /\ Whole(o) /\ Whole(m)
  BY ExtentIs, ExtentWhole
<1>4. end \in Nat /\ Whole(end) /\ Whole(f.offset)
  BY <1>2 DEF FillerOk
<1>5. m <= end /\ end < Width
  <2>1. end <= o \/ m <= end
    BY <1>4 DEF Whole
  <2> QED
    BY <2>1, <1>1, <1>2, <1>3, <1>4, BoundAssumption
<1>6. /\ Piece(0, a, f.offset) /\ Piece(end, b, z)
      /\ BlockMap(s) = BlockMap(a) \union RunMap(f) \union BlockMap(b)
  <2>1. Piece(0, s, z) /\ z \in Nat /\ i \in 1 .. Len(s)
    BY <1>1
  <2> HIDE DEF s, z
  <2> QED
    BY <2>1, PieceSplit
<1>7. RunMap(f) = {}
  BY DEF RunMap
<1>8. Piece(f.offset, first, o) /\ BlockMap(first) = {}
  <2>1. CASE lead = 0
    <3>1. first = <<>> /\ o = f.offset
      BY <2>1, <1>2, <1>3
    <3> QED
      BY <3>1, <1>3, PieceEmpty, MapOfNothing
  <2>2. CASE lead # 0
    <3>1. first = <<Filler(f.offset, lead)>> /\ lead \in Nat /\ lead > 0 /\ f.offset + lead = o
      BY <2>2, <1>2, <1>3
    <3>2. FillerOk(Filler(f.offset, lead))
      <4>1. Filler(f.offset, lead).offset = f.offset /\ Filler(f.offset, lead).len = lead
        BY DEF Filler
      <4> HIDE DEF lead, o
      <4> QED
        BY <4>1, <3>1, <1>3, <1>4 DEF FillerOk
    <3> DEFINE x == f.offset
    <3> HIDE DEF lead, o, first
    <3> QED
      BY <3>1, <3>2, <1>2, PieceFiller
  <2> QED
    BY <2>1, <2>2
<1>9. f.len - lead = end - o
  BY <1>2, <1>3
<1>10. Piece(m, rest, end) /\ BlockMap(rest) = {}
  <2>1. Len(new) > 1 => end <= m
    <3>1. RunEnd(f) = end
      BY <1>1, EndsExact
    <3>2. Len(new) > 1 => ~(m < RunEnd(f))
      BY DEF InFrontOfRest
    <3> HIDE DEF m, end
    <3> QED
      BY <3>1, <3>2, <1>3, <1>4
  <2> HIDE DEF end, lead
  <2> QED
    BY <1>4, <1>5, <1>9, <2>1, RestIs
<1> DEFINE x == f.offset
<1>11. x \in Nat /\ Piece(0, a, x) /\ Piece(x, first, o)
  BY <1>2, <1>6, <1>8
<1>12. B = BlockMap(a) \union BlockMap(b)
  BY <1>1, <1>6, <1>7
<1> HIDE DEF a, b, first, rest, o, m, end, z, x, lead
<1> DEFINE t2 == a \o first
           t3 == t2 \o new
           t4 == t3 \o rest
<1>13. /\ a \in Seq(ListRun) /\ first \in Seq(ListRun) /\ new \in Seq(ListRun)
       /\ rest \in Seq(ListRun) /\ b \in Seq(ListRun)
  BY <1>3, <1>6, <1>10, <1>11 DEF Piece, Follows
<1>14. x \in Nat /\ o \in Nat /\ m \in Nat /\ end \in Nat /\ z \in Nat
  BY <1>1, <1>3, <1>4, <1>11
<1>15. Piece(0, run, z) /\ BlockMap(run) = B \union BlockMap(new)
  <2>1. Piece(0, t2, o) /\ t2 \in Seq(ListRun) /\ BlockMap(t2) = BlockMap(a) \union BlockMap(first)
    BY ONLY <1>11, <1>13, <1>14, PieceJoin, MapJoin
  <2> HIDE DEF t2
  <2>2. Piece(0, t3, m) /\ t3 \in Seq(ListRun) /\ BlockMap(t3) = BlockMap(t2) \union BlockMap(new)
    BY ONLY <1>3, <1>13, <1>14, <2>1, PieceJoin, MapJoin
  <2> HIDE DEF t3
  <2>3. Piece(0, t4, end) /\ t4 \in Seq(ListRun) /\ BlockMap(t4) = BlockMap(t3) \union BlockMap(rest)
    BY ONLY <1>10, <1>13, <1>14, <2>2, PieceJoin, MapJoin
  <2> HIDE DEF t4
  <2>4. Piece(0, t4 \o b, z) /\ BlockMap(t4 \o b) = BlockMap(t4) \union BlockMap(b)
    BY ONLY <1>6, <1>13, <1>14, <2>3, PieceJoin, MapJoin
  <2>5. run = t4 \o b
    BY DEF t2, t3, t4
  <2> HIDE DEF run
  <2> QED
    BY <2>1, <2>2, <2>3, <2>4, <2>5, <1>8, <1>10, <1>12
<1> HIDE DEF run
<1>17. Upto(0, run) = z /\ Len(run) \in Nat
  <2>1. Follows(0, run) /\ Upto(0, run) = z
    BY <1>15 DEF Piece
  <2> QED
    BY <2>1, FollowsRuns
<1>18. AddedList([run |-> run, end |-> Len(run)], B \union BlockMap(new))
  BY <1>1, <1>15, <1>17, Grown
<1>19. EndMoved(l, i, run) = Len(run)
  BY <1>1, <1>17 DEF EndMoved
<1>20. InsertedIn(l, i, new) = [run |-> run, end |-> EndMoved(l, i, run)]
  BY DEF InsertedIn, run, a, b, first, rest, lead, o
<1> QED
  BY <1>18, <1>19, <1>20

(* Whatever a call that adds a list does, the list and what was added of   *)
(* the file agree unless the rest of a filler is misplaced, and only what  *)
(* is known is refused.                                                    *)
LEMMA AddKeeps ==
  ASSUME NEW l, NEW B, AddedList(l, B), NEW new \in Extents, NEW r \in AddResults(l, new)
  PROVE  /\ \/ r.ret = "ok" /\ InFrontOfRest(l.run, new)
            \/ AddedList(r.list, IF r.ret = "ok" THEN B \union BlockMap(new) ELSE B)
         /\ r.ret \in {"ok", "beyond", "no filler", "no memory"}
         /\ r.ret # "ok" => r = Result(l, r.ret)
         /\ r.ret \in {"beyond", "no filler"} => \E b \in B : b[1] = new[1].offset
<1> DEFINE stops == {i \in 1 .. Len(l.run) : StopsAt(l, i, new)}
           o == new[1].offset
           z == Upto(0, l.run)
           front == InFrontOfRest(l.run, new)
           Good(q) == /\ \/ q.ret = "ok" /\ front
                         \/ AddedList(q.list, IF q.ret = "ok" THEN B \union BlockMap(new) ELSE B)
                      /\ q.ret \in {"ok", "beyond", "no filler", "no memory"}
                      /\ q.ret # "ok" => q = Result(l, q.ret)
                      /\ q.ret \in {"beyond", "no filler"} => \E b \in B : b[1] = o
<1>1. /\ ListIs(l.run) /\ Piece(0, l.run, z) /\ BlockMap(l.run) = B /\ Known(B)
      /\ z \in Nat /\ Len(l.run) \in Nat
      /\ ListEnd(l.run) = z
  BY FollowsRuns, EndsExact DEF AddedList, ListIs
<1>2. ASSUME NEW i \in 1 .. Len(l.run)
      PROVE  /\ RunEnd(l.run[i]) = l.run[i].offset + l.run[i].len
             /\ l.run[i].offset \in Nat /\ l.run[i].len \in Nat /\ l.run[i].len > 0
             /\ l.run[i].offset + l.run[i].len <= z
  BY <1>1, EndsExact, FollowsRuns, FollowsWithin DEF Piece
<1>3. o \in Nat
  BY ExtentIs
<1> HIDE DEF front
<1>4. ASSUME NEW q, q = Result(q.list, "ok"), front \/ AddedList(q.list, B \union BlockMap(new))
      PROVE  Good(q)
  <2>1. q.ret = "ok"
    BY <1>4 DEF Result
  <2> QED
    BY <2>1, <1>4
<1>5. ASSUME NEW refusal \in {"beyond", "no filler", "no memory"},
             refusal # "no memory" => \E b \in B : b[1] = o
      PROVE  Good(Result(l, refusal))
  <2>1. Result(l, refusal).ret = refusal /\ Result(l, refusal).list = l
    BY DEF Result
  <2> QED
    BY <2>1, <1>5
<1> HIDE DEF Good, front
<1>7. CASE AtEnd(l, new)
  <2>1. r = Result(AppendedAtEnd(l, new), "ok")
    BY <1>7 DEF AddResults
  <2>2. r.list = AppendedAtEnd(l, new)
    BY <2>1 DEF Result
  <2>3. Good(r)
    BY <2>1, <2>2, <1>4, <1>7, AddedAtEnd
  <2> QED
    BY <2>3 DEF Good, front
<1>8. CASE ~AtEnd(l, new) /\ stops = {}
  <2>1. r \in TailResults(l, new)
    BY <1>8 DEF AddResults
  <2>2. CASE l.run # <<>> /\ z > o
    <3>1. r = Result(l, IF IsDuplicate(l, new) THEN "ok" ELSE "no filler")
      BY <2>1, <2>2, <1>1 DEF TailResults
    <3>2. PICK b \in B : b[1] = o
      <4>1. ASSUME NEW i \in 1 .. Len(l.run), l.run[i].filler
            PROVE  ~(l.run[i].offset + l.run[i].len > o)
        <5>1. ~StopsAt(l, i, new)
          BY <1>8
        <5>2. ~(RunEnd(l.run[i]) > o)
          BY <5>1, <4>1 DEF StopsAt
        <5> QED
          BY <5>2, <1>2
      <4>2. o < z /\ 0 <= o
        BY <2>2, <1>1, <1>3
      <4>3. 0 \in Nat
        OBVIOUS
      <4>4. \E b \in BlockMap(l.run) : b[1] = o
        <5> HIDE DEF z, o
        <5> QED
          BY <4>1, <4>2, <4>3, <1>1, <1>3, BlockKnown
      <4> QED
        BY <4>4, <1>1
    <3>3. CASE IsDuplicate(l, new)
      <4>1. r = Result(l, "ok") /\ r.list = l
        BY <3>1, <3>3 DEF Result
      <4>2. B \union BlockMap(new) = B
        BY <1>1, <3>2, StartKnown
      <4>3. Good(r)
        BY <4>1, <4>2, <1>4
      <4> QED
        BY <4>3 DEF Good, front
    <3>4. CASE ~IsDuplicate(l, new)
      <4>1. r = Result(l, "no filler")
        BY <3>1, <3>4
      <4>2. Good(r)
        BY <4>1, <3>2, <1>5
      <4> QED
        BY <4>2 DEF Good, front
    <3> QED
      BY <3>3, <3>4
  <2>3. CASE ~(l.run # <<>> /\ z > o)
    <3> DEFINE gap == TailFiller(l, new)
               run == l.run \o gap \o new
               grown == [run |-> run, end |-> Len(run)]
    <3>1. z <= o
      <4>1. CASE l.run = <<>>
        BY <4>1, <1>3 DEF Upto
      <4>2. CASE ~(z > o)
        BY <4>2, <1>1, <1>3
      <4> QED
        BY <4>1, <4>2, <2>3
    <3>2. r \in {Result(grown, "ok")} \union (IF gap = <<>> THEN {} ELSE {Result(l, "no memory")})
      BY <2>1, <2>3, <1>1 DEF TailResults
    <3>3. AddedList(grown, B \union BlockMap(new))
      BY <3>1, AddedBehind
    <3> HIDE DEF grown, gap
    <3>4. CASE r = Result(grown, "ok")
      <4>1. r.list = grown
        BY <3>4 DEF Result
      <4>2. Good(r)
        BY <4>1, <3>3, <3>4, <1>4
      <4> QED
        BY <4>2 DEF Good, front
    <3>5. CASE r = Result(l, "no memory")
      <4>1. Good(r)
        BY <3>5, <1>5
      <4> QED
        BY <4>1 DEF Good, front
    <3> QED
      BY <3>2, <3>4, <3>5
  <2> QED
    BY <2>2, <2>3
<1>9. CASE ~AtEnd(l, new) /\ stops # {}
  <2> DEFINE i == CHOOSE i \in stops : \A j \in stops : i <= j
  <2>1. i \in stops /\ \A j \in stops : i <= j
    <3>1. stops \subseteq Nat
      OBVIOUS
    <3>2. \E m \in stops : \A j \in stops : m <= j
      <4> HIDE DEF stops
      <4> QED
        BY <3>1, <1>9, LeastNat
    <3> QED
      BY <3>2
  <2>2. r \in InsertResults(l, i, new)
    BY <1>9 DEF AddResults
  <2> HIDE DEF i
  <2>3. i \in 1 .. Len(l.run) /\ l.run[i].filler /\ (l.run[i].offset > o \/ RunEnd(l.run[i]) > o)
    BY <2>1 DEF StopsAt
  <2> DEFINE f == l.run[i]
             e == f.offset + f.len
  <2>4. f.offset \in Nat /\ f.len \in Nat /\ f.len > 0 /\ RunEnd(f) = e
    BY <2>3, <1>2
  <2>5. CASE f.offset > o
    <3>1. r = Result(l, "beyond")
      BY <2>2, <2>5 DEF InsertResults
    <3> DEFINE s == SubSeq(l.run, 1, i - 1)
    <3>2. Piece(0, s, f.offset) /\ Len(s) = i - 1
      BY <1>1, <2>3, PieceSplit
    <3>3. ASSUME NEW j \in 1 .. Len(s), s[j].filler
          PROVE  ~(s[j].offset + s[j].len > o)
      <4>1. j \in 1 .. Len(l.run) /\ j < i /\ l.run[j] = s[j]
        BY <3>2, <2>3, <1>1
      <4>2. ~StopsAt(l, j, new)
        <5>1. j \notin stops
          BY <4>1, <2>1, <2>3, <1>1
        <5> QED
          BY <5>1, <4>1
      <4>3. ~(RunEnd(l.run[j]) > o)
        BY <3>3, <4>1, <4>2 DEF StopsAt
      <4> QED
        BY <4>1, <4>3, <1>2
    <3>4. PICK b \in BlockMap(s) : b[1] = o
      <4>1. 0 \in Nat /\ 0 <= o /\ o < f.offset
        BY <1>3, <2>4, <2>5
      <4> HIDE DEF s, o, f
      <4> QED
        BY <4>1, <3>2, <3>3, <1>3, BlockKnown
    <3>5. b \in B
      BY <1>1, <2>3, <3>4, PieceSplit
    <3>6. Good(r)
      BY <3>1, <3>4, <3>5, <1>5
    <3> QED
      BY <3>6 DEF Good, front
  <2>6. CASE ~(f.offset > o)
    <3>1. f.offset <= o /\ o < e
      BY <2>3, <2>4, <2>6, <1>3
    <3>2. front \/ AddedList(InsertedIn(l, i, new), B \union BlockMap(new))
      BY <2>3, <3>1, AddedInFiller DEF front
    <3>3. CASE r = Result(InsertedIn(l, i, new), "ok")
      <4>1. r.list = InsertedIn(l, i, new)
        BY <3>3 DEF Result
      <4>2. Good(r)
        BY <4>1, <3>2, <3>3, <1>4
      <4> QED
        BY <4>2 DEF Good, front
    <3>4. CASE r = Result(l, "no memory")
      <4>1. Good(r)
        BY <3>4, <1>5
      <4> QED
        BY <4>1 DEF Good, front
    <3> QED
      BY <2>2, <2>6, <3>3, <3>4 DEF InsertResults
  <2> QED
    BY <2>5, <2>6
<1> QED
  BY <1>7, <1>8, <1>9

-----------------------------------------------------------------------------
(* A bound for the lists that are appended *)
IsLongest(n) ==
  n \in Nat /\ MaxCalls * n < Width /\ \A s \in Extents : EndOf(s) - s[1].offset <= n

(* One such bound *)
Longest == CHOOSE n \in Nat : IsLongest(n)

(* There is such a bound. *)
LEMMA LongestIs == IsLongest(Longest)
<1>1. PICK n \in 0 .. Width - 1 :
        MaxCalls * n < Width /\ \A s \in Extents : EndOf(s) - s[1].offset <= n
  BY AppendAssumption
<1>2. n \in Nat
  BY <1>1, BoundAssumption
<1>3. \E k \in Nat : IsLongest(k)
  BY <1>1, <1>2 DEF IsLongest
<1> QED
  BY <1>3 DEF Longest

(* A list that was made by appending, whose end pointer may lag behind     *)
AppendedList(l, B) ==
  ListIs(l.run) /\ l.end \in 0 .. Len(l.run) /\ BlockMap(l.run) = B

(* What holds of the list while it is filled and afterwards *)
FillInv ==
  /\ mode \in {"unused", "adding", "appending"}
  /\ mode = "unused" => list.run = <<>> /\ blocks = {} /\ calls = 0 /\ ~misplaced
  /\ mode = "adding" => misplaced \/ AddedList(list, blocks)
  /\ mode = "appending" => ~misplaced /\ AppendedList(list, blocks)
  /\ calls \in 0 .. MaxCalls
  /\ mode = "appending" /\ pc = "filling" => Upto(0, list.run) <= calls * Longest

(* The constants are numbers. *)
LEMMA WidthIs == Width \in Nat /\ Width > 0 /\ MaxCalls \in Nat /\ Longest \in Nat
<1>1. PICK n \in 0 .. Width - 1 : TRUE
  BY AppendAssumption
<1> QED
  BY <1>1, BoundAssumption, LongestIs DEF IsLongest

(* An attribute to which nothing has been added *)
LEMMA NothingAdded == AddedList(NoRuns, {}) /\ AppendedList(NoRuns, {}) /\ Upto(0, NoRuns.run) = 0
<1>1. NoRuns.run = <<>> /\ NoRuns.end = 0 /\ Len(NoRuns.run) = 0
  BY DEF NoRuns
<1>2. Piece(0, <<>>, 0)
  BY PieceEmpty
<1>3. Upto(0, <<>>) = 0
  BY DEF Upto
<1>4. ListIs(<<>>)
  BY <1>2, <1>3, WidthIs DEF ListIs, Piece
<1>5. Whole(0)
  BY ExtentIs DEF Whole
<1> QED
  BY <1>1, <1>2, <1>3, <1>4, <1>5, MapOfNothing DEF AddedList, AppendedList, Known

(* What tsk_fs_attr_set_run makes is a list. *)
LEMMA SetKeeps ==
  ASSUME NEW new \in FirstRuns
  PROVE  AddedList(SetRun(new), BlockMap(new))
<1>1. CASE new = <<>>
  BY <1>1, NothingAdded, MapOfNothing DEF SetRun
<1>2. CASE new \in Extents
  <2> DEFINE gap == TailFiller(NoRuns, new)
             lead == IF new[1].offset = 0 THEN <<>> ELSE <<Filler(0, new[1].offset)>>
  <2>1. new # <<>> /\ new[1].offset \in Nat /\ NoRuns.run = <<>>
    BY <1>2, ExtentIs DEF NoRuns
  <2>2. gap = lead
    BY <2>1 DEF TailFiller, ListEnd
  <2>3. NoRuns.run \o gap = lead
    <3> DEFINE f == Filler(0, new[1].offset)
    <3>1. <<f>> \in Seq({f}) /\ <<>> \in Seq({f})
      <4> HIDE DEF f
      <4> QED
        OBVIOUS
    <3>2. lead \in Seq({f})
      BY <3>1
    <3> HIDE DEF lead
    <3> QED
      BY <2>1, <2>2, <3>2
  <2>4. SetRun(new) = [run |-> NoRuns.run \o gap \o new, end |-> Len(NoRuns.run \o gap \o new)]
    BY <2>1, <2>3 DEF SetRun
  <2>5. AddedList([run |-> NoRuns.run \o gap \o new, end |-> Len(NoRuns.run \o gap \o new)],
                  {} \union BlockMap(new))
    <3>1. AddedList(NoRuns, {}) /\ Upto(0, NoRuns.run) <= new[1].offset
      BY <2>1, NothingAdded
    <3> QED
      BY <3>1, <1>2, AddedBehind
  <2>6. {} \union BlockMap(new) = BlockMap(new)
    OBVIOUS
  <2> QED
    BY <2>4, <2>5, <2>6
<1>3. ASSUME NEW n \in 1 .. Width - 1, new = <<Filler(0, n)>>,
             \A t \in Extents : n <= t[1].offset \/ EndOf(t) <= n
      PROVE  AddedList(SetRun(new), BlockMap(new))
  <2>1. n \in Nat /\ n > 0 /\ n < Width /\ 0 + n = n /\ 0 \in Nat
    BY <1>3, WidthIs
  <2>2. FillerOk(Filler(0, n))
    <3>1. Filler(0, n).offset = 0 /\ Filler(0, n).len = n
      BY DEF Filler
    <3>2. Whole(0) /\ Whole(n)
      BY <1>3, NothingAdded, ExtentIs DEF Whole
    <3> QED
      BY <3>1, <3>2, <2>1, <1>3 DEF FillerOk
  <2>3. Piece(0, new, n) /\ BlockMap(new) = {}
    <3>1. Piece(0, <<Filler(0, n)>>, 0 + n) /\ BlockMap(<<Filler(0, n)>>) = {}
      BY ONLY <2>1, <2>2, PieceFiller
    <3> QED
      BY <3>1, <2>1, <1>3
  <2>4. SetRun(new) = [run |-> new, end |-> Len(new)]
    <3>1. new # <<>> /\ new[1].offset = 0 /\ new \in Seq({Filler(0, n)})
      BY <1>3 DEF Filler
    <3>2. <<>> \o new = new
      BY <3>1
    <3> QED
      BY <3>1, <3>2 DEF SetRun
  <2>5. Upto(0, new) = n /\ Follows(0, new)
    BY <2>3 DEF Piece
  <2>6. ListIs(new) /\ Piece(0, new, Upto(0, new)) /\ Known({})
    BY <2>1, <2>3, <2>5 DEF ListIs, Known
  <2>7. Whole(Upto(0, new))
    BY <1>3, <2>5 DEF Whole
  <2>8. SetRun(new).run = new /\ SetRun(new).end = Len(new)
    BY <2>4
  <2> QED
    BY <2>3, <2>6, <2>7, <2>8 DEF AddedList
<1> QED
  BY <1>1, <1>2, <1>3, FirstAssumption

(* tsk_fs_attr_append_run keeps a list. *)
LEMMA AppendKeeps ==
  ASSUME NEW l, NEW B, AppendedList(l, B), NEW new \in Extents, NEW c \in Nat, c < MaxCalls,
         Upto(0, l.run) <= c * Longest
  PROVE  /\ AppendedList(Appended(l, new), B \union BlockMap(Renumbered(ListEnd(l.run), new)))
         /\ Upto(0, Appended(l, new).run) <= (c + 1) * Longest
<1> DEFINE z == Upto(0, l.run)
           o == new[1].offset
           m == EndOf(new)
           e == KnownEnd(l)
           from == IF l.run = <<>> THEN 0 ELSE RunEnd(l.run[e])
           t == Renumbered(z, new)
           run == SubSeq(l.run, 1, e) \o Renumbered(from, new)
           end == IF Len(new) > 1 THEN Len(run) ELSE IF l.run = <<>> THEN l.end ELSE e
<1>1. /\ Follows(0, l.run) /\ z \in Nat /\ ListEnd(l.run) = z /\ Len(l.run) \in Nat
      /\ l.run \in Seq(ListRun) /\ l.end \in 0 .. Len(l.run) /\ BlockMap(l.run) = B
      /\ \A i \in 1 .. Len(l.run) : RunEnd(l.run[i]) = l.run[i].offset + l.run[i].len
  BY FollowsRuns, EndsExact DEF AppendedList, ListIs
<1>2. /\ Follows(o, new) /\ Upto(o, new) = m /\ o \in Nat /\ m \in Nat /\ o < m
      /\ Len(new) \in Nat /\ Len(new) > 0
  BY ExtentIs DEF Piece
<1>3. e = Len(l.run)
  BY <1>1 DEF KnownEnd
<1>4. from = z
  <2>1. CASE l.run = <<>>
    BY <2>1 DEF Upto
  <2>2. CASE l.run # <<>>
    <3>1. Len(l.run) \in 1 .. Len(l.run)
      BY <1>1, <2>2
    <3> QED
      BY <1>1, <1>3, <2>2, <3>1 DEF Upto, EndOf, Last
  <2> QED
    BY <2>1, <2>2
<1>5. run = l.run \o t
  <2>1. SubSeq(l.run, 1, e) = l.run
    BY <1>1, <1>3
  <2> QED
    BY <2>1, <1>4
<1>6. Follows(z, t) /\ Upto(z, t) = z + (m - o) /\ Len(t) = Len(new)
  BY <1>1, <1>2, RenumberedIs
<1> HIDE DEF z, t
<1>7. t \in Seq(ListRun)
  BY <1>6 DEF Follows
<1>8. Follows(0, l.run \o t) /\ Upto(0, l.run \o t) = z + (m - o) /\ Len(l.run \o t) = Len(l.run) + Len(t)
  <2>1. /\ Follows(0, l.run \o t) /\ Upto(0, l.run \o t) = Upto(Upto(0, l.run), t)
        /\ Len(l.run \o t) = Len(l.run) + Len(t)
    BY <1>1, <1>6, FollowsConcat, SMTT(20) DEF z
  <2> QED
    BY <2>1, <1>6 DEF z
<1>9. BlockMap(l.run \o t) = B \union BlockMap(t)
  BY <1>1, <1>7, MapJoin
<1>10. z + (m - o) <= (c + 1) * Longest /\ (c + 1) * Longest < Width
  <2>1. Longest \in Nat /\ m - o <= Longest /\ MaxCalls * Longest < Width /\ Width \in Nat /\ MaxCalls \in Nat
    BY LongestIs, WidthIs DEF IsLongest
  <2>2. (c + 1) * Longest = c * Longest + Longest /\ c * Longest \in Nat
    BY <2>1
  <2>3. (c + 1) * Longest <= MaxCalls * Longest
    <3>1. MaxCalls - (c + 1) \in Nat
      BY <2>1
    <3>2. (MaxCalls - (c + 1)) * Longest \in Nat
      BY <2>1, <3>1
    <3>3. (MaxCalls - (c + 1)) * Longest = MaxCalls * Longest - (c + 1) * Longest
      BY <2>1
    <3>4. MaxCalls * Longest \in Nat /\ (c + 1) * Longest \in Nat
      BY <2>1
    <3> DEFINE p == MaxCalls * Longest
               q == (c + 1) * Longest
               d == (MaxCalls - (c + 1)) * Longest
    <3>5. p \in Nat /\ q \in Nat /\ d \in Nat /\ d = p - q
      BY <3>2, <3>3, <3>4
    <3>6. q <= p
      <4> HIDE DEF p, q, d
      <4> QED
        BY <3>5
    <3> QED
      BY <3>6
  <2>4. z <= c * Longest
    BY DEF z
  <2> DEFINE p == MaxCalls * Longest
             q == (c + 1) * Longest
             d == c * Longest
  <2>5. q = d + Longest /\ d \in Nat /\ q <= p /\ p < Width /\ z <= d
    BY <2>1, <2>2, <2>3, <2>4
  <2>6. z + (m - o) <= q /\ q < Width
    <3>1. p \in Int /\ q \in Int
      BY <2>1
    <3> HIDE DEF p, q, d, m, o
    <3> QED
      BY <2>1, <2>5, <3>1, <1>1, <1>2
  <2> QED
    BY <2>6
<1>11. ListIs(l.run \o t)
  <2> DEFINE q == (c + 1) * Longest
             y == z + (m - o)
  <2>1. q \in Nat /\ y \in Int /\ Width \in Nat /\ y <= q /\ q < Width
    BY <1>1, <1>2, <1>10, WidthIs DEF z
  <2>2. y < Width
    <3> HIDE DEF q, y
    <3> QED
      BY <2>1
  <2> QED
    BY <1>8, <2>2 DEF ListIs
<1>12. end \in 0 .. Len(run)
  <2>1. Len(run) \in Nat /\ Len(l.run) <= Len(run)
    <3>1. Len(run) = Len(l.run) + Len(new)
      BY <1>5, <1>6, <1>8
    <3> HIDE DEF run
    <3> QED
      BY <3>1, <1>1, <1>2
  <2>2. l.run = <<>> => l.end = 0
    BY <1>1
  <2> HIDE DEF run, e
  <2> QED
    BY <1>1, <1>3, <2>1, <2>2
<1>13. Appended(l, new) = [run |-> run, end |-> end]
  BY DEF Appended
<1>14. BlockMap(Renumbered(ListEnd(l.run), new)) = BlockMap(t)
  BY <1>1 DEF t, z
<1> HIDE DEF run, end
<1>15. Appended(l, new).run = run /\ Appended(l, new).end = end
  BY <1>13
<1> QED
  BY <1>5, <1>8, <1>9, <1>10, <1>11, <1>12, <1>14, <1>15 DEF AppendedList

(* The invariant of filling holds at first, *)
LEMMA FillInvInit == FileInit => FillInv
<1> SUFFICES ASSUME FileInit PROVE FillInv
  OBVIOUS
<1>1. list = NoRuns /\ mode = "unused" /\ blocks = {} /\ calls = 0
      /\ misplaced = FALSE
  BY DEF FileInit, Init
<1> QED
  BY <1>1, WidthIs DEF FillInv, NoRuns

(* it is kept by each call of the file system code, *)
LEMMA FillInvFill ==
  ASSUME FillInv, Fill
  PROVE  FillInv'
<1>1. pc = "filling" /\ Next /\ pc' = pc
  BY DEF Fill, reading
<1>2. MaxCalls \in Nat /\ Longest \in Nat
  BY WidthIs
<1>3. CASE Set
  <2>1. PICK new \in FirstRuns :
          /\ list' = SetRun(new) /\ blocks' = BlockMap(new)
          /\ mode' \in IF new = <<>> THEN {"adding", "appending"} ELSE {"adding"}
    BY <1>3 DEF Set
  <2>2. mode = "unused" /\ calls' = calls /\ calls = 0 /\ ~misplaced'
    BY <1>3 DEF Set, FillInv
  <2>3. AddedList(list', blocks')
    BY <2>1, SetKeeps
  <2>4. CASE mode' = "adding"
    BY <2>2, <2>3, <2>4, <1>2 DEF FillInv
  <2>5. CASE mode' = "appending"
    <3>1. new = <<>>
      BY <2>1, <2>5
    <3>2. list' = NoRuns /\ blocks' = {}
      BY <2>1, <3>1, MapOfNothing DEF SetRun
    <3>3. AppendedList(list', blocks') /\ Upto(0, list'.run) = 0
      BY <3>2, NothingAdded
    <3>4. calls' * Longest = 0
      BY <1>2, <2>2
    <3> QED
      BY <2>2, <2>5, <3>3, <3>4, <1>2 DEF FillInv
  <2> QED
    BY <2>1, <2>4, <2>5
<1>4. CASE Add
  <2>1. PICK new \in Extents : \E r \in AddResults(list, new) :
          /\ list' = r.list
          /\ blocks' = IF r.ret = "ok" THEN blocks \union BlockMap(new) ELSE blocks
          /\ misplaced' = (misplaced \/ (r.ret = "ok" /\ InFrontOfRest(list.run, new)))
    BY <1>4 DEF Add
  <2>2. PICK r \in AddResults(list, new) :
          /\ list' = r.list
          /\ blocks' = IF r.ret = "ok" THEN blocks \union BlockMap(new) ELSE blocks
          /\ misplaced' = (misplaced \/ (r.ret = "ok" /\ InFrontOfRest(list.run, new)))
    BY <2>1
  <2>3. mode = "adding" /\ mode' = mode /\ calls < MaxCalls /\ calls' = calls + 1
        /\ (misplaced \/ AddedList(list, blocks)) /\ calls \in 0 .. MaxCalls
    BY <1>4 DEF Add, FillInv
  <2>4. misplaced' \/ AddedList(list', blocks')
    <3>1. CASE misplaced
      BY <2>2, <3>1
    <3>2. CASE ~misplaced
      <4>1. \/ r.ret = "ok" /\ InFrontOfRest(list.run, new)
            \/ AddedList(r.list, IF r.ret = "ok" THEN blocks \union BlockMap(new) ELSE blocks)
        BY <2>3, <3>2, AddKeeps
      <4> QED
        BY <2>2, <4>1
    <3> QED
      BY <3>1, <3>2
  <2>5. calls' \in 0 .. MaxCalls
    BY <2>3, <1>2
  <2> QED
    BY <2>3, <2>4, <2>5 DEF FillInv
<1>5. CASE Append_run
  <2>1. PICK new \in Extents :
          /\ list' = Appended(list, new)
          /\ blocks' = blocks \union BlockMap(Renumbered(ListEnd(list.run), new))
    BY <1>5 DEF Append_run
  <2>2. /\ mode = "appending" /\ mode' = mode /\ calls < MaxCalls /\ calls' = calls + 1
        /\ AppendedList(list, blocks) /\ calls \in 0 .. MaxCalls /\ ~misplaced'
        /\ Upto(0, list.run) <= calls * Longest
    BY <1>1, <1>5 DEF Append_run, FillInv
  <2>3. calls \in Nat
    BY <2>2, <1>2
  <2>4. AppendedList(list', blocks') /\ Upto(0, list'.run) <= calls' * Longest
    BY <2>1, <2>2, <2>3, AppendKeeps
  <2>5. calls' \in 0 .. MaxCalls
    BY <2>2, <1>2
  <2> QED
    BY <2>2, <2>4, <2>5 DEF FillInv
<1>6. CASE Clear
  <2>1. list'.run = <<>> /\ mode' = "unused" /\ blocks' = {} /\ calls' = 0 /\ ~misplaced'
    BY <1>6 DEF Clear, Cleared, NoRuns
  <2> QED
    BY <2>1, <1>2 DEF FillInv
<1> QED
  BY <1>1, <1>3, <1>4, <1>5, <1>6 DEF Next

(* by the opening of the file, *)
LEMMA FillInvOpen ==
  ASSUME FillInv, Open
  PROVE  FillInv'
<1>1. pc' = "start" /\ calls' = 0 /\ list' = list /\ mode' = mode /\ blocks' = blocks /\ mode # "unused"
      /\ misplaced' = misplaced
  BY DEF Open
<1> QED
  BY <1>1, WidthIs DEF FillInv

(* and a read or walk leaves the list and the attribute alone. *)
LEMMA ReadLeaves ==
  ASSUME R!Next
  PROVE  pc # "filling" /\ pc' # "filling" /\ attr' = attr
BY DEF R!Next, R!StartRead, R!SkipRun, R!ZeroRun, R!DataRun, R!FinishRead, R!StartWalk,
       R!WalkSkip, R!WalkBlock, R!WalkFails, R!WalkEnds, R!Return

(* So every step keeps it. *)
LEMMA FillInvStep ==
  ASSUME FillInv, [FileNext]_<<filling, reading>>
  PROVE  FillInv'
<1>1. CASE Fill
  BY <1>1, FillInvFill
<1>2. CASE Open
  BY <1>2, FillInvOpen
<1>3. CASE Read
  BY <1>3, ReadLeaves DEF Read, FillInv, filling
<1>4. CASE UNCHANGED <<filling, reading>>
  BY <1>4 DEF FillInv, filling, reading
<1> QED
  BY <1>1, <1>2, <1>3, <1>4 DEF FileNext

(* The invariant of filling holds of every file: the list is that of an    *)
(* attribute which is unused, to which runs are appended, or to which they *)
(* are added at their offsets - the latter as long as no several runs have *)
(* been put in front of the rest of a filler (fs_attr.c:276, :480, :615,   *)
(* :713).                                                                  *)
THEOREM FillInvariance == FileSpec => []FillInv
<1>1. FileInit => FillInv
  BY FillInvInit
<1>2. FillInv /\ [FileNext]_<<filling, reading>> => FillInv'
  BY FillInvStep
<1> QED
  BY <1>1, <1>2, PTL DEF FileSpec

(* Whatever the order of arrival, each run of the list starts where the one *)
(* before it ends, and while runs are added run_end is the last of them    *)
(* (tsk_fs.h:160, fs_attr.c:480), as long as no rest of a filler is        *)
(* misplaced (fs_attr.c:615).                                              *)
THEOREM RunsAreSequential == FileSpec => []InOrderUnlessMisplaced
<1>1. ASSUME FillInv, ~misplaced PROVE RunsSequential
  <2>1. CASE mode = "unused"
    <3>1. list.run = <<>>
      BY <1>1, <2>1 DEF FillInv
    <3> QED
      BY <2>1, <3>1 DEF RunsSequential, Sequential
  <2>2. CASE mode = "adding"
    <3>1. ListIs(list.run) /\ list.end = Len(list.run)
      BY <1>1, <2>2 DEF FillInv, AddedList
    <3> QED
      BY <3>1, ListSequential DEF RunsSequential
  <2>3. CASE mode = "appending"
    <3>1. ListIs(list.run)
      BY <1>1, <2>3 DEF FillInv, AppendedList
    <3> QED
      BY <2>3, <3>1, ListSequential DEF RunsSequential
  <2> QED
    BY <1>1, <2>1, <2>2, <2>3 DEF FillInv
<1>2. FillInv => InOrderUnlessMisplaced
  BY <1>1 DEF InOrderUnlessMisplaced
<1> QED
  BY <1>2, FillInvariance, PTL

(* The list says of every block what the runs that were taken said of it:  *)
(* splitting and removing fillers loses, moves and shortens no run, as     *)
(* long as no rest of a filler is misplaced (fs_attr.c:480, :615, :713).   *)
THEOREM MapIsExact == FileSpec => []MapExact
<1>1. ASSUME FillInv PROVE MapExact
  BY <1>1, MapOfNothing DEF FillInv, AddedList, AppendedList, MapExact
<1> QED
  BY <1>1, FillInvariance, PTL

(* tsk_fs_attr_add_run refuses a run only if its first block is known      *)
(* already (fs_attr.c:542, :637), as long as no rest of a filler is        *)
(* misplaced (fs_attr.c:615).                                              *)
THEOREM OnlyKnownIsRefused == FileSpec => RefusedOnlyIfKnown
<1> DEFINE Refusal ==
       Add /\ ~misplaced /\ ret' \in {"beyond", "no filler"} =>
         \E new \in Extents :
           /\ Result(list, ret') \in AddResults(list, new)
           /\ \E a \in {b[2] : b \in blocks} : <<new[1].offset, a>> \in blocks
<1>1. ASSUME FillInv PROVE Refusal
  <2> SUFFICES ASSUME Add, ~misplaced, ret' \in {"beyond", "no filler"}
               PROVE  \E new \in Extents :
                        /\ Result(list, ret') \in AddResults(list, new)
                        /\ \E a \in {b[2] : b \in blocks} : <<new[1].offset, a>> \in blocks
    OBVIOUS
  <2>1. PICK new \in Extents : \E r \in AddResults(list, new) : ret' = r.ret
    BY DEF Add
  <2>2. PICK r \in AddResults(list, new) : ret' = r.ret
    BY <2>1
  <2>3. AddedList(list, blocks)
    BY <1>1 DEF Add, FillInv
  <2>4. r = Result(list, ret') /\ \E b \in blocks : b[1] = new[1].offset
    BY <2>2, <2>3, AddKeeps
  <2>5. PICK b \in blocks : b[1] = new[1].offset
    BY <2>4
  <2>6. b = <<b[1], b[2]>>
    <3>1. b \in BlockMap(list.run)
      BY <2>3 DEF AddedList
    <3>2. PICK i \in 1 .. Len(list.run) : b \in RunMap(list.run[i])
      BY <3>1, MapOfRuns
    <3>3. PICK k \in 0 .. list.run[i].len - 1 :
            b = <<list.run[i].offset + k, Address(list.run[i], k)>>
      BY <3>2 DEF RunMap
    <3> QED
      BY <3>3
  <2>7. <<new[1].offset, b[2]>> \in blocks
    BY <2>5, <2>6
  <2> QED
    BY <2>2, <2>4, <2>7
<1> HIDE DEF Refusal
<1>2. FileSpec => [][Refusal]_vars
  BY <1>1, FillInvariance, PTL
<1> QED
  BY <1>2 DEF RefusedOnlyIfKnown, Refusal

(* Multiplication is monotonic. *)
LEMMA TimesMono ==
  ASSUME NEW a \in Int, NEW b \in Int, NEW c \in Nat, a <= b
  PROVE  a * c <= b * c
<1>1. b - a \in Nat
  OBVIOUS
<1>2. (b - a) * c \in Nat
  BY <1>1
<1>3. (b - a) * c = b * c - a * c
  OBVIOUS
<1> DEFINE p == a * c
           q == b * c
           d == (b - a) * c
<1>4. p \in Int /\ q \in Int /\ d \in Nat /\ d = q - p
  BY <1>2, <1>3
<1>5. p <= q
  <2> HIDE DEF p, q, d
  <2> QED
    BY <1>4
<1> QED
  BY <1>5

(* A number from its quotient and its remainder *)
LEMMA DivMod ==
  ASSUME NEW q \in Nat, NEW c \in Nat, c > 0
  PROVE  /\ q \div c \in Nat /\ q % c \in Nat /\ q % c < c
         /\ q = (q \div c) * c + (q % c)
OBVIOUS

(* The quotient and the remainder of such a number *)
LEMMA DivIs ==
  ASSUME NEW b \in Nat, NEW r \in Nat, NEW c \in Nat, r < c
  PROVE  (b * c + r) \div c = b /\ (b * c + r) % c = r
<1> DEFINE q == b * c + r
           d == q \div c
           m == q % c
<1>1. c > 0 /\ q \in Nat
  OBVIOUS
<1>2. d \in Nat /\ m \in Nat /\ m < c /\ q = d * c + m
  BY <1>1, DivMod
<1>3. ~(d < b)
  <2>1. ASSUME d < b PROVE FALSE
    <3>1. (d + 1) * c <= b * c
      BY <1>2, <2>1, TimesMono
    <3>2. (d + 1) * c = d * c + c
      BY <1>2
    <3> DEFINE x == d * c
               y == b * c
    <3>3. x \in Int /\ y \in Int /\ x + c <= y /\ y + r = x + m
      BY <1>2, <3>1, <3>2
    <3> HIDE DEF x, y, m
    <3> QED
      BY <1>2, <3>3
  <2> QED
    BY <2>1
<1>4. ~(b < d)
  <2>1. ASSUME b < d PROVE FALSE
    <3>1. (b + 1) * c <= d * c
      BY <1>2, <2>1, TimesMono
    <3>2. (b + 1) * c = b * c + c
      BY <1>2
    <3> DEFINE x == d * c
               y == b * c
    <3>3. x \in Int /\ y \in Int /\ y + c <= x /\ y + r = x + m
      BY <1>2, <3>1, <3>2
    <3> HIDE DEF x, y, m
    <3> QED
      BY <1>2, <3>3
  <2> QED
    BY <2>1
<1>5. d = b
  BY <1>2, <1>3, <1>4
<1>6. m = r
  <2> DEFINE x == b * c
  <2>1. x \in Int /\ x + r = x + m
    BY <1>2, <1>5
  <2> HIDE DEF x, m
  <2> QED
    BY <1>2, <2>1
<1> QED
  BY <1>5, <1>6

(* The block of a byte between two blocks is between them. *)
LEMMA DivBetween ==
  ASSUME NEW q \in Nat, NEW c \in Nat, c > 0, NEW a \in Nat, NEW b \in Nat, a * c <= q, q < b * c
  PROVE  a <= q \div c /\ q \div c < b
<1> DEFINE d == q \div c
           m == q % c
<1>1. d \in Nat /\ m \in Nat /\ m < c /\ q = d * c + m
  BY DivMod
<1>2. ~(d < a)
  <2>1. ASSUME d < a PROVE FALSE
    <3>1. (d + 1) * c <= a * c
      BY <1>1, <2>1, TimesMono
    <3> DEFINE x == d * c
               y == a * c
    <3>2. (d + 1) * c = x + c
      BY <1>1
    <3>3. x \in Int /\ y \in Int
      BY <1>1
    <3> HIDE DEF x, y, m, d
    <3> QED
      BY <1>1, <3>1, <3>2, <3>3 DEF x, y
  <2> QED
    BY <2>1
<1>3. ~(b <= d)
  <2>1. ASSUME b <= d PROVE FALSE
    <3>1. b * c <= d * c
      BY <1>1, <2>1, TimesMono
    <3> DEFINE x == d * c
               y == b * c
    <3>3. x \in Int /\ y \in Int /\ y <= x /\ q = x + m /\ q < y
      BY <1>1, <3>1
    <3> HIDE DEF x, y, m, d
    <3> QED
      BY <1>1, <3>3
  <2> QED
    BY <2>1
<1> QED
  BY <1>1, <1>2, <1>3

-----------------------------------------------------------------------------
(* An attribute a whose run list is s *)
AttrIs(a, s) ==
  /\ ListIs(s)
  /\ a.run = [i \in DOMAIN s |-> Stored(s[i])]
  /\ a.skiplen \in Nat /\ a.initsize \in Nat /\ a.size \in Nat /\ a.allocsize \in Nat
  /\ a.initsize <= a.size /\ a.size <= a.allocsize
  /\ a.allocsize + a.skiplen = Upto(0, s) * BlockSize

(* A byte of an attribute a, from what B says of its blocks *)
ByteOf(B, a, slack, p) ==
  LET q == p + a.skiplen
      addrs == {b[2] : b \in {x \in B : x[1] = q \div BlockSize}}
  IN  IF addrs \subseteq {0} \/ (p >= a.initsize /\ ~slack) THEN R!Zero
      ELSE (CHOOSE v \in addrs : TRUE) * BlockSize + (q % BlockSize)

(* A byte of the file is that of its attribute. *)
LEMMA FileByteIs == \A p : FileByte(p) = ByteOf(blocks, attr, job.slack, p)
BY DEF FileByte, ByteOf

(* The runs that are read are those of the list. *)
LEMMA StoredRuns ==
  ASSUME NEW a, NEW s, AttrIs(a, s)
  PROVE  /\ Len(a.run) = Len(s) /\ Len(s) \in Nat
         /\ \A i \in 1 .. Len(s) :
              /\ a.run[i].offset = s[i].offset /\ a.run[i].len = s[i].len
              /\ a.run[i].addr = s[i].addr
              /\ R!IsSparse(a.run[i]) <=> s[i].filler \/ s[i].addr = 0
              /\ s[i].filler \/ s[i].addr = 0 => a.run[i].kind # "data"
              /\ s[i].offset \in Nat /\ s[i].len \in Nat /\ s[i].len > 0 /\ s[i].addr \in Nat
<1>1. Len(s) \in Nat /\ DOMAIN s = 1 .. Len(s) /\ s \in Seq(ListRun)
      /\ \A i \in 1 .. Len(s) : s[i].offset \in Nat /\ s[i].len \in Nat /\ s[i].len > 0
                                /\ s[i].addr \in Nat
  <2>1. Follows(0, s) /\ 0 \in Nat
    BY DEF AttrIs, ListIs
  <2>2. s \in Seq(ListRun) /\ Len(s) \in Nat
    BY <2>1, FollowsRuns
  <2>3. DOMAIN s = 1 .. Len(s)
    BY <2>2
  <2> QED
    BY <2>1, <2>2, <2>3, FollowsRuns
<1>2. a.run = [i \in 1 .. Len(s) |-> Stored(s[i])]
  BY <1>1 DEF AttrIs
<1>3. Len(a.run) = Len(s)
  BY <1>1, <1>2
<1>4. ASSUME NEW i \in 1 .. Len(s)
      PROVE  /\ a.run[i].offset = s[i].offset /\ a.run[i].len = s[i].len
             /\ a.run[i].addr = s[i].addr
             /\ a.run[i].kind = Kind(s[i])
  BY <1>2 DEF Stored
<1>5. \A r : /\ Kind(r) \in {"sparse", "filler"} <=> r.filler \/ r.addr = 0
             /\ r.filler \/ r.addr = 0 => Kind(r) # "data"
  BY DEF Kind
<1> QED
  BY <1>1, <1>3, <1>4, <1>5 DEF R!IsSparse

(* Every byte of a run is where the run says it is. *)
LEMMA ByteIs ==
  ASSUME NEW a, NEW s, AttrIs(a, s), NEW slack, NEW p \in Nat, NEW i \in 1 .. Len(s),
         s[i].offset * BlockSize <= p + a.skiplen,
         p + a.skiplen < (s[i].offset + s[i].len) * BlockSize
  PROVE  ByteOf(BlockMap(s), a, slack, p) =
           IF s[i].filler \/ s[i].addr = 0 \/ (p >= a.initsize /\ ~slack) THEN R!Zero
           ELSE s[i].addr * BlockSize + ((p + a.skiplen) - s[i].offset * BlockSize)
<1> DEFINE q == p + a.skiplen
           d == q \div BlockSize
           m == q % BlockSize
           o == s[i].offset
           l == s[i].len
           e == o + l
           k == d - o
           addrs == {b[2] : b \in {x \in BlockMap(s) : x[1] = d}}
           v == s[i].addr + k
<1>1. o \in Nat /\ l \in Nat /\ s[i].addr \in Nat /\ l > 0
  BY StoredRuns
<1>2. q \in Nat /\ BlockSize \in Nat /\ BlockSize > 0
  <2>1. a.skiplen \in Nat
    BY DEF AttrIs
  <2> QED
    BY <2>1, SizeAssumption
<1>3. o <= d /\ d < e
  <2>1. e \in Nat /\ o * BlockSize <= q /\ q < e * BlockSize
    BY <1>1
  <2> HIDE DEF o, e, q
  <2> QED
    BY <1>1, <1>2, <2>1, DivBetween
<1>7. d \in Nat /\ m \in Nat
  BY <1>2, DivMod
<1>8. q = d * BlockSize + m
  BY <1>2, DivMod
<1> HIDE DEF d, m, q, o, l
<1>9. k \in 0 .. l - 1 /\ o + k = d /\ k \in Nat
  BY <1>1, <1>3, <1>7
<1> HIDE DEF k
<1>4. ASSUME NEW b \in BlockMap(s), b[1] = d
      PROVE  ~s[i].filler /\ b[2] = Address(s[i], k)
  <2>1. PICK j \in 1 .. Len(s) : b \in RunMap(s[j])
    BY MapOfRuns
  <2>2. PICK h \in 0 .. s[j].len - 1 : b = <<s[j].offset + h, Address(s[j], h)>>
    BY <2>1 DEF RunMap
  <2>3. ~s[j].filler
    BY <2>1 DEF RunMap
  <2> DEFINE oj == s[j].offset
             lj == s[j].len
  <2>4. oj \in Nat /\ lj \in Nat /\ h \in 0 .. lj - 1
    BY <2>2, StoredRuns
  <2>5. oj + h = d
    BY <2>2, <1>4
  <2>6. i = j
    <3>1. Follows(0, s) /\ Len(s) \in Nat
      BY StoredRuns DEF AttrIs, ListIs
    <3>2. (i < j => e <= oj) /\ (j < i => oj + lj <= o)
      BY <3>1, FollowsInOrder DEF o, l
    <3>3. ~(i < j) /\ ~(j < i)
      <4> HIDE DEF oj, lj
      <4> QED
        BY <3>2, <1>1, <1>3, <1>7, <2>4, <2>5
    <3> QED
      BY <3>1, <3>3
  <2>7. h = k
    <3>1. oj = o
      BY <2>6 DEF o
    <3> HIDE DEF oj
    <3> QED
      BY <3>1, <2>4, <2>5, <1>1, <1>9
  <2> QED
    BY <2>2, <2>3, <2>6, <2>7
<1>5. CASE s[i].filler
  <2>1. addrs \subseteq {0}
    BY <1>4, <1>5
  <2> QED
    BY <1>5, <2>1 DEF ByteOf, d, q
<1>6. CASE ~s[i].filler
  <2> DEFINE w == Address(s[i], k)
  <2>1. <<d, w>> \in BlockMap(s)
    <3>1. <<s[i].offset + k, Address(s[i], k)>> \in RunMap(s[i])
      BY <1>9, <1>6 DEF RunMap, l
    <3>2. s[i].offset + k = d
      BY <1>9 DEF o
    <3> QED
      BY <3>1, <3>2, MapOfRuns
  <2>2. addrs = {w}
    <3>1. w \in addrs
      BY <2>1
    <3>2. \A b \in BlockMap(s) : b[1] = d => b[2] = w
      BY <1>4
    <3> HIDE DEF w
    <3> QED
      BY <3>1, <3>2
  <2>3. w = IF s[i].addr = 0 THEN 0 ELSE v
    BY DEF Address
  <2>4. CASE s[i].addr = 0
    <3>1. addrs \subseteq {0}
      BY <2>2, <2>3, <2>4
    <3> QED
      BY <2>4, <3>1 DEF ByteOf, d, q
  <2>5. CASE s[i].addr # 0
    <3>1. v \in Nat /\ v # 0
      BY <2>5, <1>1, <1>9
    <3>2. (CHOOSE x \in addrs : TRUE) = v /\ ~(addrs \subseteq {0})
      <4>1. addrs = {v}
        BY <2>2, <2>3, <2>5
      <4> HIDE DEF addrs, v
      <4> QED
        BY <3>1, <4>1
    <3>3. ByteOf(BlockMap(s), a, slack, p)
            = IF p >= a.initsize /\ ~slack THEN R!Zero ELSE v * BlockSize + m
      <4> DEFINE ad == {b[2] : b \in {x \in BlockMap(s) : x[1] = (p + a.skiplen) \div BlockSize}}
      <4>1. ad = addrs
        BY DEF d, q
      <4>2. ByteOf(BlockMap(s), a, slack, p) =
              IF ad \subseteq {0} \/ (p >= a.initsize /\ ~slack) THEN R!Zero
              ELSE (CHOOSE x \in ad : TRUE) * BlockSize + ((p + a.skiplen) % BlockSize)
        BY DEF ByteOf
      <4>3. (p + a.skiplen) % BlockSize = m
        BY DEF m, q
      <4> HIDE DEF ad, addrs, v
      <4> QED
        BY <3>2, <4>1, <4>2, <4>3
    <3>4. v * BlockSize + m = s[i].addr * BlockSize + (q - o * BlockSize)
      <4> DEFINE x == s[i].addr * BlockSize
                 y == d * BlockSize
                 z == o * BlockSize
                 u == v * BlockSize
                 t == k * BlockSize
      <4>1. u = x + t /\ y = z + t
        <5>1. u = x + t
          BY <1>1, <1>2, <1>9
        <5>2. y = (o + k) * BlockSize
          BY <1>9
        <5>3. (o + k) * BlockSize = z + t
          BY <1>1, <1>2, <1>9
        <5> QED
          BY <5>1, <5>2, <5>3
      <4>2. x \in Int /\ z \in Int /\ t \in Int
        BY <1>1, <1>2, <1>9
      <4>3. q = y + m
        BY <1>8
      <4>4. u + m = x + (q - z)
        <5> HIDE DEF x, y, z, u, t
        <5> QED
          BY <4>1, <4>2, <4>3, <1>7
      <4> QED
        BY <4>4
    <3> DEFINE there == s[i].addr * BlockSize + ((p + a.skiplen) - s[i].offset * BlockSize)
               past == p >= a.initsize /\ ~slack
    <3>5. v * BlockSize + m = there
      <4>1. there = s[i].addr * BlockSize + (q - o * BlockSize)
        BY ONLY TRUE DEF q, o
      <4> HIDE DEF there, v
      <4> QED
        BY ONLY <3>4, <4>1
    <3>6. ByteOf(BlockMap(s), a, slack, p) = IF past THEN R!Zero ELSE there
      BY ONLY <3>3, <3>5
    <3> HIDE DEF there, past
    <3>7. ByteOf(BlockMap(s), a, slack, p)
            = IF s[i].filler \/ s[i].addr = 0 \/ past THEN R!Zero ELSE there
      BY <1>6, <2>5, <3>6
    <3> QED
      BY ONLY <3>7 DEF there, past
  <2> QED
    BY <2>4, <2>5
<1> QED
  BY <1>5, <1>6

-----------------------------------------------------------------------------
(* Where in a run of l blocks from block o on a position of the file is    *)
LEMMA PlaceIs ==
  ASSUME NEW c \in Nat, c > 0, NEW o \in Nat, NEW l \in Nat, l > 0, NEW blk \in Nat, NEW byte \in Nat,
         NEW pos \in Nat, blk < o + l,
         \/ pos = blk * c + byte /\ byte < c /\ o <= blk
         \/ byte = 0 /\ pos = o * c /\ blk < o,
         NEW b, b = IF o < blk THEN blk - o ELSE 0
  PROVE  /\ b \in Nat /\ b <= l
         /\ (o + b) * c + byte = pos
         /\ (l - b) * c - byte = (o + l) * c - pos
         /\ o * c <= pos /\ pos < (o + l) * c
         /\ (o + b) * c \in Nat /\ (o + l) * c \in Nat
<1>1. CASE pos = blk * c + byte /\ byte < c /\ o <= blk
  <2>1. b = blk - o /\ b \in Nat /\ o + b = blk /\ b <= l
    BY <1>1
  <2>2. (o + b) * c + byte = pos
    BY <1>1, <2>1
  <2>3. (l - b) * c = (o + l) * c - (blk * c)
    <3>1. (l - b) * c = l * c - (b * c)
      BY <2>1
    <3>2. (o + l) * c = (o * c) + (l * c)
      OBVIOUS
    <3>3. (o + b) * c = (o * c) + (b * c)
      BY <2>1
    <3> DEFINE x == l * c
               y == b * c
               z == o * c
    <3>4. x \in Int /\ y \in Int /\ z \in Int
      BY <2>1
    <3> HIDE DEF x, y, z
    <3> QED
      BY <2>1, <3>1, <3>2, <3>3, <3>4 DEF x, y, z
  <2>4. o * c <= blk * c /\ (blk + 1) * c <= (o + l) * c
    BY <1>1, TimesMono
  <2>5. (blk + 1) * c = blk * c + c
    OBVIOUS
  <2>6. o * c <= pos /\ pos < (o + l) * c
    <3> DEFINE x == o * c
               y == blk * c
               z == (o + l) * c
    <3>1. x \in Int /\ y \in Int /\ z \in Int /\ x <= y /\ y + c <= z /\ pos = y + byte
      BY <1>1, <2>4, <2>5
    <3> HIDE DEF x, y, z
    <3>2. x <= pos /\ pos < z
      BY <1>1, <3>1
    <3> QED
      BY <3>2 DEF x, z
  <2>7. (l - b) * c - byte = (o + l) * c - pos
    <3> DEFINE x == (l - b) * c
               y == blk * c
               z == (o + l) * c
    <3>1. x \in Int /\ y \in Int /\ z \in Int /\ x = z - y /\ pos = y + byte
      BY <1>1, <2>1, <2>3
    <3> HIDE DEF x, y, z
    <3>2. x - byte = z - pos
      BY <3>1
    <3> QED
      BY <3>2 DEF x, z
  <2> QED
    BY <2>1, <2>2, <2>6, <2>7
<1>2. CASE byte = 0 /\ pos = o * c /\ blk < o
  <2>1. b = 0 /\ o + b = o /\ l - b = l
    BY <1>2
  <2>2. (o + l) * c = o * c + l * c
    OBVIOUS
  <2>4. l * c > 0
    OBVIOUS
  <2>5. o * c < (o + l) * c /\ (l - b) * c - byte = (o + l) * c - pos
    <3> DEFINE x == o * c
               y == l * c
               z == (o + l) * c
    <3>1. x \in Int /\ y \in Int /\ z = x + y /\ y > 0 /\ (l - b) * c = y /\ pos = x
      BY <1>2, <2>1, <2>2, <2>4
    <3> HIDE DEF x, y, z
    <3>2. x < z /\ y - byte = z - pos
      BY <1>2, <3>1
    <3> QED
      BY <3>1, <3>2 DEF x, z
  <2> QED
    BY <1>2, <2>1, <2>5
<1> QED
  BY <1>1, <1>2

(* Where the runs before run r of a list end *)
EndBefore(s, r) == IF r = 1 THEN 0 ELSE s[r - 1].offset + s[r - 1].len

(* A run starts where the runs before it end. *)
LEMMA EndBeforeIs ==
  ASSUME NEW s, Follows(0, s), NEW r \in 1 .. Len(s) + 1
  PROVE  /\ EndBefore(s, r) \in Nat
         /\ r <= Len(s) => s[r].offset = EndBefore(s, r)
         /\ r = Len(s) + 1 => EndBefore(s, r) = Upto(0, s)
         /\ r <= Len(s) => EndBefore(s, r + 1) = s[r].offset + s[r].len
<1>1. Len(s) \in Nat /\ s \in Seq(ListRun)
      /\ \A i \in 1 .. Len(s) : s[i].offset \in Nat /\ s[i].len \in Nat
  BY FollowsRuns
<1>2. EndBefore(s, r) \in Nat
  <2>1. CASE r = 1
    BY <2>1 DEF EndBefore
  <2>2. CASE r # 1
    <3>1. r - 1 \in 1 .. Len(s)
      BY <1>1, <2>2
    <3> QED
      BY <1>1, <2>2, <3>1 DEF EndBefore
  <2> QED
    BY <2>1, <2>2
<1>3. ASSUME r <= Len(s) PROVE s[r].offset = EndBefore(s, r)
  <2>1. CASE r = 1
    <3>1. s # <<>>
      BY <1>1, <1>3
    <3> QED
      BY <2>1, <3>1 DEF EndBefore, Follows
  <2>2. CASE r # 1
    <3>1. r - 1 \in 1 .. Len(s) - 1 /\ (r - 1) + 1 = r
      BY <1>1, <1>3, <2>2
    <3>2. s[(r - 1) + 1].offset = s[r - 1].offset + s[r - 1].len
      BY <3>1 DEF Follows
    <3> QED
      BY <2>2, <3>1, <3>2 DEF EndBefore
  <2> QED
    BY <2>1, <2>2
<1>4. ASSUME r = Len(s) + 1 PROVE EndBefore(s, r) = Upto(0, s)
  <2>1. CASE s = <<>>
    BY <1>1, <1>4, <2>1 DEF EndBefore, Upto
  <2>2. CASE s # <<>>
    <3>1. r # 1 /\ r - 1 = Len(s)
      BY <1>1, <1>4, <2>2
    <3> QED
      BY <2>2, <3>1 DEF EndBefore, Upto, EndOf, Last
  <2> QED
    BY <2>1, <2>2
<1>5. EndBefore(s, r + 1) = s[r].offset + s[r].len
  <2>1. r + 1 # 1 /\ (r + 1) - 1 = r
    BY <1>1
  <2> QED
    BY <2>1 DEF EndBefore
<1> QED
  BY <1>2, <1>3, <1>4, <1>5

-----------------------------------------------------------------------------
(* Where a read or a walk of attribute a has come to, as read and put into *)
(* f by a call whose arguments and loop are j                              *)
Job == [off : Nat, len : Nat, slack : BOOLEAN, nosparse : BOOLEAN, run : Nat,
        blk : Nat, byte : Nat, remain : Nat, skip : Nat]

(* The limit of a call, how much is to be read, and how much has been read *)
Top(a, slack) == IF slack THEN a.allocsize ELSE a.size
Want(a, j)    == R!Least(j.len, Top(a, j.slack) - j.off)
Got(a, j)     == Want(a, j) - j.remain

(* The first n bytes of f have been read, and are those of the file from   *)
(* offset off on unless there is a skiplen, which reads ignore.            *)
Shows(a, s, j, f, n) ==
  \A k \in 1 .. n : /\ a.skiplen = 0 => f[k] = ByteOf(BlockMap(s), a, j.slack, j.off + (k - 1))
                    /\ f[k] # R!Junk

(* Straight of any attribute and call *)
StraightOf(a, j) ==
  \/ j.off % BlockSize = 0
  \/ \A i \in DOMAIN a.run :
       LET run  == a.run[i]
           end  == R!Least(j.off + j.len, Top(a, j.slack))
           stop == (run.offset + run.len) * BlockSize
       IN  run.offset * BlockSize <= j.off /\ j.off < stop =>
             IF R!IsSparse(run) \/ (j.off >= a.initsize /\ ~j.slack) THEN end <= stop
             ELSE j.slack \/ R!Least(end, stop) <= a.initsize

(* Nothing is left, or the next byte is in the block that the read starts  *)
(* in, which is not in an earlier run, or it is the first of the next run. *)
ReadAt(a, s, j) ==
  \/ j.remain = 0
  \/ /\ Got(a, j) = 0 /\ j.byte = j.off % BlockSize
     /\ EndBefore(s, j.run) <= j.blk
  \/ /\ j.byte = 0
     /\ j.off + Got(a, j) = EndBefore(s, j.run) * BlockSize
     /\ j.blk < EndBefore(s, j.run)

(* A read has come to the place that its job says. *)
ReadOk(a, s, j, f) ==
  /\ j \in Job /\ j.len > 0
  /\ j.off < Top(a, j.slack)
  /\ j.run \in 1 .. Len(s) + 1
  /\ j.remain <= Want(a, j)
  /\ j.blk = j.off \div BlockSize
  /\ j.byte < BlockSize
  /\ StraightOf(a, j)
  /\ ReadAt(a, s, j)
  /\ Len(f) = j.len
  /\ Shows(a, s, j, f, Got(a, j))
  /\ \A k \in Want(a, j) + 1 .. j.len : f[k] = R!Zero

(* A buffer with some of its bytes replaced *)
PutIn(f, from, bytes) ==
  [k \in 1 .. Len(f) |-> IF k - from \in DOMAIN bytes THEN bytes[k - from] ELSE f[k]]

(* The buffer with some bytes replaced *)
LEMMA PutIs == \A from, bytes : R!Put(from, bytes) = PutIn(buf, from, bytes)
BY DEF R!Put, PutIn

(* What is in such a buffer *)
LEMMA PutInIs ==
  ASSUME NEW f, Len(f) \in Nat, NEW from \in Nat, NEW bytes, NEW n \in Nat,
         DOMAIN bytes = 1 .. n
  PROVE  /\ Len(PutIn(f, from, bytes)) = Len(f)
         /\ \A k \in 1 .. Len(f) :
              PutIn(f, from, bytes)[k] =
                IF from < k /\ k <= from + n THEN bytes[k - from] ELSE f[k]
<1>1. Len(PutIn(f, from, bytes)) = Len(f)
  BY DEF PutIn
<1>2. ASSUME NEW k \in 1 .. Len(f)
      PROVE  PutIn(f, from, bytes)[k] =
               IF from < k /\ k <= from + n THEN bytes[k - from] ELSE f[k]
  <2>1. k - from \in 1 .. n <=> from < k /\ k <= from + n
    OBVIOUS
  <2> QED
    BY <2>1 DEF PutIn
<1> QED
  BY <1>1, <1>2

(* The sizes of an attribute *)
LEMMA SizesAre ==
  ASSUME NEW a, NEW s, AttrIs(a, s), NEW slack \in BOOLEAN
  PROVE  /\ Top(a, slack) \in Nat /\ Top(a, slack) <= a.allocsize
         /\ ~slack => Top(a, slack) = a.size
         /\ a.initsize \in Nat /\ a.size \in Nat /\ a.allocsize \in Nat /\ a.skiplen \in Nat
         /\ a.initsize <= a.size
         /\ a.allocsize + a.skiplen = Upto(0, s) * BlockSize
         /\ BlockSize \in Nat /\ BlockSize > 0
         /\ Follows(0, s) /\ Len(s) \in Nat
<1>1. Follows(0, s) /\ Len(s) \in Nat
  BY StoredRuns DEF AttrIs, ListIs
<1> QED
  BY <1>1, SizeAssumption DEF AttrIs, Top

(* What is known of a read with bytes left *)
LEMMA ReadIs ==
  ASSUME NEW a, NEW s, AttrIs(a, s), NEW j, NEW f, ReadOk(a, s, j, f)
  PROVE  /\ j.off \in Nat /\ j.len \in Nat /\ j.slack \in BOOLEAN /\ j.blk \in Nat
         /\ j.byte \in Nat /\ j.remain \in Nat /\ j.run \in Nat
         /\ Want(a, j) \in Nat /\ Want(a, j) > 0 /\ Got(a, j) \in Nat
         /\ Want(a, j) <= j.len
         /\ Got(a, j) + j.remain = Want(a, j)
         /\ j.off + Want(a, j) <= Top(a, j.slack)
<1>1. /\ j.off \in Nat /\ j.len \in Nat /\ j.slack \in BOOLEAN /\ j.blk \in Nat
      /\ j.byte \in Nat /\ j.remain \in Nat /\ j.run \in Nat
      /\ j.len > 0 /\ j.off < Top(a, j.slack) /\ j.remain <= Want(a, j)
  BY DEF ReadOk, Job
<1>2. Top(a, j.slack) \in Nat
  BY <1>1, SizesAre
<1>3. /\ Want(a, j) \in Nat /\ Want(a, j) > 0 /\ Want(a, j) <= j.len
      /\ j.off + Want(a, j) <= Top(a, j.slack)
  <2> DEFINE t == Top(a, j.slack)
             x == j.off
             y == j.len
  <2>1. Want(a, j) = IF y <= t - x THEN y ELSE t - x
    BY DEF Want, R!Least
  <2>2. t \in Nat /\ x \in Nat /\ y \in Nat /\ x < t /\ y > 0
    BY <1>1, <1>2
  <2> HIDE DEF t, x, y
  <2>3. /\ Want(a, j) \in Nat /\ Want(a, j) > 0 /\ Want(a, j) <= y
        /\ x + Want(a, j) <= t
    BY <2>1, <2>2
  <2> QED
    BY <2>3 DEF t, x, y
<1>4. Got(a, j) \in Nat /\ Got(a, j) + j.remain = Want(a, j)
  BY <1>1, <1>3 DEF Got
<1> QED
  BY <1>1, <1>3, <1>4

-----------------------------------------------------------------------------
(* What is read of the run that a read has come to, the next byte being pos *)
BlockOf(s, j) == IF s[j.run].offset < j.blk THEN j.blk - s[j.run].offset ELSE 0
Part(s, j)    == R!Least(j.remain, (s[j.run].len - BlockOf(s, j)) * BlockSize - j.byte)

(* What is so if the next byte is pos, and n bytes are to be read from     *)
(* block b of the l blocks of a run, which is at block o of the file       *)
InRun(a, s, j, pos, n, o, l, b) ==
         /\ pos \in Nat /\ n \in Nat /\ n > 0 /\ n <= j.remain
         /\ b \in Nat /\ o \in Nat /\ l \in Nat
         /\ j.run \in 1 .. Len(s)
         /\ (o + b) * BlockSize + j.byte = pos
         /\ n = R!Least(j.remain, (l - b) * BlockSize - j.byte)
         /\ o * BlockSize <= pos /\ pos + n <= (o + l) * BlockSize
         /\ n = j.remain \/ pos + n = (o + l) * BlockSize
         /\ pos + n <= Top(a, j.slack)
         /\ EndBefore(s, j.run + 1) = o + l

(* The read is in a run, of which there is something to be read. *)
InSomeRun(a, s, j) ==
  j.remain # 0 /\ j.run <= Len(s) /\ j.blk < s[j.run].offset + s[j.run].len

(* A read that is in a run is at the byte that it says. *)
LEMMA RunIs ==
  ASSUME NEW a, NEW s, AttrIs(a, s), NEW j, NEW f, ReadOk(a, s, j, f), InSomeRun(a, s, j)
  PROVE  InRun(a, s, j, j.off + Got(a, j), Part(s, j), s[j.run].offset, s[j.run].len,
               BlockOf(s, j))
<1> DEFINE pos == j.off + Got(a, j)
           n == Part(s, j)
           o == s[j.run].offset
           l == s[j.run].len
           b == BlockOf(s, j)
<1>0. j.remain # 0 /\ j.run <= Len(s) /\ j.blk < o + l
  BY DEF InSomeRun
<1> DEFINE c == BlockSize
           blk == j.blk
           byte == j.byte
           rem == j.remain
<1>1. /\ j.off \in Nat /\ blk \in Nat /\ byte \in Nat /\ rem \in Nat /\ j.run \in Nat
      /\ Want(a, j) \in Nat /\ Got(a, j) \in Nat /\ j.slack \in BOOLEAN
      /\ Got(a, j) + rem = Want(a, j)
      /\ j.off + Want(a, j) <= Top(a, j.slack)
  BY ReadIs
<1>2. c \in Nat /\ c > 0 /\ Follows(0, s) /\ Len(s) \in Nat /\ Top(a, j.slack) \in Nat
  BY <1>1, SizesAre
<1>3. j.run \in 1 .. Len(s)
  BY <1>0, <1>1, <1>2 DEF ReadOk
<1>4. o \in Nat /\ l \in Nat /\ l > 0
  BY <1>3, StoredRuns
<1>5. EndBefore(s, j.run) = o /\ EndBefore(s, j.run + 1) = o + l
  <2>1. j.run \in 1 .. Len(s) + 1 /\ j.run <= Len(s)
    BY <1>2, <1>3
  <2> QED
    BY <1>2, <2>1, EndBeforeIs
<1>6. b = IF o < blk THEN blk - o ELSE 0
  BY DEF BlockOf
<1>7. \/ pos = blk * c + byte /\ byte < c /\ o <= blk
      \/ byte = 0 /\ pos = o * c /\ blk < o
  <2>1. ReadAt(a, s, j) /\ byte < c /\ blk = j.off \div c
    BY DEF ReadOk
  <2>2. CASE Got(a, j) = 0 /\ byte = j.off % c /\ EndBefore(s, j.run) <= blk
    <3>1. j.off = (j.off \div c) * c + (j.off % c)
      BY <1>1, <1>2, DivMod
    <3>2. j.off = blk * c + byte
      BY <3>1, <2>1, <2>2
    <3>3. pos = j.off
      BY <2>2, <1>1
    <3> QED
      BY <3>2, <3>3, <2>1, <2>2, <1>5
  <2>3. CASE byte = 0 /\ pos = EndBefore(s, j.run) * c /\ blk < EndBefore(s, j.run)
    BY <2>3, <1>5
  <2> QED
    BY <1>0, <2>1, <2>2, <2>3 DEF ReadAt, InSomeRun
<1>8. pos \in Nat
  BY <1>1
<1>9. /\ b \in Nat /\ b <= l
      /\ (o + b) * c + byte = pos
      /\ (l - b) * c - byte = (o + l) * c - pos
      /\ o * c <= pos /\ pos < (o + l) * c
      /\ (o + l) * c \in Nat
  <2>1. /\ blk < o + l /\ l > 0 /\ c > 0
        /\ c \in Nat /\ o \in Nat /\ l \in Nat /\ blk \in Nat /\ byte \in Nat /\ pos \in Nat
    BY <1>0, <1>1, <1>2, <1>4, <1>8
  <2> HIDE DEF c, blk, byte, rem, pos, n, o, l, b
  <2>2. /\ b \in Nat /\ b <= l
        /\ (o + b) * c + byte = pos
        /\ (l - b) * c - byte = (o + l) * c - pos
        /\ o * c <= pos /\ pos < (o + l) * c
        /\ (o + b) * c \in Nat /\ (o + l) * c \in Nat
    BY ONLY <1>6, <1>7, <2>1, PlaceIs
  <2> QED
    BY <2>2
<1>10. n = R!Least(rem, (l - b) * c - byte)
  BY DEF Part
<1>11. /\ n \in Nat /\ n > 0 /\ n <= rem
       /\ n = rem \/ pos + n = (o + l) * c
       /\ pos + n <= (o + l) * c
  <2> DEFINE e == (o + l) * c
             x == (l - b) * c - byte
  <2>1. n = IF rem <= x THEN rem ELSE x
    BY <1>10 DEF R!Least
  <2>2. x = e - pos /\ e \in Nat /\ pos < e
    BY <1>9
  <2>3. rem # 0 /\ rem \in Nat
    BY <1>0, <1>1
  <2> HIDE DEF e, x, rem, pos, n, o, l, b
  <2>4. /\ n \in Nat /\ n > 0 /\ n <= rem
        /\ n = rem \/ pos + n = e
        /\ pos + n <= e
    BY ONLY <1>8, <2>1, <2>2, <2>3
  <2> QED
    BY <2>4 DEF e
<1>12. pos + n <= Top(a, j.slack)
  <2> DEFINE t == Top(a, j.slack)
             x == j.off
             g == Got(a, j)
             w == Want(a, j)
  <2>1. x \in Nat /\ g \in Nat /\ w \in Nat /\ t \in Nat /\ pos = x + g
        /\ g + rem = w /\ x + w <= t /\ n \in Nat /\ n <= rem /\ rem \in Nat
    BY <1>1, <1>2, <1>11
  <2> HIDE DEF t, x, g, w, rem, n, pos
  <2>2. pos + n <= t
    BY <2>1
  <2> QED
    BY <2>2 DEF t
<1> HIDE DEF pos, n, o, l, b
<1>13. InRun(a, s, j, pos, n, o, l, b)
  BY <1>3, <1>4, <1>5, <1>8, <1>9, <1>10, <1>11, <1>12 DEF InRun
<1> QED
  BY <1>13 DEF pos, n, o, l, b

(* The place that a byte of a run of l blocks at addr is read from *)
LEMMA PlaceOf ==
  ASSUME NEW c \in Nat, NEW o \in Nat, NEW l \in Nat, NEW b \in Nat, NEW byte \in Nat,
         NEW pos \in Nat, NEW n \in Nat, NEW addr \in Nat, NEW k \in 1 .. n,
         (o + b) * c + byte = pos, o * c <= pos, pos + n <= (o + l) * c
  PROVE  /\ pos + (k - 1) \in Nat
         /\ o * c <= pos + (k - 1) /\ pos + (k - 1) < (o + l) * c
         /\ addr * c + ((pos + (k - 1)) - o * c) = ((addr + b) * c + byte) + (k - 1)
<1> DEFINE x == o * c
           y == b * c
           z == addr * c
           u == (addr + b) * c
           v == (o + b) * c
           e == (o + l) * c
<1>1. x \in Int /\ y \in Int /\ z \in Int /\ e \in Int /\ v = x + y /\ u = z + y
  OBVIOUS
<1>2. v + byte = pos /\ x <= pos /\ pos + n <= e
  OBVIOUS
<1> HIDE DEF x, y, z, u, v, e
<1>3. pos + (k - 1) \in Nat /\ x <= pos + (k - 1) /\ pos + (k - 1) < e
  BY <1>1, <1>2
<1>4. z + ((pos + (k - 1)) - x) = (u + byte) + (k - 1)
  BY <1>1, <1>2
<1> QED
  BY <1>3, <1>4 DEF x, z, u, e

(* The bytes of that part *)
LEMMA PartBytes ==
  ASSUME NEW a, NEW s, AttrIs(a, s), NEW j, NEW f, ReadOk(a, s, j, f), InSomeRun(a, s, j),
         a.skiplen = 0, NEW k \in 1 .. Part(s, j)
  PROVE  ByteOf(BlockMap(s), a, j.slack, (j.off + Got(a, j)) + (k - 1)) =
           IF \/ s[j.run].filler \/ s[j.run].addr = 0
              \/ (j.off + Got(a, j)) + (k - 1) >= a.initsize /\ ~j.slack
           THEN R!Zero
           ELSE ((s[j.run].addr + BlockOf(s, j)) * BlockSize + j.byte) + (k - 1)
<1> DEFINE pos == j.off + Got(a, j)
           n == Part(s, j)
           i == j.run
           o == s[i].offset
           l == s[i].len
           b == BlockOf(s, j)
           p == pos + (k - 1)
           addr == s[i].addr
           byte == j.byte
<1>1. /\ pos \in Nat /\ n \in Nat /\ b \in Nat /\ o \in Nat /\ l \in Nat
      /\ i \in 1 .. Len(s)
      /\ (o + b) * BlockSize + byte = pos
      /\ o * BlockSize <= pos /\ pos + n <= (o + l) * BlockSize
  <2>1. InRun(a, s, j, pos, n, o, l, b)
    BY RunIs
  <2> HIDE DEF pos, n, o, l, b
  <2> QED
    BY <2>1 DEF InRun
<1>2. a.skiplen = 0 /\ BlockSize \in Nat /\ byte \in Nat /\ addr \in Nat
  BY <1>1, SizeAssumption, StoredRuns, ReadIs DEF ReadOk
<1>3. /\ p \in Nat /\ o * BlockSize <= p /\ p < (o + l) * BlockSize
      /\ addr * BlockSize + (p - o * BlockSize) = ((addr + b) * BlockSize + byte) + (k - 1)
  <2>1. k \in 1 .. n
    OBVIOUS
  <2> HIDE DEF pos, n, o, l, b, addr, byte
  <2> QED
    BY ONLY <1>1, <1>2, <2>1, PlaceOf
<1>4. p + a.skiplen = p
  <2> HIDE DEF p
  <2> QED
    BY <1>2, <1>3
<1>5. ByteOf(BlockMap(s), a, j.slack, p) =
        IF s[i].filler \/ addr = 0 \/ (p >= a.initsize /\ ~j.slack) THEN R!Zero
        ELSE addr * BlockSize + ((p + a.skiplen) - o * BlockSize)
  <2>1. o * BlockSize <= p + a.skiplen /\ p + a.skiplen < (o + l) * BlockSize
    BY <1>3, <1>4
  <2> HIDE DEF p, i
  <2> QED
    BY <1>1, <1>3, <2>1, ByteIs, SMTT(20)
<1>6. ByteOf(BlockMap(s), a, j.slack, p) =
        IF s[i].filler \/ addr = 0 \/ (p >= a.initsize /\ ~j.slack) THEN R!Zero
        ELSE ((addr + b) * BlockSize + byte) + (k - 1)
  <2> DEFINE x == o * BlockSize
  <2> HIDE DEF p, pos, n, addr, b, byte, x
  <2> QED
    BY <1>3, <1>4, <1>5 DEF x
<1> QED
  BY ONLY <1>6 DEF p, pos, addr, b, byte, i

-----------------------------------------------------------------------------
(* A read goes on behind a run of which it has read its part. *)
Behind(s, j, byte) ==
  [j EXCEPT !.run = @ + 1, !.byte = byte, !.remain = @ - Part(s, j)]

(* A read that has read its part of a run goes on behind the run.          *)
LEMMA ReadGoesOn ==
  ASSUME NEW a, NEW s, AttrIs(a, s), NEW j, NEW f, ReadOk(a, s, j, f), InSomeRun(a, s, j),
         NEW g, DOMAIN g = 1 .. Part(s, j),
         \A k \in 1 .. Part(s, j) :
           /\ a.skiplen = 0 =>
                g[k] = ByteOf(BlockMap(s), a, j.slack, (j.off + Got(a, j)) + (k - 1))
           /\ g[k] # R!Junk,
         NEW byte \in Nat, byte < BlockSize, byte = 0 \/ Part(s, j) = j.remain
  PROVE  ReadOk(a, s, Behind(s, j, byte), PutIn(f, Got(a, j), g))
<1> DEFINE i == Behind(s, j, byte)
           h == PutIn(f, Got(a, j), g)
           n == Part(s, j)
           q == Got(a, j)
           w == Want(a, j)
           rem == j.remain
           e == EndBefore(s, j.run + 1)
<1>1. /\ j.off \in Nat /\ j.len \in Nat /\ j.slack \in BOOLEAN /\ j.blk \in Nat
      /\ rem \in Nat /\ j.run \in Nat
      /\ w \in Nat /\ q \in Nat /\ w <= j.len /\ q + rem = w
  BY ReadIs
<1>2. j \in Job /\ Len(f) = j.len /\ j.len > 0
  BY DEF ReadOk
<1>3. /\ n \in Nat /\ n > 0 /\ n <= rem
      /\ j.run \in 1 .. Len(s)
      /\ n = rem \/ (j.off + q) + n = e * BlockSize
      /\ e = s[j.run].offset + s[j.run].len
  <2>1. InRun(a, s, j, j.off + q, n, s[j.run].offset, s[j.run].len, BlockOf(s, j))
    BY RunIs
  <2> HIDE DEF n, q, e
  <2>2. EndBefore(s, j.run + 1) = s[j.run].offset + s[j.run].len
    BY <2>1 DEF InRun
  <2> QED
    BY <2>1, <2>2 DEF InRun, e
<1>4. Len(s) \in Nat /\ BlockSize \in Nat /\ BlockSize > 0
  BY <1>1, SizesAre
<1>5. /\ i.off = j.off /\ i.len = j.len /\ i.slack = j.slack /\ i.blk = j.blk
      /\ i.run = j.run + 1 /\ i.byte = byte /\ i.remain = rem - n /\ rem - n \in Nat
      /\ i \in Job
  <2>1. rem - n \in Nat
    <3> HIDE DEF rem, n
    <3> QED
      BY <1>1, <1>3
  <2>2. i = [j EXCEPT !.run = j.run + 1, !.byte = byte, !.remain = rem - n]
    BY DEF Behind
  <2>3. j.run + 1 \in Nat
    BY <1>1
  <2> HIDE DEF i, rem, n
  <2> QED
    BY <1>2, <2>1, <2>2, <2>3 DEF Job
<1>6. Want(a, i) = w /\ Got(a, i) = q + n
  <2>1. Want(a, i) = w
    BY <1>5 DEF Want
  <2>2. Got(a, i) = w - (rem - n)
    BY <1>5, <2>1 DEF Got
  <2> HIDE DEF w, q, rem, n, i
  <2> QED
    BY <1>1, <1>3, <2>1, <2>2
<1>7. Len(h) = j.len
      /\ \A k \in 1 .. j.len : h[k] = IF q < k /\ k <= q + n THEN g[k - q] ELSE f[k]
  <2>1. DOMAIN g = 1 .. n /\ Len(f) \in Nat
    BY <1>1, <1>2
  <2>2. h = PutIn(f, q, g)
    OBVIOUS
  <2> HIDE DEF q, n, h
  <2>3. QED
    <3>1. q \in Nat /\ n \in Nat /\ Len(f) = j.len
      BY <1>1, <1>2, <1>3
    <3>2. /\ Len(PutIn(f, q, g)) = Len(f)
          /\ \A k \in 1 .. Len(f) :
               PutIn(f, q, g)[k] = IF q < k /\ k <= q + n THEN g[k - q] ELSE f[k]
      BY ONLY <2>1, <3>1, PutInIs
    <3> QED
      BY ONLY <2>2, <3>1, <3>2
<1>8. Shows(a, s, i, h, q + n)
  <2> SUFFICES ASSUME NEW k \in 1 .. q + n
               PROVE  /\ a.skiplen = 0 => h[k] = ByteOf(BlockMap(s), a, j.slack, j.off + (k - 1))
                      /\ h[k] # R!Junk
    BY <1>5 DEF Shows
  <2>1. k \in 1 .. j.len
    <3> HIDE DEF q, n, w, rem
    <3> QED
      BY <1>1, <1>3
  <2>2. CASE k <= q
    <3>1. h[k] = f[k]
      <4> HIDE DEF q, n, h
      <4> QED
        BY <1>1, <1>3, <1>7, <2>1, <2>2
    <3>2. k \in 1 .. q /\ Shows(a, s, j, f, q)
      BY <1>1, <2>1, <2>2 DEF ReadOk
    <3> QED
      BY <3>1, <3>2 DEF Shows
  <2>3. CASE k > q
    <3> DEFINE m == k - q
    <3>1. m \in 1 .. n /\ h[k] = g[m]
      <4> HIDE DEF q, n, h
      <4> QED
        BY <1>1, <1>3, <1>7, <2>1, <2>3
    <3>2. (j.off + q) + (m - 1) = j.off + (k - 1)
      <4> HIDE DEF q
      <4> QED
        BY <1>1, <2>1
    <3> HIDE DEF m
    <3>3. /\ a.skiplen = 0 => g[m] = ByteOf(BlockMap(s), a, j.slack, (j.off + q) + (m - 1))
          /\ g[m] # R!Junk
      BY <3>1
    <3> QED
      BY <3>1, <3>2, <3>3
  <2> QED
    BY <1>1, <2>1, <2>2, <2>3
<1>9. \A k \in w + 1 .. j.len : h[k] = R!Zero
  <2> TAKE k \in w + 1 .. j.len
  <2>1. k \in 1 .. j.len /\ ~(k <= q + n)
    <3> HIDE DEF q, n, w, rem
    <3> QED
      BY <1>1, <1>3
  <2>2. h[k] = f[k]
    BY <1>7, <2>1
  <2>3. f[k] = R!Zero
    BY DEF ReadOk
  <2> QED
    BY <2>2, <2>3
<1>10. ReadAt(a, s, i)
  <2>1. CASE n = rem
    <3>1. rem - n = 0
      <4> HIDE DEF n, rem
      <4> QED
        BY <2>1, <1>1
    <3> QED
      BY <3>1, <1>5 DEF ReadAt
  <2>2. CASE (j.off + q) + n = e * BlockSize
    <3>1. j.off + (q + n) = (j.off + q) + n
      <4> HIDE DEF q, n
      <4> QED
        BY <1>1, <1>3
    <3>2. j.blk < e
      BY <1>3 DEF InSomeRun
    <3>3. EndBefore(s, i.run) = e
      BY <1>5
    <3>4. CASE byte = 0
      BY <1>5, <1>6, <2>2, <3>1, <3>2, <3>3, <3>4 DEF ReadAt
    <3> QED
      BY <2>1, <3>4
  <2> QED
    BY <1>3, <2>1, <2>2
<1>11. /\ j.off < Top(a, j.slack) /\ j.blk = j.off \div BlockSize /\ StraightOf(a, i)
  <2>1. StraightOf(a, j) /\ j.off < Top(a, j.slack) /\ j.blk = j.off \div BlockSize
    BY DEF ReadOk
  <2> HIDE DEF i
  <2> QED
    BY <1>5, <2>1 DEF StraightOf
<1>12. rem - n <= w
  <2> HIDE DEF rem, n, w, q
  <2> QED
    BY <1>1, <1>3
<1>13. j.run + 1 \in 1 .. Len(s) + 1
  BY <1>3, <1>4
<1> HIDE DEF i, h, n, q, w, rem
<1>14. ReadOk(a, s, i, h)
  BY <1>2, <1>4, <1>5, <1>6, <1>7, <1>8, <1>9, <1>10, <1>11, <1>12, <1>13 DEF ReadOk
<1> QED
  BY <1>14 DEF i, h, q

-----------------------------------------------------------------------------
(* The steps of a read, s being the run list that the attribute has        *)
LEMMA LimitIs == \A slack : R!Limit(slack) = Top(attr, slack)
BY DEF R!Limit, Top

(* How much has been read *)
LEMMA FilledIs == R!Filled = Got(attr, job)
BY LimitIs DEF R!Filled, Got, Want

(* What the loop of a read sees of its run *)
LEMMA RunHere ==
  ASSUME NEW s, AttrIs(attr, s), ReadOk(attr, s, job, buf), ~R!ReadDone
  PROVE  /\ job.run \in 1 .. Len(s) /\ job.remain # 0
         /\ R!Run = attr.run[job.run]
         /\ R!Run.offset = s[job.run].offset /\ R!Run.len = s[job.run].len
         /\ R!Run.addr = s[job.run].addr
         /\ R!IsSparse(R!Run) <=> s[job.run].filler \/ s[job.run].addr = 0
         /\ R!IsSparse(R!Run) => attr.run[job.run].kind # "data"
         /\ R!BlockInRun = BlockOf(s, job) /\ R!LenInRun = Part(s, job)
         /\ ~R!Before => InSomeRun(attr, s, job)
         /\ R!Before => s[job.run].offset + s[job.run].len <= job.blk
<1>1. Len(attr.run) = Len(s) /\ Len(s) \in Nat
  BY StoredRuns
<1>2. job.run \in 1 .. Len(s) /\ job.remain # 0
  <2>1. job.remain # 0 /\ ~(job.run > Len(s)) /\ job.run \in 1 .. Len(s) + 1
    BY <1>1 DEF R!ReadDone, ReadOk
  <2> QED
    BY <1>1, <2>1
<1>3. /\ R!Run.offset = s[job.run].offset /\ R!Run.len = s[job.run].len
      /\ R!Run.addr = s[job.run].addr
      /\ R!IsSparse(R!Run) <=> s[job.run].filler \/ s[job.run].addr = 0
      /\ R!IsSparse(R!Run) => attr.run[job.run].kind # "data"
      /\ s[job.run].offset \in Nat /\ s[job.run].len \in Nat
  BY <1>2, StoredRuns DEF R!Run
<1>4. R!BlockInRun = BlockOf(s, job)
  BY <1>3 DEF R!BlockInRun, BlockOf
<1>5. R!LenInRun = Part(s, job)
  BY <1>3, <1>4 DEF R!LenInRun, Part
<1>6. job.blk \in Nat
  BY ReadIs
<1>7. /\ ~R!Before => job.blk < s[job.run].offset + s[job.run].len
      /\ R!Before => s[job.run].offset + s[job.run].len <= job.blk
  BY <1>3, <1>6 DEF R!Before
<1>8. job.run <= Len(s)
  BY <1>1, <1>2
<1> QED
  BY <1>2, <1>3, <1>4, <1>5, <1>7, <1>8 DEF R!Run, InSomeRun

(* A run that ends before the read starts is skipped. *)
LEMMA SkipRunKeeps ==
  ASSUME NEW s, AttrIs(attr, s), ReadOk(attr, s, job, buf), R!SkipRun
  PROVE  ReadOk(attr, s, job', buf)
<1> DEFINE i == [job EXCEPT !.run = @ + 1]
           e == s[job.run].offset + s[job.run].len
<1>1. ~R!ReadDone /\ R!Before /\ job' = i
  BY DEF R!SkipRun
<1>2. job.run \in 1 .. Len(s) /\ job.remain # 0 /\ e <= job.blk
  BY <1>1, RunHere
<1>3. /\ job \in Job /\ job.off \in Nat /\ job.blk \in Nat /\ job.run \in Nat
  BY ReadIs DEF ReadOk
<1>4. /\ i.off = job.off /\ i.len = job.len /\ i.slack = job.slack /\ i.blk = job.blk
      /\ i.run = job.run + 1 /\ i.byte = job.byte /\ i.remain = job.remain
      /\ i \in Job
  BY <1>3 DEF Job
<1>5. Want(attr, i) = Want(attr, job) /\ Got(attr, i) = Got(attr, job)
  BY <1>4 DEF Want, Got
<1>6. Follows(0, s) /\ Len(s) \in Nat
  BY <1>3, StoredRuns DEF AttrIs, ListIs
<1>7. EndBefore(s, job.run + 1) = e /\ EndBefore(s, job.run) = s[job.run].offset
  <2>1. job.run \in 1 .. Len(s) + 1 /\ job.run <= Len(s)
    BY <1>2, <1>6
  <2> QED
    BY <1>6, <2>1, EndBeforeIs
<1>8. s[job.run].offset \in Nat /\ s[job.run].len \in Nat
  BY <1>2, StoredRuns
<1>9. ReadAt(attr, s, i)
  <2>1. ~(job.blk < s[job.run].offset)
    BY <1>2, <1>3, <1>8
  <2>2. Got(attr, job) = 0 /\ job.byte = job.off % BlockSize
    BY <1>2, <1>7, <2>1 DEF ReadAt, ReadOk
  <2> QED
    BY <1>2, <1>4, <1>5, <1>7, <2>2 DEF ReadAt
<1>10. job.run + 1 \in 1 .. Len(s) + 1
  BY <1>2, <1>6
<1>11. Shows(attr, s, i, buf, Got(attr, i))
  BY <1>4, <1>5 DEF Shows, ReadOk
<1>12. ReadOk(attr, s, i, buf)
  <2> HIDE DEF i
  <2>1. StraightOf(attr, job)
    BY DEF ReadOk
  <2>2. StraightOf(attr, i)
    BY <1>4, <2>1 DEF StraightOf
  <2> QED
    BY <1>4, <1>5, <1>9, <1>10, <1>11, <2>2 DEF ReadOk
<1> QED
  BY <1>1, <1>12

(* Straight is what the run of the first byte says. *)
LEMMA StraightIs == Straight <=> StraightOf(attr, job)
BY LimitIs DEF Straight, StraightOf, ZerosFrom, DataWithin, RangeEnd

(* A read that is in the middle of a block ends in zeros, or reads data    *)
(* that does not cross initsize.                                           *)
LEMMA MiddleIs ==
  ASSUME NEW s, AttrIs(attr, s), ReadOk(attr, s, job, buf), ~R!ReadDone, ~R!Before,
         job.byte # 0
  PROVE  /\ R!IsSparse(R!Run) \/ R!PastInit => Part(s, job) = job.remain
         /\ ~(R!IsSparse(R!Run) \/ R!PastInit) =>
              job.slack \/ (job.off + Got(attr, job)) + Part(s, job) <= attr.initsize
<1> DEFINE o == s[job.run].offset
           l == s[job.run].len
           b == BlockOf(s, job)
           pos == job.off + Got(attr, job)
           n == Part(s, job)
           top == Top(attr, job.slack)
           end == R!Least(job.off + job.len, top)
           stop == (o + l) * BlockSize
           zeros == R!IsSparse(R!Run) \/ (job.off >= attr.initsize /\ ~job.slack)
<1>1. /\ job.run \in 1 .. Len(s) /\ InSomeRun(attr, s, job) /\ job.remain # 0
      /\ R!Run = attr.run[job.run] /\ R!Run.offset = o /\ R!Run.len = l
      /\ R!BlockInRun = b
  BY RunHere
<1>2. InRun(attr, s, job, pos, n, o, l, b)
  BY <1>1, RunIs
<1>3. job.run \in DOMAIN attr.run
  <2>1. attr.run = [i \in DOMAIN s |-> Stored(s[i])] /\ Follows(0, s)
    BY DEF AttrIs, ListIs
  <2>2. DOMAIN s = 1 .. Len(s)
    BY <2>1, FollowsRuns
  <2> QED
    BY <1>1, <2>1, <2>2
<1>4. Got(attr, job) = 0 /\ job.byte = job.off % BlockSize
  BY <1>1 DEF ReadOk, ReadAt
<1>5. /\ job.off \in Nat /\ job.len \in Nat /\ job.remain \in Nat
      /\ Want(attr, job) \in Nat /\ job.remain = Want(attr, job)
      /\ top \in Nat /\ attr.initsize \in Nat
  BY <1>4, ReadIs, SizesAre
<1>6. pos = job.off
  BY <1>4, <1>5
<1>7. /\ n \in Nat /\ n > 0 /\ n <= job.remain
      /\ (o + b) * BlockSize + job.byte = pos
      /\ o * BlockSize <= pos /\ pos + n <= stop
      /\ n = job.remain \/ pos + n = stop
      /\ pos + n <= top
      /\ stop \in Nat
  <2>1. o \in Nat /\ l \in Nat /\ BlockSize \in Nat
    BY <1>1, StoredRuns, SizeAssumption
  <2>2. stop \in Nat
    BY <2>1
  <2> HIDE DEF o, l, b, pos, n, top
  <2> QED
    BY <1>2, <2>2 DEF InRun, top
<1>8. R!PosInFile = (o + b) * BlockSize
  BY <1>1 DEF R!PosInFile
<1>9. R!IsSparse(R!Run) \/ R!PastInit <=> zeros
  <2>1. R!PosInFile + job.byte = job.off
    BY <1>6, <1>7, <1>8
  <2> QED
    BY <2>1 DEF R!PastInit
<1>10. o * BlockSize <= job.off /\ job.off < stop
         => IF zeros THEN end <= stop ELSE job.slack \/ R!Least(end, stop) <= attr.initsize
  <2>1. StraightOf(attr, job)
    BY DEF ReadOk
  <2>2. ~(job.off % BlockSize = 0)
    BY <1>4
  <2> HIDE DEF o, l
  <2> QED
    BY <1>1, <1>3, <2>1, <2>2 DEF StraightOf
<1>11. end = job.off + job.remain
  <2>1. Want(attr, job) = R!Least(job.len, top - job.off)
    BY DEF Want
  <2> HIDE DEF top
  <2> QED
    BY <1>5, <2>1 DEF R!Least
<1> DEFINE off == job.off
           rem == job.remain
           init == attr.initsize
<1>12. /\ off \in Nat /\ rem \in Nat /\ n \in Nat /\ n > 0 /\ n <= rem /\ stop \in Nat
       /\ pos = off /\ pos + n <= stop /\ end = off + rem /\ init \in Nat
       /\ n = rem \/ pos + n = stop
  BY <1>5, <1>6, <1>7, <1>11
<1>13. IF zeros THEN end <= stop ELSE job.slack \/ R!Least(end, stop) <= init
  <2>1. o * BlockSize <= job.off
    BY <1>6, <1>7
  <2>2. off < stop
    <3> HIDE DEF off, rem, init, n, pos, end, stop
    <3> QED
      BY <1>12
  <2> HIDE DEF zeros, end, stop
  <2> QED
    BY <1>10, <2>1, <2>2
<1>14. zeros => n = rem
  <2> HIDE DEF zeros, off, rem, init, n, pos, end, stop
  <2> QED
    BY <1>12, <1>13
<1>15. ~zeros => job.slack \/ pos + n <= init
  <2> HIDE DEF zeros, off, rem, init, n, pos, end, stop
  <2> QED
    BY <1>12, <1>13 DEF R!Least
<1> HIDE DEF zeros, n, pos
<1> QED
  BY <1>9, <1>14, <1>15 DEF n, pos

(* Zeros are read where the file has zeros. *)
LEMMA ZeroRunKeeps ==
  ASSUME NEW s, AttrIs(attr, s), ReadOk(attr, s, job, buf), R!ZeroRun
  PROVE  ReadOk(attr, s, job', buf')
<1> DEFINE n == Part(s, job)
           g == R!Zeros(n)
           pos == job.off + Got(attr, job)
           o == s[job.run].offset
           b == BlockOf(s, job)
<1>1. /\ ~R!ReadDone /\ ~R!Before
      /\ R!IsSparse(R!Run) \/ R!PastInit
      /\ buf' = R!Put(R!Filled, R!Zeros(R!LenInRun))
      /\ job' = [job EXCEPT !.run = @ + 1, !.remain = @ - R!LenInRun]
  BY DEF R!ZeroRun
<1>2. /\ InSomeRun(attr, s, job) /\ R!LenInRun = n /\ R!BlockInRun = b
      /\ R!Run.offset = o
      /\ R!IsSparse(R!Run) <=> s[job.run].filler \/ s[job.run].addr = 0
  BY <1>1, RunHere
<1>3. job.byte = 0 \/ n = job.remain
  BY <1>1, MiddleIs
<1>4. buf' = PutIn(buf, Got(attr, job), g)
  BY <1>1, <1>2, PutIs, FilledIs
<1>5. job' = Behind(s, job, job.byte)
  <2>1. job' = [job EXCEPT !.run = @ + 1, !.remain = @ - n]
    BY <1>1, <1>2
  <2>2. job \in Job
    BY DEF ReadOk
  <2> HIDE DEF n
  <2>3. [job EXCEPT !.run = @ + 1, !.remain = @ - n]
          = [job EXCEPT !.run = @ + 1, !.byte = job.byte, !.remain = @ - n]
    BY <2>2 DEF Job
  <2> QED
    BY <2>1, <2>3 DEF Behind, n
<1>6. R!PosInFile + job.byte = pos /\ n \in Nat /\ pos \in Nat
  <2>1. R!PosInFile = (o + b) * BlockSize
    BY <1>2 DEF R!PosInFile
  <2>2. InRun(attr, s, job, pos, n, o, s[job.run].len, b)
    BY <1>2, RunIs
  <2> HIDE DEF pos, n, o, b
  <2>3. (o + b) * BlockSize + job.byte = pos /\ pos \in Nat /\ n \in Nat /\ o \in Nat /\ b \in Nat
    BY <2>2 DEF InRun
  <2> QED
    BY <2>1, <2>3
<1>7. DOMAIN g = 1 .. n
  BY DEF R!Zeros
<1>8. ASSUME NEW k \in 1 .. n
      PROVE  /\ attr.skiplen = 0 => g[k] = ByteOf(BlockMap(s), attr, job.slack, pos + (k - 1))
             /\ g[k] # R!Junk
  <2>1. g[k] = R!Zero /\ R!Zero # R!Junk
    BY DEF R!Zeros, R!Zero, R!Junk
  <2>2. \/ s[job.run].filler \/ s[job.run].addr = 0
        \/ pos + (k - 1) >= attr.initsize /\ ~job.slack
    <3>1. R!PastInit => pos >= attr.initsize /\ ~job.slack
      <4> HIDE DEF pos
      <4> QED
        BY <1>6 DEF R!PastInit
    <3>2. pos >= attr.initsize => pos + (k - 1) >= attr.initsize
      <4>1. attr.initsize \in Nat
        BY ReadIs, SizesAre
      <4> HIDE DEF pos, n
      <4> QED
        BY <1>6, <4>1
    <3> QED
      BY <1>1, <1>2, <3>1, <3>2
  <2> QED
    BY <1>2, <2>1, <2>2, PartBytes
<1> HIDE DEF g
<1>9. ReadOk(attr, s, Behind(s, job, job.byte), PutIn(buf, Got(attr, job), g))
  <2>1. job.byte \in Nat /\ job.byte < BlockSize
    BY ReadIs DEF ReadOk
  <2> QED
    BY <1>2, <1>3, <1>7, <1>8, <2>1, ReadGoesOn
<1> QED
  BY <1>4, <1>5, <1>9

(* Data is read, and wiped from initsize on, where the file has data.      *)
LEMMA DataRunKeeps ==
  ASSUME NEW s, AttrIs(attr, s), ReadOk(attr, s, job, buf), R!DataRun, pc' = "read"
  PROVE  ReadOk(attr, s, job', buf')
<1> DEFINE n == Part(s, job)
           o == s[job.run].offset
           b == BlockOf(s, job)
           addr == s[job.run].addr
           from == (addr + b) * BlockSize + job.byte
           here == R!PosInFile
           wipe == here + n > attr.initsize /\ ~job.slack
           plain == R!Bytes(from, n)
           g == R!Wiped(plain)
           pos == job.off + Got(attr, job)
<1>1. /\ ~R!ReadDone /\ ~R!Before /\ ~R!IsSparse(R!Run) /\ ~R!PastInit
      /\ buf' = R!Put(R!Filled, R!Wiped(R!Bytes((R!Run.addr + R!BlockInRun) * BlockSize + job.byte,
                                                R!LenInRun)))
      /\ job' = [job EXCEPT !.run = @ + 1, !.byte = 0, !.remain = @ - R!LenInRun]
  BY DEF R!DataRun
<1>2. /\ InSomeRun(attr, s, job) /\ R!LenInRun = n /\ R!BlockInRun = b
      /\ R!Run.offset = o /\ R!Run.addr = addr
      /\ ~(s[job.run].filler \/ s[job.run].addr = 0)
      /\ job.run \in 1 .. Len(s)
  BY <1>1, RunHere
<1>3. buf' = PutIn(buf, Got(attr, job), g)
  BY <1>1, <1>2, PutIs, FilledIs
<1>4. job' = Behind(s, job, 0)
  BY <1>1, <1>2 DEF Behind
<1>5. /\ here = (o + b) * BlockSize /\ here \in Nat
      /\ here + job.byte = pos /\ pos \in Nat /\ n \in Nat
      /\ pos + n <= Top(attr, job.slack)
  <2>1. here = (o + b) * BlockSize
    BY <1>2 DEF R!PosInFile
  <2>2. InRun(attr, s, job, pos, n, o, s[job.run].len, b)
    BY <1>2, RunIs
  <2> HIDE DEF pos, n, o, b, here
  <2>3. (o + b) * BlockSize + job.byte = pos /\ pos \in Nat /\ n \in Nat /\ o \in Nat /\ b \in Nat
        /\ pos + n <= Top(attr, job.slack)
    BY <2>2 DEF InRun
  <2>4. (o + b) * BlockSize \in Nat
    BY <2>3, SizeAssumption
  <2> QED
    BY <2>1, <2>3, <2>4
<1>6. /\ job.byte \in Nat /\ job.slack \in BOOLEAN
      /\ attr.initsize \in Nat /\ attr.size \in Nat
      /\ ~job.slack => Top(attr, job.slack) = attr.size
      /\ job.byte = 0 \/ job.slack \/ pos + n <= attr.initsize
  <2>1. job.byte = 0 \/ job.slack \/ pos + n <= attr.initsize
    <3> HIDE DEF pos, n
    <3> QED
      BY <1>1, MiddleIs DEF pos, n
  <2> QED
    BY <2>1, ReadIs, SizesAre
<1>7. DOMAIN plain = 1 .. n /\ \A k \in 1 .. n : plain[k] = from + k - 1
  BY DEF R!Bytes
<1>8. DOMAIN g = 1 .. n
      /\ \A k \in 1 .. n : g[k] = IF wipe /\ k > attr.initsize - here THEN R!Zero ELSE plain[k]
  <2>1. g = IF wipe
            THEN [k \in DOMAIN plain |-> IF k > attr.initsize - here THEN R!Zero ELSE plain[k]]
            ELSE plain
    BY <1>2 DEF R!Wiped
  <2> HIDE DEF wipe, plain, g, here
  <2> QED
    BY <1>7, <2>1
<1>9. ASSUME NEW k \in 1 .. n
      PROVE  /\ attr.skiplen = 0 => g[k] = ByteOf(BlockMap(s), attr, job.slack, pos + (k - 1))
             /\ g[k] # R!Junk
  <2> DEFINE past == pos + (k - 1) >= attr.initsize /\ ~job.slack
  <2>1. attr.skiplen = 0 => ByteOf(BlockMap(s), attr, job.slack, pos + (k - 1)) =
                              IF past THEN R!Zero ELSE from + (k - 1)
    BY <1>2, PartBytes
  <2>2. wipe /\ k > attr.initsize - here <=> past
    <3>1. k \in 1 .. n
      OBVIOUS
    <3> HIDE DEF here, pos, n
    <3>2. CASE job.byte = 0
      <4>1. here = pos
        BY <1>5, <3>2
      <4> QED
        BY <1>5, <1>6, <3>1, <4>1
    <3>3. CASE job.byte # 0
      <4>1. ASSUME ~job.slack PROVE pos + n <= attr.initsize
        BY <1>5, <1>6, <3>3, <4>1
      <4>2. here <= pos
        BY <1>5, <1>6
      <4>3. ~job.slack => ~(here + n > attr.initsize) /\ ~(pos + (k - 1) >= attr.initsize)
        BY <1>5, <1>6, <3>1, <4>1, <4>2
      <4> QED
        BY <4>3
    <3> QED
      BY <3>2, <3>3
  <2>3. from + k - 1 = from + (k - 1) /\ from \in Nat
    <3>1. from \in Nat
      <4>1. addr \in Nat /\ b \in Nat /\ BlockSize \in Nat
        <5>1. InRun(attr, s, job, pos, n, o, s[job.run].len, b)
          BY <1>2, RunIs
        <5>2. b \in Nat
          BY <5>1 DEF InRun
        <5> HIDE DEF b
        <5> QED
          BY <1>2, <5>2, StoredRuns, SizeAssumption
      <4>2. (addr + b) * BlockSize \in Nat
        <5> HIDE DEF addr, b
        <5> QED
          BY <4>1
      <4> HIDE DEF addr, b
      <4> QED
        BY <4>2, <1>6
    <3>2. k \in Int
      BY <1>5
    <3> HIDE DEF from
    <3> QED
      BY <3>1, <3>2
  <2>4. g[k] = IF past THEN R!Zero ELSE from + k - 1
    <3> HIDE DEF wipe, past, plain, g, here, from, n
    <3> QED
      BY <1>7, <1>8, <2>2
  <2>5. g[k] # R!Junk
    <3> DEFINE v == g[k]
    <3>1. v = -1 \/ v = from + k - 1
      BY <2>4 DEF R!Zero
    <3>2. k >= 1 /\ k \in Int
      BY <1>5
    <3> HIDE DEF v, from
    <3>3. v # -2
      BY <2>3, <3>1, <3>2
    <3> QED
      BY <3>3 DEF v, R!Junk
  <2> HIDE DEF g, past, from
  <2> QED
    BY <2>1, <2>3, <2>4, <2>5
<1> HIDE DEF g
<1>10. ReadOk(attr, s, Behind(s, job, 0), PutIn(buf, Got(attr, job), g))
  <2>1. 0 \in Nat /\ 0 < BlockSize
    BY SizeAssumption
  <2> QED
    BY <1>2, <1>8, <1>9, <2>1, ReadGoesOn
<1> QED
  BY <1>3, <1>4, <1>10

(* Runs cover all that is to be read. *)
LEMMA ReadAll ==
  ASSUME NEW s, AttrIs(attr, s), ReadOk(attr, s, job, buf), R!ReadDone
  PROVE  job.remain = 0
<1> SUFFICES ASSUME job.remain # 0 PROVE FALSE
  OBVIOUS
<1> DEFINE q == Got(attr, job)
           w == Want(attr, job)
           top == Top(attr, job.slack)
           e == EndBefore(s, job.run)
           c == BlockSize
<1>1. Len(attr.run) = Len(s) /\ Len(s) \in Nat
  BY StoredRuns
<1>2. job.run = Len(s) + 1
  <2>1. job.run > Len(s) /\ job.run \in 1 .. Len(s) + 1
    BY <1>1 DEF R!ReadDone, ReadOk
  <2> QED
    BY <1>1, <2>1
<1>3. /\ job.off \in Nat /\ job.blk \in Nat /\ job.byte \in Nat /\ job.remain \in Nat
      /\ q \in Nat /\ w \in Nat /\ q + job.remain = w /\ job.off + w <= top
      /\ top \in Nat /\ top <= attr.allocsize /\ attr.allocsize \in Nat
      /\ c \in Nat /\ c > 0
      /\ attr.allocsize + attr.skiplen = Upto(0, s) * c /\ Follows(0, s)
  <2>1. job.slack \in BOOLEAN
    BY ReadIs
  <2> QED
    BY <2>1, ReadIs, SizesAre
<1>4. attr.skiplen \in Nat /\ ReadAt(attr, s, job) /\ job.blk = job.off \div c
  BY ReadIs, SizesAre DEF ReadOk
<1>5. e = Upto(0, s) /\ e \in Nat
  <2>1. job.run \in 1 .. Len(s) + 1
    BY <1>1, <1>2
  <2> QED
    BY <1>2, <1>3, <2>1, EndBeforeIs
<1>6. attr.allocsize <= e * c
  <2> DEFINE y == e * c
  <2>1. y \in Int /\ attr.allocsize + attr.skiplen = y
    BY <1>3, <1>4, <1>5
  <2> HIDE DEF y
  <2>2. attr.allocsize <= y
    BY <1>3, <1>4, <2>1
  <2> QED
    BY <2>2 DEF y
<1>7. CASE job.off + q = e * c
  <2> DEFINE y == e * c
  <2>1. job.off + q = y /\ attr.allocsize <= y /\ y \in Int
    BY <1>3, <1>5, <1>6, <1>7
  <2> HIDE DEF q, w, top, y
  <2> QED
    BY <1>3, <2>1
<1>8. CASE q = 0 /\ e <= job.blk
  <2> DEFINE x == job.blk * c
             y == e * c
  <2>1. y <= x
    BY <1>3, <1>5, <1>8, TimesMono
  <2>2. job.off = x + (job.off % c) /\ job.off % c \in Nat
    BY <1>3, <1>4, DivMod
  <2>3. x \in Int /\ y \in Int
    BY <1>3, <1>5
  <2>4. attr.allocsize <= y
    BY <1>6
  <2> HIDE DEF x, y, q, w, top
  <2> QED
    BY <1>3, <1>8, <2>1, <2>2, <2>3, <2>4
<1> QED
  BY <1>4, <1>7, <1>8 DEF ReadAt

(* What a read returns *)
LEMMA FinishIs ==
  ASSUME NEW s, AttrIs(attr, s), ReadOk(attr, s, job, buf), R!FinishRead
  PROVE  /\ returned' = Want(attr, job)
         /\ Want(attr, job) \in Nat
         /\ Shows(attr, s, job, buf, returned')
         /\ \A k \in 1 .. Len(buf) : buf[k] # R!Junk
<1>1. R!ReadDone /\ returned' = R!Filled
  BY DEF R!FinishRead, R!Return
<1>2. job.remain = 0
  BY <1>1, ReadAll
<1>3. /\ Want(attr, job) \in Nat /\ Want(attr, job) <= job.len /\ job.len \in Nat
      /\ Got(attr, job) \in Nat /\ Got(attr, job) + job.remain = Want(attr, job)
  BY ReadIs
<1>4. Got(attr, job) = Want(attr, job)
  BY <1>2, <1>3
<1>5. returned' = Want(attr, job)
  BY <1>1, <1>4, FilledIs
<1>6. Shows(attr, s, job, buf, Want(attr, job))
  BY <1>4 DEF ReadOk
<1>7. ASSUME NEW k \in 1 .. Len(buf) PROVE buf[k] # R!Junk
  <2>1. Len(buf) = job.len
    BY DEF ReadOk
  <2>2. CASE k <= Want(attr, job)
    <3>1. k \in 1 .. Want(attr, job)
      BY <1>3, <2>1, <2>2
    <3> QED
      BY <3>1, <1>6 DEF Shows
  <2>3. CASE k > Want(attr, job)
    <3>1. k \in Want(attr, job) + 1 .. job.len
      BY <1>3, <2>1, <2>3
    <3>2. buf[k] = R!Zero
      BY <3>1 DEF ReadOk
    <3> QED
      BY <3>2 DEF R!Zero, R!Junk
  <2> QED
    BY <1>3, <2>1, <2>2, <2>3
<1> QED
  BY <1>3, <1>5, <1>6, <1>7

(* Skipped of any attribute *)
SkippedOf(a) == a.skiplen % BlockSize = 0 \/ a.initsize >= BlockSize

(* What has been shown in f is the file. *)
Exact(a, s, j, f) ==
  \A k \in 1 .. Len(f) : f[k] # R!Junk => f[k] = ByteOf(BlockMap(s), a, j.slack, k - 1)

-----------------------------------------------------------------------------
(* A walk has come to block j.blk of run j.run; all blocks before are done. *)
WalkOk(a, s, j, f) ==
  /\ j \in Job /\ j.len = 0
  /\ j.off <= Top(a, j.slack)
  /\ j.run \in 1 .. Len(s) + 1
  /\ j.run <= Len(s) => j.blk < s[j.run].len
  /\ j.off + a.skiplen = (EndBefore(s, j.run) + j.blk) * BlockSize + j.skip
  /\ j.off = 0 \/ j.skip = 0
  /\ Len(f) = Top(a, j.slack)
  /\ SkippedOf(a) => Exact(a, s, j, f)
  /\ ~j.nosparse => \A k \in 1 .. j.off : f[k] # R!Junk

(* A byte of the block that a walk has come to *)
LEMMA WalkByte ==
  ASSUME NEW a, NEW s, AttrIs(a, s), NEW j, NEW f, WalkOk(a, s, j, f), j.run \in 1 .. Len(s),
         NEW i \in Nat, i > 0, j.skip + i <= BlockSize
  PROVE  ByteOf(BlockMap(s), a, j.slack, j.off + (i - 1)) =
           IF \/ s[j.run].filler \/ s[j.run].addr = 0
              \/ j.off + (i - 1) >= a.initsize /\ ~j.slack
           THEN R!Zero
           ELSE (s[j.run].addr + j.blk) * BlockSize + ((j.skip + i) - 1)
<1> DEFINE h == j.run
           o == s[h].offset
           l == s[h].len
           p == j.off + (i - 1)
           c == BlockSize
           addr == s[h].addr
           blk == j.blk
           t == (j.skip + i) - 1
<1>1. /\ j.off \in Nat /\ blk \in Nat /\ j.skip \in Nat /\ h \in Nat /\ j.slack \in BOOLEAN
      /\ j.off + a.skiplen = (EndBefore(s, h) + blk) * c + j.skip
  BY DEF WalkOk, Job
<1>2. /\ a.skiplen \in Nat /\ c \in Nat /\ c > 0 /\ Follows(0, s) /\ Len(s) \in Nat
  BY <1>1, SizesAre
<1>3. o \in Nat /\ l \in Nat /\ addr \in Nat
  BY StoredRuns
<1>4. blk < l
  BY <1>2 DEF WalkOk
<1>5. EndBefore(s, h) = o
  <2>1. h \in 1 .. Len(s) + 1 /\ h <= Len(s)
    BY <1>2
  <2> QED
    BY <1>2, <2>1, EndBeforeIs
<1>6. p \in Nat /\ t \in Nat /\ t < c
  <2> HIDE DEF c
  <2>1. j.skip + i <= c
    BY DEF c
  <2> QED
    BY <1>1, <1>2, <2>1
<1>7. p + a.skiplen = (o + blk) * c + t
  <2> DEFINE x == (o + blk) * c
  <2>1. x \in Int /\ j.off + a.skiplen = x + j.skip
    BY <1>1, <1>2, <1>3, <1>5, SMTT(20)
  <2> DEFINE u == j.off
             v == a.skiplen
             w == j.skip
  <2>3. /\ x \in Int /\ u \in Int /\ v \in Int /\ w \in Int
        /\ u + v = x + w /\ p = u + (i - 1) /\ t = (w + i) - 1
    BY <1>1, <1>2, <2>1
  <2> HIDE DEF x, u, v, w, p, t
  <2>2. p + v = x + t
    BY <2>3
  <2> QED
    BY <2>2 DEF x, v
<1>8. o * c <= p + a.skiplen /\ p + a.skiplen < (o + l) * c
  <2>1. o * c <= (o + blk) * c /\ ((o + blk) + 1) * c <= (o + l) * c
    <3> HIDE DEF o, l, blk, c
    <3>1. o <= o + blk /\ (o + blk) + 1 <= o + l /\ o \in Int /\ o + blk \in Int
          /\ (o + blk) + 1 \in Int /\ o + l \in Int
      BY <1>1, <1>3, <1>4
    <3> QED
      BY <1>2, <3>1, TimesMono
  <2>2. ((o + blk) + 1) * c = (o + blk) * c + c
    <3> HIDE DEF o, l, blk, c
    <3> QED
      BY <1>1, <1>2, <1>3
  <2> DEFINE x == o * c
             y == (o + blk) * c
             z == (o + l) * c
             u == p + a.skiplen
  <2>3. x \in Int /\ y \in Int /\ z \in Int
    <3> HIDE DEF o, l, blk, c
    <3> QED
      BY <1>1, <1>2, <1>3
  <2>4. x <= y /\ y + c <= z /\ u = y + t
    BY <2>1, <2>2, <1>7
  <2> HIDE DEF x, y, z, u, t, c
  <2>5. x <= u /\ u < z
    BY <2>3, <2>4, <1>2, <1>6
  <2> QED
    BY <2>5 DEF x, z, u
<1>9. ByteOf(BlockMap(s), a, j.slack, p) =
        IF s[h].filler \/ addr = 0 \/ (p >= a.initsize /\ ~j.slack) THEN R!Zero
        ELSE addr * c + ((p + a.skiplen) - o * c)
  <2> HIDE DEF p, h
  <2> QED
    BY <1>6, <1>8, ByteIs DEF h
<1>10. addr * c + ((p + a.skiplen) - o * c) = (addr + blk) * c + t
  <2> DEFINE x == o * c
             y == blk * c
             z == addr * c
  <2>1. /\ x \in Int /\ y \in Int /\ z \in Int
        /\ (o + blk) * c = x + y /\ (addr + blk) * c = z + y
    <3> HIDE DEF o, l, blk, c, addr
    <3> QED
      BY <1>1, <1>2, <1>3
  <2> DEFINE u == p + a.skiplen
             v == (addr + blk) * c
  <2>2. u = (x + y) + t /\ v = z + y
    BY <2>1, <1>7
  <2> HIDE DEF x, y, z, u, t, v
  <2>3. z + (u - x) = v + t
    BY <1>6, <2>1, <2>2
  <2> QED
    BY <2>3 DEF z, u, x, v
<1> DEFINE there == (addr + blk) * c + t
           past == p >= a.initsize /\ ~j.slack
<1>11. ByteOf(BlockMap(s), a, j.slack, p) =
         IF s[h].filler \/ addr = 0 \/ past THEN R!Zero ELSE there
  <2> HIDE DEF p, addr, c, blk, t, h, o
  <2> QED
    BY <1>9, <1>10
<1> QED
  BY ONLY <1>11 DEF past, there, p, addr, c, blk, t, h

-----------------------------------------------------------------------------
(* The steps of a walk *)
LEMMA WalkHere ==
  ASSUME NEW s, AttrIs(attr, s), WalkOk(attr, s, job, buf), ~R!WalkDone
  PROVE  /\ job.run \in 1 .. Len(s) /\ Len(s) \in Nat
         /\ R!Run.offset = s[job.run].offset /\ R!Run.len = s[job.run].len
         /\ R!Run.addr = s[job.run].addr
         /\ s[job.run].len \in Nat /\ s[job.run].addr \in Nat
         /\ R!IsSparse(R!Run) <=> s[job.run].filler \/ s[job.run].addr = 0
         /\ job.blk < s[job.run].len
         /\ EndBefore(s, job.run) = s[job.run].offset
         /\ s[job.run].offset \in Nat
         /\ EndBefore(s, job.run + 1) = s[job.run].offset + s[job.run].len
<1>1. Len(attr.run) = Len(s) /\ Len(s) \in Nat
  BY StoredRuns
<1>2. job.run \in 1 .. Len(s) /\ job.run <= Len(s) /\ job.run \in 1 .. Len(s) + 1
  <2>1. ~(job.run > Len(s)) /\ job.run \in 1 .. Len(s) + 1
    BY <1>1 DEF R!WalkDone, WalkOk
  <2> QED
    BY <1>1, <2>1
<1>3. Follows(0, s)
  BY DEF AttrIs, ListIs
<1>4. /\ EndBefore(s, job.run) = s[job.run].offset
      /\ EndBefore(s, job.run + 1) = s[job.run].offset + s[job.run].len
  BY <1>2, <1>3, EndBeforeIs
<1>5. job.blk < s[job.run].len
  BY <1>2 DEF WalkOk
<1>6. /\ R!Run.offset = s[job.run].offset /\ R!Run.len = s[job.run].len
      /\ R!Run.addr = s[job.run].addr
      /\ R!IsSparse(R!Run) <=> s[job.run].filler \/ s[job.run].addr = 0
      /\ s[job.run].offset \in Nat /\ s[job.run].len \in Nat /\ s[job.run].addr \in Nat
  BY <1>2, StoredRuns DEF R!Run
<1> QED
  BY <1>1, <1>2, <1>4, <1>5, <1>6

(* What is known of a walk *)
LEMMA WalkIs ==
  ASSUME NEW a, NEW s, AttrIs(a, s), NEW j, NEW f, WalkOk(a, s, j, f)
  PROVE  /\ j.off \in Nat /\ j.skip \in Nat /\ j.blk \in Nat /\ j.run \in Nat
         /\ j.slack \in BOOLEAN /\ j.nosparse \in BOOLEAN /\ j.len = 0
         /\ Top(a, j.slack) \in Nat /\ j.off <= Top(a, j.slack)
         /\ a.skiplen \in Nat /\ a.initsize \in Nat /\ BlockSize \in Nat /\ BlockSize > 0
<1>1. /\ j.off \in Nat /\ j.skip \in Nat /\ j.blk \in Nat /\ j.run \in Nat
      /\ j.slack \in BOOLEAN /\ j.nosparse \in BOOLEAN /\ j.len = 0
      /\ j.off <= Top(a, j.slack)
  BY DEF WalkOk, Job
<1> QED
  BY <1>1, SizesAre

(* How much of its block a walk shows *)
LEMMA RetLenIs ==
  ASSUME NEW s, AttrIs(attr, s), WalkOk(attr, s, job, buf), job.skip < BlockSize,
         NEW n, n = R!RetLen, NEW top, top = Top(attr, job.slack)
  PROVE  /\ n \in Nat /\ job.skip + n <= BlockSize /\ job.off + n <= top
         /\ job.skip + n = BlockSize \/ job.off + n = top
<1>1. n = IF BlockSize - job.skip <= top - job.off THEN BlockSize - job.skip ELSE top - job.off
  BY LimitIs DEF R!RetLen, R!Least
<1>2. /\ job.off \in Nat /\ job.skip \in Nat /\ top \in Nat /\ job.off <= top
      /\ BlockSize \in Nat
  BY WalkIs
<1> QED
  BY <1>1, <1>2

(* The block that a walk has come to is that of the file from there on.    *)
LEMMA BlockBytes ==
  ASSUME NEW s, AttrIs(attr, s), WalkOk(attr, s, job, buf), ~R!WalkDone,
         NEW i \in Nat, i > 0, job.skip + i <= BlockSize
  PROVE  /\ SkippedOf(attr) =>
              R!Block[job.skip + i] = ByteOf(BlockMap(s), attr, job.slack, job.off + (i - 1))
         /\ R!Block[job.skip + i] # R!Junk
<1> DEFINE c == BlockSize
           t == job.skip + i
           addr == s[job.run].addr
           sparse == s[job.run].filler \/ s[job.run].addr = 0
           past == job.off >= attr.initsize /\ ~job.slack
           pastHere == job.off + (i - 1) >= attr.initsize /\ ~job.slack
           cut == t > attr.initsize - job.off /\ ~job.slack
           from == (addr + job.blk) * c
           val == ByteOf(BlockMap(s), attr, job.slack, job.off + (i - 1))
<1>1. /\ job.off \in Nat /\ job.skip \in Nat /\ job.blk \in Nat
      /\ attr.skiplen \in Nat /\ attr.initsize \in Nat /\ c \in Nat /\ c > 0
      /\ job.run \in Nat
  BY WalkIs
<1>2. /\ job.run \in 1 .. Len(s) /\ R!Run.addr = addr
      /\ R!IsSparse(R!Run) <=> sparse
      /\ addr \in Nat /\ s[job.run].offset \in Nat
      /\ EndBefore(s, job.run) = s[job.run].offset
  BY WalkHere
<1>3. t \in 1 .. c /\ t \in Nat
  BY <1>1
<1>4. from \in Nat
  <2> HIDE DEF addr
  <2> QED
    BY <1>1, <1>2
<1>5. val = IF sparse \/ pastHere THEN R!Zero ELSE from + (t - 1)
  <2>1. val = IF sparse \/ pastHere THEN R!Zero ELSE from + ((job.skip + i) - 1)
    BY <1>2, WalkByte
  <2> QED
    BY <2>1
<1>6. R!Block[t] = IF sparse \/ past \/ cut THEN R!Zero ELSE from + (t - 1)
  <2>1. CASE sparse \/ past
    <3>1. R!Block = R!Zeros(c)
      BY <1>2, <2>1 DEF R!Block
    <3>2. R!Block[t] = R!Zero
      <4> HIDE DEF t
      <4> QED
        BY <1>3, <3>1 DEF R!Zeros
    <3> QED
      BY <2>1, <3>2
  <2>2. CASE ~(sparse \/ past)
    <3>1. R!Block = [k \in 1 .. c |-> IF k > attr.initsize - job.off /\ ~job.slack THEN R!Zero
                                      ELSE (addr + job.blk) * c + k - 1]
      BY <1>2, <2>2 DEF R!Block
    <3>2. R!Block[t] = IF cut THEN R!Zero ELSE from + t - 1
      <4> HIDE DEF t
      <4> QED
        BY <1>3, <3>1
    <3>3. from + t - 1 = from + (t - 1)
      <4> HIDE DEF from, t
      <4> QED
        BY <1>3, <1>4
    <3> QED
      BY <2>2, <3>2, <3>3
  <2> QED
    BY <2>1, <2>2
<1>7. ASSUME SkippedOf(attr) PROVE pastHere <=> past \/ cut
  <2>1. CASE job.skip = 0
    <3>1. t = i
      BY <1>1, <2>1
    <3> HIDE DEF t
    <3> QED
      BY <1>1, <3>1
  <2>2. CASE job.skip # 0
    <3>1. job.off = 0
      BY <2>2 DEF WalkOk
    <3> DEFINE bp == s[job.run].offset + job.blk
    <3>2. attr.skiplen = bp * c + job.skip /\ bp \in Nat
      <4>1. job.off + attr.skiplen = bp * c + job.skip
        BY <1>2 DEF WalkOk
      <4> QED
        BY <1>1, <1>2, <3>1, <4>1, SMTT(20)
    <3>3. attr.skiplen % c = job.skip
      <4>1. job.skip < c
        BY <1>1, <1>3
      <4> HIDE DEF bp, c
      <4>2. (bp * c + job.skip) % c = job.skip
        BY <1>1, <3>2, <4>1, DivIs
      <4> QED
        BY <3>2, <4>2
    <3>4. attr.initsize >= c
      BY <1>7, <2>2, <3>3 DEF SkippedOf
    <3> HIDE DEF c
    <3>5. ~past /\ ~cut /\ ~pastHere
      BY <1>1, <1>3, <2>2, <3>1, <3>4
    <3> QED
      BY <3>5
  <2> QED
    BY <2>1, <2>2
<1>8. SkippedOf(attr) => R!Block[t] = val
  <2> HIDE DEF val, sparse, past, cut, pastHere, from, t
  <2> QED
    BY <1>5, <1>6, <1>7
<1>9. R!Block[t] # R!Junk
  <2> DEFINE v == R!Block[t]
  <2>1. v = -1 \/ v = from + (t - 1)
    BY <1>6 DEF R!Zero
  <2> HIDE DEF v, from, t
  <2>2. v # -2
    BY <1>3, <1>4, <2>1
  <2> QED
    BY <2>2 DEF v, R!Junk
<1> QED
  BY <1>8, <1>9

(* What the callback is given is that part of the file. *)
LEMMA ShownBytes ==
  ASSUME NEW s, AttrIs(attr, s), WalkOk(attr, s, job, buf), ~R!WalkDone, job.skip < BlockSize,
         NEW g, g = SubSeq(R!Block, job.skip + 1, job.skip + R!RetLen)
  PROVE  /\ DOMAIN g = 1 .. R!RetLen
         /\ \A i \in 1 .. R!RetLen :
              /\ SkippedOf(attr) => g[i] = ByteOf(BlockMap(s), attr, job.slack, job.off + (i - 1))
              /\ g[i] # R!Junk
<1> DEFINE n == R!RetLen
           A == {R!Block[k] : k \in 1 .. BlockSize}
<1>1. n \in Nat /\ job.skip + n <= BlockSize /\ job.skip \in Nat /\ BlockSize \in Nat
  BY RetLenIs, WalkIs
<1> HIDE DEF n
<1>2. \A k \in job.skip + 1 .. job.skip + n : R!Block[k] \in A
  <2> TAKE k \in job.skip + 1 .. job.skip + n
  <2>1. k \in 1 .. BlockSize
    BY <1>1
  <2> QED
    BY <2>1
<1>3. /\ g \in Seq(A)
      /\ Len(g) = IF job.skip + 1 <= job.skip + n THEN (job.skip + n) - (job.skip + 1) + 1 ELSE 0
      /\ \A i \in 1 .. (job.skip + n) - (job.skip + 1) + 1 : g[i] = R!Block[(job.skip + 1) + i - 1]
  <2>1. g = SubSeq(R!Block, job.skip + 1, job.skip + n) /\ job.skip + 1 \in Int /\ job.skip + n \in Int
    BY <1>1 DEF n
  <2> DEFINE m == job.skip + 1
             z == job.skip + n
             all == R!Block
  <2>2. m \in Int /\ z \in Int /\ g = SubSeq(all, m, z) /\ \A k \in m .. z : all[k] \in A
    BY <1>2, <2>1
  <2> HIDE DEF A, m, z, all
  <2>3. /\ SubSeq(all, m, z) \in Seq(A)
        /\ Len(SubSeq(all, m, z)) = IF m <= z THEN z - m + 1 ELSE 0
        /\ \A i \in 1 .. z - m + 1 : SubSeq(all, m, z)[i] = all[m + i - 1]
    BY ONLY <2>2, SubSeqProperties
  <2>4. /\ g \in Seq(A)
        /\ Len(g) = IF m <= z THEN z - m + 1 ELSE 0
        /\ \A i \in 1 .. z - m + 1 : g[i] = all[m + i - 1]
    BY ONLY <2>2, <2>3
  <2> QED
    BY <2>4 DEF m, z, all
<1>4. Len(g) = n /\ DOMAIN g = 1 .. n
  <2>1. Len(g) = n
    BY <1>1, <1>3, SMTT(20)
  <2> QED
    BY <1>3, <2>1
<1>5. ASSUME NEW i \in 1 .. n
      PROVE  /\ SkippedOf(attr) => g[i] = ByteOf(BlockMap(s), attr, job.slack, job.off + (i - 1))
             /\ g[i] # R!Junk
  <2>1. i \in 1 .. (job.skip + n) - (job.skip + 1) + 1 /\ (job.skip + 1) + i - 1 = job.skip + i
    BY <1>1
  <2>2. g[i] = R!Block[job.skip + i]
    BY <1>3, <2>1
  <2>3. i \in Nat /\ i > 0 /\ job.skip + i <= BlockSize
    BY <1>1
  <2> QED
    BY <2>2, <2>3, BlockBytes
<1> QED
  BY <1>4, <1>5 DEF n

(* What has been shown of a file, s being its run list and n the offset that *)
(* has been come to                                                        *)
ShownOk(a, s, j, f, n) ==
  /\ Len(f) = Top(a, j.slack)
  /\ SkippedOf(a) => Exact(a, s, j, f)
  /\ ~j.nosparse => \A k \in 1 .. n : f[k] # R!Junk

(* A walk goes past the blocks of skiplen. *)
LEMMA WalkSkipKeeps ==
  ASSUME NEW s, AttrIs(attr, s), WalkOk(attr, s, job, buf), R!WalkSkip
  PROVE  WalkOk(attr, s, job', buf)
<1> DEFINE e == EndBefore(s, job.run)
           l == s[job.run].len
           o == s[job.run].offset
           c == BlockSize
           rest == job.skip - c
<1>1. /\ ~R!WalkDone /\ job.skip >= c /\ job' = R!Advanced(0)
  BY DEF R!WalkSkip
<1>2. /\ job.off \in Nat /\ job.skip \in Nat /\ job.blk \in Nat /\ job.run \in Nat
      /\ c \in Nat /\ c > 0 /\ job \in Job /\ attr.skiplen \in Nat
  BY WalkIs DEF WalkOk
<1>3. /\ job.run \in 1 .. Len(s) /\ Len(s) \in Nat /\ R!Run.len = l
      /\ l \in Nat /\ job.blk < l /\ e = o /\ EndBefore(s, job.run + 1) = o + l
      /\ o \in Nat
  BY <1>1, WalkHere
<1>4. job.off = 0 /\ rest \in Nat
  <2>1. job.off = 0 \/ job.skip = 0
    BY DEF WalkOk
  <2> HIDE DEF c
  <2> QED
    BY <1>1, <1>2, <2>1
<1>5. attr.skiplen = (e + job.blk) * c + job.skip
  <2>1. job.off + attr.skiplen = (e + job.blk) * c + job.skip
    BY DEF WalkOk
  <2> QED
    BY <1>2, <1>4, <2>1
<1>6. attr.skiplen = ((e + job.blk) + 1) * c + rest
  <2>1. ((e + job.blk) + 1) * c = (e + job.blk) * c + c
    <3> HIDE DEF c, e
    <3> QED
      BY <1>2, <1>3
  <2> DEFINE x == (e + job.blk) * c
             y == ((e + job.blk) + 1) * c
  <2>2. x \in Int /\ y = x + c /\ attr.skiplen = x + job.skip
    BY <1>2, <1>3, <1>5, <2>1
  <2> HIDE DEF x, y, c
  <2>3. attr.skiplen = y + (job.skip - c)
    BY <1>2, <2>2
  <2> QED
    BY <2>3 DEF y, c
<1>7. CASE job.blk + 1 < l
  <2> DEFINE i == [job EXCEPT !.blk = job.blk + 1, !.skip = rest]
  <2>1. job' = i
    <3>1. job' = [job EXCEPT !.blk = @ + 1, !.off = @ + 0, !.skip = @ - c]
      BY <1>1, <1>3, <1>7 DEF R!Advanced
    <3>2. job.off + 0 = job.off
      BY <1>4
    <3> QED
      BY <1>2, <3>1, <3>2 DEF Job
  <2>2. /\ i.off = job.off /\ i.len = job.len /\ i.slack = job.slack /\ i.run = job.run
        /\ i.blk = job.blk + 1 /\ i.skip = rest /\ i.nosparse = job.nosparse
        /\ i \in Job
    <3>1. job.blk + 1 \in Nat
      BY <1>2
    <3> HIDE DEF rest
    <3> QED
      BY <1>2, <1>4, <3>1 DEF Job
  <2>3. i.off + attr.skiplen = (EndBefore(s, i.run) + i.blk) * c + i.skip
    <3>1. e + (job.blk + 1) = (e + job.blk) + 1
      BY <1>2, <1>3
    <3>2. i.off + attr.skiplen = attr.skiplen
      BY <1>2, <1>4, <2>2
    <3> QED
      BY <1>6, <2>2, <3>1, <3>2
  <2> HIDE DEF i, rest
  <2>4. WalkOk(attr, s, i, buf)
    BY <1>4, <1>7, <2>2, <2>3 DEF WalkOk, Exact
  <2> QED
    BY <2>1, <2>4
<1>8. CASE ~(job.blk + 1 < l)
  <2> DEFINE i == [job EXCEPT !.run = job.run + 1, !.blk = 0, !.skip = rest]
  <2>0. job.blk + 1 = l
    BY <1>2, <1>3, <1>8
  <2>1. job' = i
    <3>1. job' = [job EXCEPT !.run = @ + 1, !.blk = 0, !.off = @ + 0, !.skip = @ - c]
      BY <1>1, <1>3, <1>8 DEF R!Advanced
    <3>2. job.off + 0 = job.off
      BY <1>4
    <3> QED
      BY <1>2, <3>1, <3>2 DEF Job
  <2>2. /\ i.off = job.off /\ i.len = job.len /\ i.slack = job.slack /\ i.run = job.run + 1
        /\ i.blk = 0 /\ i.skip = rest /\ i.nosparse = job.nosparse
        /\ i \in Job
    <3>1. job.run + 1 \in Nat
      BY <1>2
    <3> HIDE DEF rest
    <3> QED
      BY <1>2, <1>4, <3>1 DEF Job
  <2>3. i.off + attr.skiplen = (EndBefore(s, i.run) + i.blk) * c + i.skip
    <3>1. EndBefore(s, i.run) + i.blk = (e + job.blk) + 1
      <4>1. EndBefore(s, i.run) = o + l /\ i.blk = 0
        BY <1>3, <2>2
      <4>2. (o + l) + 0 = (e + job.blk) + 1
        <5> DEFINE b == job.blk
        <5>1. o \in Int /\ l \in Int /\ b \in Int /\ e = o /\ b + 1 = l
          BY <1>2, <1>3, <2>0
        <5> HIDE DEF o, l, e, b
        <5>2. (o + l) + 0 = (e + b) + 1
          BY ONLY <5>1
        <5> QED
          BY <5>2 DEF b
      <4> QED
        BY <4>1, <4>2
    <3>2. i.off + attr.skiplen = attr.skiplen
      BY <1>2, <1>4, <2>2
    <3> QED
      BY <1>6, <2>2, <3>1, <3>2
  <2>4. i.run \in 1 .. Len(s) + 1
    BY <1>3, <2>2
  <2>5. i.run <= Len(s) => i.blk < s[i.run].len
    <3> SUFFICES ASSUME i.run <= Len(s) PROVE 0 < s[i.run].len
      BY <2>2
    <3>1. i.run \in 1 .. Len(s)
      BY <1>3, <2>4
    <3>2. s[i.run].len \in Nat /\ s[i.run].len > 0
      BY <3>1, StoredRuns
    <3> QED
      BY <3>2
  <2> HIDE DEF i, rest
  <2>6. WalkOk(attr, s, i, buf)
    BY <1>4, <2>2, <2>3, <2>4, <2>5 DEF WalkOk, Exact
  <2> QED
    BY <2>1, <2>6
<1> QED
  BY <1>7, <1>8

(* What has been shown when a block has been *)
LEMMA WalkShown ==
  ASSUME NEW s, AttrIs(attr, s), WalkOk(attr, s, job, buf), R!WalkBlock
  PROVE  /\ ShownOk(attr, s, job, buf', job.off + R!RetLen)
         /\ job.off + R!RetLen <= Top(attr, job.slack)
         /\ job.off + R!RetLen \in Nat
<1> DEFINE n == R!RetLen
           g == SubSeq(R!Block, job.skip + 1, job.skip + n)
           top == Top(attr, job.slack)
<1>1. /\ ~R!WalkDone /\ job.skip < BlockSize
      /\ buf' = IF R!Shown THEN R!Put(job.off, g) ELSE buf
  BY DEF R!WalkBlock
<1>2. n \in Nat /\ job.off + n <= top /\ job.off \in Nat /\ top \in Nat
  BY <1>1, RetLenIs, WalkIs
<1>3. /\ Len(buf) = top
      /\ SkippedOf(attr) => \A k \in 1 .. Len(buf) :
           buf[k] # R!Junk => buf[k] = ByteOf(BlockMap(s), attr, job.slack, k - 1)
      /\ ~job.nosparse => \A k \in 1 .. job.off : buf[k] # R!Junk
  BY DEF WalkOk, Exact
<1>4. CASE R!Shown
  <2>1. buf' = PutIn(buf, job.off, g)
    BY <1>1, <1>4, PutIs
  <2>2. /\ DOMAIN g = 1 .. n
        /\ \A i \in 1 .. n :
              /\ SkippedOf(attr) => g[i] = ByteOf(BlockMap(s), attr, job.slack, job.off + (i - 1))
              /\ g[i] # R!Junk
    BY <1>1, ShownBytes
  <2> HIDE DEF g, n, top
  <2>3. /\ Len(buf') = top
        /\ \A k \in 1 .. top :
             buf'[k] = IF job.off < k /\ k <= job.off + n THEN g[k - job.off] ELSE buf[k]
    <3> DEFINE x == job.off
    <3>1. x \in Nat /\ n \in Nat /\ Len(buf) = top /\ top \in Nat /\ DOMAIN g = 1 .. n
      BY <1>2, <1>3, <2>2
    <3>2. /\ Len(PutIn(buf, x, g)) = Len(buf)
          /\ \A k \in 1 .. Len(buf) :
               PutIn(buf, x, g)[k] = IF x < k /\ k <= x + n THEN g[k - x] ELSE buf[k]
      <4> HIDE DEF x
      <4> QED
        BY ONLY <3>1, PutInIs
    <3> QED
      BY ONLY <2>1, <3>1, <3>2
  <2>4. ASSUME NEW k \in 1 .. top
        PROVE  /\ SkippedOf(attr) /\ buf'[k] # R!Junk => buf'[k] = ByteOf(BlockMap(s), attr, job.slack, k - 1)
               /\ ~job.nosparse /\ k <= job.off + n => buf'[k] # R!Junk
    <3>1. CASE job.off < k /\ k <= job.off + n
      <4> DEFINE i == k - job.off
      <4>1. i \in 1 .. n /\ job.off + (i - 1) = k - 1
        BY <1>2, <3>1
      <4>2. buf'[k] = g[i]
        BY <2>3, <3>1
      <4> HIDE DEF i
      <4> QED
        BY <2>2, <4>1, <4>2
    <3>2. CASE ~(job.off < k /\ k <= job.off + n)
      <4>1. buf'[k] = buf[k]
        BY <2>3, <3>2
      <4>2. k \in 1 .. Len(buf) /\ (k <= job.off + n => k \in 1 .. job.off)
        BY <1>2, <1>3, <3>2
      <4> QED
        BY <1>3, <4>1, <4>2
    <3> QED
      BY <3>1, <3>2
  <2>5. ~job.nosparse => \A k \in 1 .. job.off + n : buf'[k] # R!Junk
    <3> SUFFICES ASSUME ~job.nosparse, NEW k \in 1 .. job.off + n PROVE buf'[k] # R!Junk
      OBVIOUS
    <3>1. k \in 1 .. top /\ k <= job.off + n
      BY <1>2
    <3> QED
      BY <2>4, <3>1
  <2>6. ShownOk(attr, s, job, buf', job.off + n)
    BY <2>3, <2>4, <2>5 DEF ShownOk, Exact, top
  <2> QED
    BY <1>2, <2>6 DEF n, top
<1>5. CASE ~R!Shown
  <2>1. buf' = buf /\ job.nosparse
    BY <1>1, <1>5 DEF R!Shown
  <2>2. ShownOk(attr, s, job, buf', job.off + n)
    BY <1>3, <2>1 DEF ShownOk, Exact
  <2> QED
    BY <1>2, <2>2
<1> QED
  BY <1>4, <1>5

(* A walk goes on behind the block that it has shown. *)
LEMMA WalkBlockKeeps ==
  ASSUME NEW s, AttrIs(attr, s), WalkOk(attr, s, job, buf), R!WalkBlock
  PROVE  /\ pc' = "walk" => WalkOk(attr, s, job', buf')
         /\ job'.off = job.off + R!RetLen
         /\ job'.slack = job.slack /\ job'.nosparse = job.nosparse /\ job'.len = 0
<1> DEFINE e == EndBefore(s, job.run)
           l == s[job.run].len
           o == s[job.run].offset
           c == BlockSize
           n == R!RetLen
           skip == IF n = 0 THEN job.skip - c ELSE 0
           top == Top(attr, job.slack)
<1>1. /\ ~R!WalkDone /\ job.skip < c /\ job' = R!Advanced(n)
      /\ \/ pc' = "done"
         \/ job.off + n < top /\ pc' = pc
  BY LimitIs DEF R!WalkBlock, R!Return
<1>2. /\ job.off \in Nat /\ job.skip \in Nat /\ job.blk \in Nat /\ job.run \in Nat
      /\ c \in Nat /\ c > 0 /\ job \in Job /\ attr.skiplen \in Nat /\ job.len = 0
      /\ top \in Nat
  BY WalkIs DEF WalkOk
<1>3. /\ job.run \in 1 .. Len(s) /\ Len(s) \in Nat /\ R!Run.len = l
      /\ l \in Nat /\ job.blk < l /\ e = o /\ EndBefore(s, job.run + 1) = o + l
      /\ o \in Nat
  BY <1>1, WalkHere
<1>4. /\ n \in Nat /\ job.skip + n <= c /\ job.off + n <= top
      /\ job.skip + n = c \/ job.off + n = top
  BY <1>1, RetLenIs
<1>5. job' = IF job.blk + 1 < l
             THEN [job EXCEPT !.blk = job.blk + 1, !.off = job.off + n, !.skip = skip]
             ELSE [job EXCEPT !.run = job.run + 1, !.blk = 0, !.off = job.off + n, !.skip = skip]
  BY <1>1, <1>3 DEF R!Advanced
<1>6. /\ job'.off = job.off + n /\ job'.slack = job.slack /\ job'.nosparse = job.nosparse
      /\ job'.len = 0
  <2> HIDE DEF n, l, skip
  <2> QED
    BY <1>2, <1>5 DEF Job
<1>7. ASSUME pc' = "walk" PROVE WalkOk(attr, s, job', buf')
  <2>1. job.off + n < top
    BY <1>1, <1>7
  <2>2. n = c - job.skip /\ n > 0 /\ skip = 0 /\ job.off + n \in Nat
    <3> HIDE DEF c, n, top
    <3> QED
      BY <1>1, <1>2, <1>4, <2>1
  <2>3. (job.off + n) + attr.skiplen = ((e + job.blk) + 1) * c + 0
    <3>1. ((e + job.blk) + 1) * c = (e + job.blk) * c + c
      <4> HIDE DEF c, e
      <4> QED
        BY <1>2, <1>3
    <3>2. job.off + attr.skiplen = (e + job.blk) * c + job.skip
      BY DEF WalkOk
    <3> DEFINE x == (e + job.blk) * c
               y == ((e + job.blk) + 1) * c
               u == job.off
               v == attr.skiplen
               w == job.skip
    <3>3. /\ x \in Int /\ u \in Int /\ v \in Int /\ w \in Int /\ c \in Int
          /\ y = x + c /\ u + v = x + w /\ n = c - w
      <4>1. x \in Int
        <5> HIDE DEF e, c
        <5> QED
          BY <1>2, <1>3
      <4>2. u \in Int /\ v \in Int /\ w \in Int /\ c \in Int
        BY <1>2
      <4>3. y = x + c /\ u + v = x + w
        BY <3>1, <3>2
      <4> QED
        BY <2>2, <4>1, <4>2, <4>3
    <3> HIDE DEF x, y, u, v, w, c, n
    <3>4. (u + n) + v = y + 0
      BY <3>3
    <3> QED
      BY <3>4 DEF u, v, y, c
  <2>4. ShownOk(attr, s, job, buf', job.off + n)
    BY WalkShown
  <2> HIDE DEF n, top
  <2>5. CASE job.blk + 1 < l
    <3> DEFINE i == [job EXCEPT !.blk = job.blk + 1, !.off = job.off + n, !.skip = 0]
    <3>1. job' = i
      BY <1>5, <2>2, <2>5
    <3>2. /\ i.off = job.off + n /\ i.len = 0 /\ i.slack = job.slack /\ i.run = job.run
          /\ i.blk = job.blk + 1 /\ i.skip = 0 /\ i.nosparse = job.nosparse
          /\ i \in Job
      <4>1. job.blk + 1 \in Nat
        BY <1>2
      <4> QED
        BY <1>2, <2>2, <4>1 DEF Job
    <3>3. i.off + attr.skiplen = (EndBefore(s, i.run) + i.blk) * c + i.skip
      <4>1. e + (job.blk + 1) = (e + job.blk) + 1
        BY <1>2, <1>3
      <4> QED
        BY <2>3, <3>2, <4>1
    <3>4. i.run \in 1 .. Len(s) + 1
      BY <1>3, <3>2
    <3> HIDE DEF i
    <3>5. ShownOk(attr, s, i, buf', i.off)
      BY <2>4, <3>2 DEF ShownOk, Exact
    <3>6. WalkOk(attr, s, i, buf')
      BY <1>4, <2>5, <3>2, <3>3, <3>4, <3>5 DEF WalkOk, ShownOk, top
    <3> QED
      BY <3>1, <3>6
  <2>6. CASE ~(job.blk + 1 < l)
    <3> DEFINE i == [job EXCEPT !.run = job.run + 1, !.blk = 0, !.off = job.off + n, !.skip = 0]
    <3>0. job.blk + 1 = l
      BY <1>2, <1>3, <2>6, SMTT(20)
    <3>1. job' = i
      BY <1>5, <2>2, <2>6
    <3>2. /\ i.off = job.off + n /\ i.len = 0 /\ i.slack = job.slack /\ i.run = job.run + 1
          /\ i.blk = 0 /\ i.skip = 0 /\ i.nosparse = job.nosparse
          /\ i \in Job
      <4>1. job.run + 1 \in Nat
        BY <1>2
      <4> QED
        BY <1>2, <2>2, <4>1 DEF Job
    <3>3. i.off + attr.skiplen = (EndBefore(s, i.run) + i.blk) * c + i.skip
      <4>1. EndBefore(s, i.run) = o + l /\ i.blk = 0
        BY <1>3, <3>2
      <4>2. (o + l) + 0 = (e + job.blk) + 1
        <5> HIDE DEF o, l, e
        <5> QED
          BY <1>2, <1>3, <3>0, SMTT(20)
      <4> QED
        BY <2>3, <3>2, <4>1, <4>2
    <3>4. i.run \in 1 .. Len(s) + 1
      BY <1>3, <3>2
    <3>5. i.run <= Len(s) => i.blk < s[i.run].len
      <4> SUFFICES ASSUME i.run <= Len(s) PROVE 0 < s[i.run].len
        BY <3>2
      <4>1. i.run \in 1 .. Len(s)
        BY <1>3, <3>4
      <4>2. s[i.run].len \in Nat /\ s[i.run].len > 0
        BY <4>1, StoredRuns
      <4> QED
        BY <4>2
    <3> HIDE DEF i
    <3>6. ShownOk(attr, s, i, buf', i.off)
      BY <2>4, <3>2 DEF ShownOk, Exact
    <3>7. WalkOk(attr, s, i, buf')
      BY <1>4, <3>2, <3>3, <3>4, <3>5, <3>6 DEF WalkOk, ShownOk, top
    <3> QED
      BY <3>1, <3>7
  <2> QED
    BY <2>5, <2>6
<1> QED
  BY <1>6, <1>7

-----------------------------------------------------------------------------
(* What holds of a file from the building of its list to the end of a call *)
StartOk(j) == \E off \in Nat : j = [R!NoJob EXCEPT !.off = off]

(* The fields of a call *)
Fields == {"off", "len", "slack", "nosparse", "run", "blk", "byte", "remain", "skip"}

(* What a read that is over has returned *)
Returned(a, s, j, f, n) ==
  \/ n = -1
  \/ n \in Nat /\ j.off \in Nat /\ Shows(a, s, j, f, n)

(* What holds of a file whose list is in order once it is open *)
OpenInv ==
  /\ pc # "filling" => AttrIs(attr, list.run)
  /\ pc = "start" => StartOk(job)
  /\ pc = "read" => /\ job.len # 0 /\ DOMAIN job = Fields
                    /\ StraightOf(attr, job) => ReadOk(attr, list.run, job, buf)
  /\ pc = "walk" => WalkOk(attr, list.run, job, buf)
  /\ pc = "failed" => job.len # 0
  /\ pc = "done" => \/ /\ job.len # 0
                       /\ StraightOf(attr, job) =>
                            Returned(attr, list.run, job, buf, returned)
                    \/ job.len = 0 /\ ShownOk(attr, list.run, job, buf, 0)

(* The invariant *)
FileInv ==
  /\ FillInv
  /\ pc \in {"filling", "start", "read", "walk", "done", "failed"}
  /\ pc # "filling" => mode # "unused"
  /\ ~misplaced => OpenInv

(* What an opened file has as its attribute *)
LEMMA OpenIs ==
  ASSUME FillInv, Open, ~misplaced
  PROVE  /\ AttrIs(attr', list.run) /\ StartOk(job')
         /\ pc' = "start" /\ list' = list /\ mode' = mode /\ mode # "unused"
<1>1. PICK skip \in SkipLens, cut \in SizeCuts, tail \in InitCuts :
        LET alloc == ListEnd(list.run) * BlockSize - skip IN
        /\ cut + tail <= alloc
        /\ attr' = [run |-> [i \in DOMAIN list.run |-> Stored(list.run[i])],
                    allocsize |-> alloc, size |-> alloc - cut,
                    initsize |-> alloc - cut - tail, skiplen |-> skip]
  BY DEF Open
<1>2. pc' = "start" /\ list' = list /\ mode' = mode /\ mode # "unused"
  BY DEF Open
<1> DEFINE s == list.run
           e == Upto(0, s) * BlockSize
           alloc == e - skip
<1>3. ListIs(s)
  BY <1>2 DEF FillInv, AddedList, AppendedList
<1>4. ListEnd(s) = Upto(0, s)
  BY <1>3, EndsExact
<1>5. Upto(0, s) \in Nat
  BY <1>3, FollowsRuns DEF ListIs
<1>6. e \in Nat /\ skip \in Nat /\ cut \in Nat /\ tail \in Nat
  <2>1. skip \in Nat /\ cut \in Nat /\ tail \in Nat /\ BlockSize \in Nat
    BY SizeAssumption
  <2>2. e \in Nat
    BY <1>5, <2>1
  <2> QED
    BY <2>1, <2>2
<1>7. /\ cut + tail <= alloc
      /\ attr' = [run |-> [i \in DOMAIN s |-> Stored(s[i])],
                  allocsize |-> alloc, size |-> alloc - cut,
                  initsize |-> alloc - cut - tail, skiplen |-> skip]
  BY <1>1, <1>4
<1>8. /\ attr'.run = [i \in DOMAIN s |-> Stored(s[i])]
      /\ attr'.allocsize = alloc /\ attr'.size = alloc - cut
      /\ attr'.initsize = alloc - cut - tail /\ attr'.skiplen = skip
  <2> HIDE DEF alloc, s
  <2> QED
    BY <1>7
<1>9. /\ alloc \in Nat /\ alloc - cut \in Nat /\ alloc - cut - tail \in Nat
      /\ alloc - cut - tail <= alloc - cut /\ alloc - cut <= alloc /\ alloc + skip = e
  <2>1. cut + tail <= e - skip
    BY <1>7
  <2> HIDE DEF e
  <2> QED
    BY <1>6, <2>1
<1> HIDE DEF alloc, e
<1>10. /\ attr'.skiplen \in Nat /\ attr'.initsize \in Nat /\ attr'.size \in Nat
       /\ attr'.allocsize \in Nat /\ attr'.initsize <= attr'.size
       /\ attr'.size <= attr'.allocsize /\ attr'.allocsize + attr'.skiplen = e
  BY <1>6, <1>8, <1>9
<1>11. AttrIs(attr', s)
  BY <1>2, <1>3, <1>8, <1>10 DEF AttrIs, e
<1>12. StartOk(job')
  <2>1. PICK off \in 0 .. attr'.allocsize + BlockSize : job' = [R!NoJob EXCEPT !.off = off]
    BY DEF Open
  <2>2. off \in Nat
    BY <1>10, <2>1, SizeAssumption
  <2> QED
    BY <2>1, <2>2 DEF StartOk
<1> QED
  BY <1>2, <1>11, <1>12

(* A read starts in the runs that it has to skip, or returns -1.           *)
LEMMA StartReadIs ==
  ASSUME NEW s, AttrIs(attr, s), StartOk(job), R!StartRead
  PROVE  /\ job'.len # 0
         /\ \/ pc' = "done" /\ returned' = -1
            \/ /\ pc' = "read" /\ DOMAIN job' = Fields
               /\ StraightOf(attr, job') => ReadOk(attr, s, job', buf')
<1> DEFINE c == BlockSize
<1>1. PICK off \in Nat : job = [R!NoJob EXCEPT !.off = off]
  BY DEF StartOk
<1>2. PICK len \in 1 .. MaxLen, slack \in BOOLEAN :
        LET toread == R!Least(len, R!Limit(slack) - job.off) IN
        \/ /\ job.off >= R!Limit(slack)
           /\ job' = [job EXCEPT !.len = len, !.slack = slack]
           /\ R!Return(-1)
        \/ /\ job.off < R!Limit(slack)
           /\ job' = [job EXCEPT !.len = len, !.slack = slack, !.remain = toread,
                        !.blk = job.off \div c, !.byte = job.off % c]
           /\ buf' = [k \in 1 .. len |-> IF k > toread THEN R!Zero ELSE R!Junk]
           /\ pc' = "read"
  BY DEF R!StartRead
<1>3. /\ attr.allocsize \in Nat /\ attr.skiplen \in Nat /\ c \in Nat /\ c > 0
      /\ Top(attr, slack) \in Nat /\ Top(attr, slack) <= attr.allocsize
      /\ Follows(0, s) /\ Len(s) \in Nat
  BY SizesAre
<1>4. off \in Nat
  BY <1>1
<1>5. /\ job.off = off /\ job.run = 1 /\ job.skip = 0 /\ job.nosparse = FALSE
      /\ job = [off |-> off, len |-> 0, slack |-> FALSE, nosparse |-> FALSE, run |-> 1,
                blk |-> 0, byte |-> 0, remain |-> 0, skip |-> 0]
  BY <1>1 DEF R!NoJob
<1>6. len \in Nat /\ len > 0
  BY SizeAssumption
<1>7. CASE /\ job' = [job EXCEPT !.len = len, !.slack = slack]
           /\ R!Return(-1)
  <2>1. job'.len = len
    BY <1>5, <1>7
  <2>2. pc' = "done" /\ returned' = -1
    BY <1>7 DEF R!Return
  <2> QED
    BY <1>6, <2>1, <2>2
<1> DEFINE top == Top(attr, slack)
           w == R!Least(len, top - off)
           j == [off |-> off, len |-> len, slack |-> slack, nosparse |-> FALSE, run |-> 1,
                 blk |-> off \div c, byte |-> off % c, remain |-> w, skip |-> 0]
           f == [k \in 1 .. len |-> IF k > w THEN R!Zero ELSE R!Junk]
<1>8. CASE /\ job.off < R!Limit(slack)
           /\ job' = [job EXCEPT !.len = len, !.slack = slack,
                        !.remain = R!Least(len, R!Limit(slack) - job.off),
                        !.blk = job.off \div c, !.byte = job.off % c]
           /\ buf' = [k \in 1 .. len |-> IF k > R!Least(len, R!Limit(slack) - job.off)
                                         THEN R!Zero ELSE R!Junk]
           /\ pc' = "read"
  <2>1. off < top /\ R!Limit(slack) = top
    BY <1>5, <1>8, LimitIs
  <2>2. R!Least(len, R!Limit(slack) - job.off) = w
    BY <1>5, <2>1
  <2>3. job' = j
    <3> HIDE DEF w
    <3>1. job' = [job EXCEPT !.len = len, !.slack = slack, !.remain = w,
                        !.blk = off \div c, !.byte = off % c]
      BY <1>5, <1>8, <2>2
    <3> QED
      BY <1>5, <3>1
  <2>4. buf' = f
    BY <1>8, <2>2
  <2>5. w \in Nat /\ w > 0 /\ w <= len
    <3>1. w = IF len <= top - off THEN len ELSE top - off
      BY DEF R!Least
    <3> HIDE DEF w, top
    <3> QED
      BY <1>3, <1>4, <1>6, <2>1, <3>1 DEF top
  <2>6. off \div c \in Nat /\ off % c \in Nat /\ off % c < c
    BY <1>3, <1>4, DivMod
  <2>7. j \in Job
    <3> HIDE DEF w, c
    <3> QED
      BY <1>4, <1>6, <2>5, <2>6 DEF Job
  <2>8. Want(attr, j) = w /\ Got(attr, j) = 0
    <3>1. Want(attr, j) = w
      BY DEF Want
    <3> HIDE DEF w
    <3> QED
      BY <2>5, <3>1 DEF Got
  <2>10. ReadAt(attr, s, j)
    <3>1. EndBefore(s, 1) = 0
      BY DEF EndBefore
    <3>2. j.run = 1 /\ j.byte = off % c /\ j.off = off /\ j.blk = off \div c
      OBVIOUS
    <3> HIDE DEF j
    <3> QED
      BY <2>6, <2>8, <3>1, <3>2 DEF ReadAt
  <2>11. Len(f) = len /\ \A k \in w + 1 .. len : f[k] = R!Zero
    <3> HIDE DEF w
    <3> QED
      BY <1>6, <2>5
  <2>12. Shows(attr, s, j, f, 0)
    BY DEF Shows
  <2>13. DOMAIN j = Fields
    BY DEF Fields
  <2>14. /\ j.off = off /\ j.len = len /\ j.slack = slack /\ j.run = 1 /\ j.remain = w
         /\ j.blk = off \div c /\ j.byte = off % c
    OBVIOUS
  <2>15. 1 \in 1 .. Len(s) + 1
    BY <1>3
  <2> HIDE DEF j, f, w, top
  <2>16. ASSUME StraightOf(attr, j) PROVE ReadOk(attr, s, j, f)
    BY <1>6, <2>1, <2>5, <2>6, <2>7, <2>8, <2>10, <2>11, <2>12, <2>14, <2>15, <2>16
       DEF ReadOk, top
  <2>17. j.len # 0
    BY <1>6, <2>14
  <2>18. pc' = "read"
    BY <1>8
  <2> QED
    BY ONLY <2>3, <2>4, <2>13, <2>16, <2>17, <2>18
<1> QED
  BY <1>2, <1>7, <1>8

(* A walk starts at the first block of the first run. *)
LEMMA StartWalkIs ==
  ASSUME NEW s, AttrIs(attr, s), R!StartWalk
  PROVE  pc' = "walk" /\ WalkOk(attr, s, job', buf')
<1>1. PICK slack \in BOOLEAN, nosparse \in BOOLEAN :
        /\ job' = [R!NoJob EXCEPT !.slack = slack, !.nosparse = nosparse,
                     !.skip = attr.skiplen]
        /\ buf' = [k \in 1 .. R!Limit(slack) |-> R!Junk]
  BY DEF R!StartWalk
<1> DEFINE top == Top(attr, slack)
           j == [off |-> 0, len |-> 0, slack |-> slack, nosparse |-> nosparse, run |-> 1,
                 blk |-> 0, byte |-> 0, remain |-> 0, skip |-> attr.skiplen]
           f == [k \in 1 .. top |-> R!Junk]
<1>2. /\ attr.skiplen \in Nat /\ BlockSize \in Nat /\ top \in Nat
      /\ Follows(0, s) /\ Len(s) \in Nat
  BY SizesAre
<1>3. job' = j /\ buf' = f
  BY <1>1, LimitIs DEF R!NoJob
<1>4. /\ j.off = 0 /\ j.len = 0 /\ j.slack = slack /\ j.run = 1 /\ j.blk = 0
      /\ j.skip = attr.skiplen /\ j.nosparse = nosparse /\ j \in Job
  BY <1>2 DEF Job
<1>5. EndBefore(s, 1) = 0
  BY DEF EndBefore
<1>6. 1 <= Len(s) => 0 < s[1].len
  <2> SUFFICES ASSUME 1 <= Len(s) PROVE 0 < s[1].len
    OBVIOUS
  <2>1. 1 \in 1 .. Len(s)
    BY <1>2
  <2>2. s[1].len \in Nat /\ s[1].len > 0
    BY <2>1, StoredRuns
  <2> QED
    BY <2>2
<1>7. 0 + attr.skiplen = (0 + 0) * BlockSize + attr.skiplen
  BY <1>2
<1>8. Len(f) = top /\ \A k \in 1 .. Len(f) : f[k] = R!Junk
  BY <1>2
<1>9. 1 \in 1 .. Len(s) + 1
  BY <1>2
<1> HIDE DEF j, f
<1>10. WalkOk(attr, s, j, f)
  BY <1>2, <1>4, <1>5, <1>6, <1>7, <1>8, <1>9 DEF WalkOk, Exact
<1> QED
  BY <1>3, <1>10 DEF R!StartWalk

(* The invariant of a file holds at first, *)
LEMMA FileInvInit == FileInit => FileInv
BY FillInvInit DEF FileInit, FileInv, OpenInv

(* what a step of a read leaves alone, *)
LEMMA CallIs ==
  ASSUME DOMAIN job = Fields, R!SkipRun \/ R!ZeroRun \/ R!DataRun \/ R!FinishRead, attr' = attr
  PROVE  /\ job'.len = job.len /\ DOMAIN job' = Fields
         /\ StraightOf(attr', job') <=> StraightOf(attr, job)
<1>1. job'.len = job.len /\ job'.off = job.off /\ job'.slack = job.slack /\ DOMAIN job' = Fields
  BY DEF R!SkipRun, R!ZeroRun, R!DataRun, R!FinishRead, Fields
<1> QED
  BY <1>1 DEF StraightOf

(* every step of a read or walk keeps it, *)
LEMMA OpenInvRead ==
  ASSUME FileInv, OpenInv, Read
  PROVE  OpenInv'
<1> DEFINE s == list.run
<1>2. list' = list /\ mode' = mode /\ R!Next
  BY DEF Read, filling
<1>3. pc # "filling" /\ pc' # "filling" /\ attr' = attr
  BY <1>2, ReadLeaves
<1>4. AttrIs(attr, s)
  BY <1>3 DEF OpenInv
<1>5. AttrIs(attr, list.run)'
  BY <1>2, <1>3, <1>4
<1>6. CASE R!StartRead
  <2>1. StartOk(job)
    BY <1>6 DEF OpenInv, R!StartRead
  <2>2. /\ job'.len # 0
        /\ \/ pc' = "done" /\ returned' = -1
           \/ /\ pc' = "read" /\ DOMAIN job' = Fields
              /\ StraightOf(attr, job') => ReadOk(attr, s, job', buf')
    BY <1>4, <1>6, <2>1, StartReadIs
  <2> QED
    BY <1>2, <1>3, <1>5, <2>2 DEF OpenInv, Returned
<1>7. ASSUME R!SkipRun \/ R!ZeroRun \/ R!DataRun \/ R!FinishRead
      PROVE  /\ pc = "read" /\ job.len # 0 /\ job'.len = job.len
             /\ DOMAIN job' = Fields
             /\ StraightOf(attr', job') <=> StraightOf(attr, job)
             /\ StraightOf(attr, job) => ReadOk(attr, s, job, buf)
  <2>1. pc = "read"
    BY <1>7 DEF R!SkipRun, R!ZeroRun, R!DataRun, R!FinishRead
  <2>2. /\ DOMAIN job = Fields /\ job.len # 0
        /\ StraightOf(attr, job) => ReadOk(attr, s, job, buf)
    BY <2>1 DEF OpenInv
  <2> QED
    BY <1>3, <1>7, <2>1, <2>2, CallIs
<1>8. CASE R!SkipRun \/ R!ZeroRun \/ (R!DataRun /\ pc' = "read")
  <2>1. pc' = "read"
    BY <1>7, <1>8 DEF R!SkipRun, R!ZeroRun
  <2>2. ASSUME ReadOk(attr, s, job, buf) PROVE ReadOk(attr, s, job', buf')
    <3>1. R!SkipRun => buf' = buf
      BY DEF R!SkipRun
    <3>2. R!SkipRun => ReadOk(attr, s, job', buf)
      BY <1>4, <2>2, SkipRunKeeps
    <3>3. R!ZeroRun => ReadOk(attr, s, job', buf')
      BY <1>4, <2>2, ZeroRunKeeps
    <3>4. R!DataRun /\ pc' = "read" => ReadOk(attr, s, job', buf')
      BY <1>4, <2>2, DataRunKeeps
    <3> QED
      BY <1>8, <3>1, <3>2, <3>3, <3>4
  <2>3. /\ job'.len # 0 /\ DOMAIN job' = Fields
        /\ StraightOf(attr', job') => ReadOk(attr', list'.run, job', buf')
    BY <1>2, <1>3, <1>7, <1>8, <2>2
  <2> QED
    BY <1>5, <2>1, <2>3 DEF OpenInv
<1>9. CASE R!DataRun /\ pc' # "read"
  <2>1. pc' = "failed"
    BY <1>7, <1>9 DEF R!DataRun
  <2>2. job'.len # 0
    BY <1>7, <1>9
  <2> QED
    BY <1>5, <2>1, <2>2 DEF OpenInv
<1>10. CASE R!FinishRead
  <2>1. pc' = "done" /\ job' = job /\ buf' = buf
    BY <1>10 DEF R!FinishRead, R!Return
  <2>2. ASSUME ReadOk(attr, s, job, buf) PROVE Returned(attr, s, job, buf, returned')
    <3>1. Shows(attr, s, job, buf, returned') /\ returned' \in Nat
      BY <1>4, <1>10, <2>2, FinishIs
    <3>2. job.off \in Nat
      BY <2>2, ReadIs, <1>4
    <3> QED
      BY <3>1, <3>2 DEF Returned
  <2>3. /\ job'.len # 0
        /\ StraightOf(attr', job') => Returned(attr', list'.run, job', buf', returned')
    BY <1>2, <1>3, <1>7, <1>10, <2>1, <2>2
  <2> QED
    BY <1>5, <2>1, <2>3 DEF OpenInv
<1>11. CASE R!StartWalk
  <2>1. pc' = "walk" /\ WalkOk(attr, s, job', buf')
    BY <1>4, <1>11, StartWalkIs
  <2> QED
    BY <1>2, <1>3, <1>5, <2>1 DEF OpenInv
<1>12. CASE R!WalkSkip
  <2>1. pc = "walk" /\ pc' = "walk" /\ buf' = buf
    BY <1>12 DEF R!WalkSkip
  <2>2. WalkOk(attr, s, job', buf)
    BY <1>4, <1>12, <2>1, WalkSkipKeeps DEF OpenInv
  <2> QED
    BY <1>2, <1>3, <1>5, <2>1, <2>2 DEF OpenInv
<1>13. CASE R!WalkBlock
  <2>1. pc = "walk" /\ pc' \in {"walk", "done"}
    BY <1>13 DEF R!WalkBlock, R!Return
  <2>2. WalkOk(attr, s, job, buf)
    BY <2>1 DEF OpenInv
  <2>3. /\ pc' = "walk" => WalkOk(attr, s, job', buf')
        /\ job'.slack = job.slack /\ job'.nosparse = job.nosparse /\ job'.len = 0
    BY <1>4, <1>13, <2>2, WalkBlockKeeps
  <2>4. ShownOk(attr, s, job, buf', job.off + R!RetLen)
    BY <1>4, <1>13, <2>2, WalkShown
  <2>5. ShownOk(attr, s, job', buf', 0)
    BY <2>3, <2>4 DEF ShownOk, Exact
  <2> QED
    BY <1>2, <1>3, <1>5, <2>1, <2>3, <2>5 DEF OpenInv
<1>14. CASE R!WalkFails \/ R!WalkEnds
  <2>1. pc = "walk" /\ pc' = "done" /\ job' = job /\ buf' = buf
    BY <1>14 DEF R!WalkFails, R!WalkEnds, R!Return
  <2>2. WalkOk(attr, s, job, buf)
    BY <2>1 DEF OpenInv
  <2>3. job.len = 0 /\ ShownOk(attr, s, job, buf, 0)
    BY <2>2 DEF WalkOk, ShownOk
  <2> QED
    BY <1>2, <1>3, <1>5, <2>1, <2>3 DEF OpenInv
<1> QED
  BY <1>2, <1>6, <1>8, <1>9, <1>10, <1>11, <1>12, <1>13, <1>14 DEF R!Next

(* a read or walk also leaves the rest alone, *)
LEMMA FileInvRead ==
  ASSUME FileInv, Read
  PROVE  FileInv'
<1>1. FillInv'
  BY FillInvStep DEF FileInv, FileNext
<1>2. mode' = mode /\ misplaced' = misplaced /\ R!Next
  BY DEF Read, filling
<1>3. pc # "filling" /\ pc' \in {"filling", "start", "read", "walk", "done", "failed"}
  BY <1>2 DEF FileInv, R!Next, R!StartRead, R!SkipRun, R!ZeroRun, R!DataRun, R!FinishRead,
       R!StartWalk, R!WalkSkip, R!WalkBlock, R!WalkFails, R!WalkEnds, R!Return
<1>4. ~misplaced => OpenInv'
  BY OpenInvRead DEF FileInv
<1> QED
  BY <1>1, <1>2, <1>3, <1>4 DEF FileInv

(* as every other step does. *)
LEMMA FileInvStep ==
  ASSUME FileInv, [FileNext]_<<filling, reading>>
  PROVE  FileInv'
<1>1. FillInv'
  BY FillInvStep DEF FileInv
<1>2. CASE Fill
  <2>1. pc = "filling" /\ pc' = "filling"
    BY <1>2 DEF Fill, reading
  <2> QED
    BY <1>1, <2>1 DEF FileInv, OpenInv
<1>3. CASE Open
  <2>1. pc' = "start" /\ mode' = mode /\ mode # "unused" /\ misplaced' = misplaced
    BY <1>3 DEF Open
  <2>2. ASSUME ~misplaced PROVE OpenInv'
    <3>1. AttrIs(attr', list.run) /\ StartOk(job') /\ pc' = "start" /\ list' = list
      BY <1>3, <2>2, OpenIs DEF FileInv
    <3> QED
      BY <3>1 DEF OpenInv
  <2> QED
    BY <1>1, <2>1, <2>2 DEF FileInv
<1>4. CASE Read
  BY <1>4, FileInvRead
<1>5. CASE UNCHANGED <<filling, reading>>
  <2>1. /\ pc' = pc /\ mode' = mode /\ misplaced' = misplaced /\ list' = list /\ attr' = attr
        /\ job' = job /\ buf' = buf /\ returned' = returned
    BY <1>5 DEF filling, reading
  <2>2. OpenInv' <=> OpenInv
    BY <2>1 DEF OpenInv
  <2> QED
    BY <1>1, <2>1, <2>2 DEF FileInv
<1> QED
  BY <1>2, <1>3, <1>4, <1>5 DEF FileNext

(* The invariant of a whole file, from the first run to the last byte,     *)
(* holds through every step of filling, opening, reading and walking       *)
(* (fs_attr.c:844, :1104).                                                 *)
THEOREM FileInvariance == FileSpec => []FileInv
<1>1. FileInv /\ [FileNext]_<<filling, reading>> => FileInv'
  BY FileInvStep
<1> QED
  BY <1>1, FileInvInit, PTL DEF FileSpec

(* What is known of the blocks when the file is open *)
LEMMA BlocksAre ==
  ASSUME FileInv, pc # "filling", ~misplaced
  PROVE  /\ AttrIs(attr, list.run)
         /\ \A p : FileByte(p) = ByteOf(BlockMap(list.run), attr, job.slack, p)
<1>1. AttrIs(attr, list.run) /\ BlockMap(list.run) = blocks
  BY DEF FileInv, OpenInv, FillInv, AddedList, AppendedList
<1> QED
  BY <1>1, FileByteIs

(* tsk_fs_attr_read returns the bytes of the file that the added runs      *)
(* describe, wherever the range starts and ends, if no rest of a filler is *)
(* misplaced (fs_attr.c:615), there is no skiplen (fs_attr.c:1169) and the *)
(* range is Straight (fs_attr.c:1104, :1262, :1281).                       *)
THEOREM ReadsReturnTheFile == FileSpec => []ReadReturnsFile
<1>1. ASSUME FileInv PROVE ReadReturnsFile
  <2> SUFFICES ASSUME pc = "done", job.len > 0, returned >= 0, NEW k \in 1 .. returned,
                      ~misplaced, attr.skiplen = 0, Straight
               PROVE  buf[k] = FileByte(job.off + k - 1)
    BY DEF ReadReturnsFile
  <2>1. job.len # 0
    OBVIOUS
  <2>2. \/ returned = -1
        \/ /\ returned \in Nat /\ job.off \in Nat
           /\ Shows(attr, list.run, job, buf, returned)
    BY <1>1, <2>1, StraightIs DEF FileInv, OpenInv, Returned
  <2>3. /\ returned \in Nat /\ job.off \in Nat
        /\ Shows(attr, list.run, job, buf, returned)
    BY <2>2
  <2>4. buf[k] = ByteOf(BlockMap(list.run), attr, job.slack, job.off + (k - 1))
    BY <2>3 DEF Shows
  <2>5. job.off + (k - 1) = job.off + k - 1
    BY <2>3
  <2> QED
    BY <1>1, <2>4, <2>5, BlocksAre
<1> QED
  BY <1>1, FileInvariance, PTL

(* tsk_fs_attr_walk_nonres shows the bytes of the same file, each at its   *)
(* offset, from skiplen bytes into the runs on (fs_attr.c:844), if no rest *)
(* of a filler is misplaced (fs_attr.c:615) and the content does not end   *)
(* in a block with a part of the skiplen (fs_attr.c:947).                  *)
THEOREM WalksShowTheFile == FileSpec => []WalkShowsFile
<1>1. ASSUME FileInv PROVE WalkShowsFile
  <2> SUFFICES ASSUME pc \in {"walk", "done", "failed"}, job.len = 0,
                      NEW k \in 1 .. Len(buf), buf[k] # R!Junk, ~misplaced, Skipped
               PROVE  buf[k] = FileByte(k - 1)
    BY DEF WalkShowsFile
  <2>1. \A n \in 1 .. Len(buf) :
          buf[n] # R!Junk => buf[n] = ByteOf(BlockMap(list.run), attr, job.slack, n - 1)
    BY <1>1 DEF FileInv, OpenInv, WalkOk, ShownOk, Exact, Skipped, SkippedOf
  <2> QED
    BY <1>1, <2>1, BlocksAre
<1> QED
  BY <1>1, FileInvariance, PTL

(* A read that comes to its end has read all that there is up to the limit *)
(* and leaves no byte of the buffer unwritten (fs_attr.c:1283), if no rest *)
(* of a filler is misplaced (fs_attr.c:615) and the range is Straight      *)
(* (fs_attr.c:1262).                                                       *)
THEOREM FinishedReadsFill == FileSpec => ReadFills
<1> DEFINE Fills ==
       R!FinishRead /\ ~misplaced /\ Straight =>
         /\ returned' = R!Least(job.len, R!Limit(job.slack) - job.off)
         /\ \A k \in 1 .. Len(buf) : buf[k] # R!Junk
<1>1. ASSUME FileInv PROVE Fills
  <2> SUFFICES ASSUME R!FinishRead, ~misplaced, Straight
               PROVE  /\ returned' = R!Least(job.len, R!Limit(job.slack) - job.off)
                      /\ \A k \in 1 .. Len(buf) : buf[k] # R!Junk
    OBVIOUS
  <2>1. pc = "read"
    BY DEF R!FinishRead
  <2>2. AttrIs(attr, list.run) /\ ReadOk(attr, list.run, job, buf)
    BY <1>1, <2>1, StraightIs DEF FileInv, OpenInv
  <2>3. returned' = Want(attr, job) /\ \A k \in 1 .. Len(buf) : buf[k] # R!Junk
    BY <2>2, FinishIs
  <2> QED
    BY <2>3, LimitIs DEF Want
<1> HIDE DEF Fills
<1>2. FileSpec => [][Fills]_reading
  BY <1>1, FileInvariance, PTL
<1> QED
  BY <1>2 DEF ReadFills, Fills

(* A walk that comes to the limit has shown every byte before it, unless   *)
(* the caller did not want sparse blocks (fs_attr.c:1018), if no rest of a *)
(* filler is misplaced (fs_attr.c:615).                                    *)
THEOREM FinishedWalksShowAll == FileSpec => WalkShowsAll
<1> DEFINE Shown ==
       pc = "walk" /\ ~job.nosparse /\ ~misplaced
       /\ job.off < R!Limit(job.slack) /\ job'.off >= R!Limit(job.slack)
       => \A k \in 1 .. Len(buf') : buf'[k] # R!Junk
<1>1. ASSUME FileInv, [FileNext]_<<filling, reading>> PROVE Shown
  <2> SUFFICES ASSUME pc = "walk", ~job.nosparse, ~misplaced,
                      job.off < R!Limit(job.slack), job'.off >= R!Limit(job.slack)
               PROVE  \A k \in 1 .. Len(buf') : buf'[k] # R!Junk
    OBVIOUS
  <2>1. AttrIs(attr, list.run) /\ WalkOk(attr, list.run, job, buf)
    BY <1>1 DEF FileInv, OpenInv
  <2>2. /\ job.off \in Nat /\ Top(attr, job.slack) \in Nat
        /\ R!Limit(job.slack) = Top(attr, job.slack)
    BY <2>1, WalkIs, LimitIs
  <2>3. job'.off # job.off
    BY <2>2
  <2>4. ~R!WalkSkip
    <3> SUFFICES ASSUME R!WalkSkip PROVE FALSE
      OBVIOUS
    <3>1. WalkOk(attr, list.run, job', buf)
      BY <2>1, WalkSkipKeeps
    <3>2. job'.off = job.off
      <4>1. job.skip >= BlockSize /\ job' = R!Advanced(0)
        BY DEF R!WalkSkip
      <4>2. job \in Job
        BY <2>1 DEF WalkOk
      <4>3. job.off + 0 = job.off
        BY <2>2
      <4> QED
        BY <4>1, <4>2, <4>3 DEF R!Advanced, Job
    <3> QED
      BY <2>3, <3>2
  <2>5. R!WalkBlock
    <3>1. ~Fill /\ ~Open
      BY DEF Fill, Open
    <3>2. ~UNCHANGED <<filling, reading>>
      BY <2>3 DEF reading
    <3>3. R!Next
      BY <1>1, <3>1, <3>2 DEF FileNext, Read
    <3>4. ~R!StartRead /\ ~R!SkipRun /\ ~R!ZeroRun /\ ~R!DataRun /\ ~R!FinishRead /\ ~R!StartWalk
      BY DEF R!StartRead, R!SkipRun, R!ZeroRun, R!DataRun, R!FinishRead, R!StartWalk
    <3>5. ~R!WalkFails /\ ~R!WalkEnds
      BY <2>3 DEF R!WalkFails, R!WalkEnds
    <3> QED
      BY <2>4, <3>3, <3>4, <3>5 DEF R!Next
  <2> DEFINE n == job.off + R!RetLen
             top == Top(attr, job.slack)
  <2>6. job'.off = n /\ ShownOk(attr, list.run, job, buf', n) /\ n <= top /\ n \in Nat
    BY <2>1, <2>5, WalkBlockKeeps, WalkShown
  <2> HIDE DEF n
  <2>7. n = top
    BY <2>2, <2>6
  <2>8. Len(buf') = n /\ \A k \in 1 .. n : buf'[k] # R!Junk
    BY <2>6, <2>7 DEF ShownOk
  <2> QED
    BY <2>8
<1> HIDE DEF Shown
<1>2. FileSpec => [][Shown]_reading
  BY <1>1, FileInvariance, PTL DEF FileSpec
<1> QED
  BY <1>2 DEF WalkShowsAll, Shown

-----------------------------------------------------------------------------
(* The third part is about the extent trees of ext4, whose extents are     *)
(* added to the run list of the data attribute in the order of the tree.   *)

(* The run list that is loaded, with its end where run_end points          *)
LoadedList(l) == ListIs(l.run) /\ l.end = Len(l.run)

(* One run makes a piece. *)
LEMMA OneRun ==
  ASSUME NEW r \in ListRun
  PROVE  /\ Follows(r.offset, <<r>>)
         /\ \A x : Upto(x, <<r>>) = r.offset + r.len
         /\ <<r>> \in Seq(ListRun)
<1>1. <<r>> \in Seq(ListRun) /\ Len(<<r>>) = 1 /\ <<r>>[1] = r /\ <<r>> # <<>>
  OBVIOUS
<1> QED
  BY <1>1 DEF Follows, Upto, EndOf, Last

(* A run behind the end of a list is added to it, with a filler for what   *)
(* lies between, unless memory runs out.                                   *)
LEMMA RunBehind ==
  ASSUME NEW l, LoadedList(l), NEW r \in FileRun, Upto(0, l.run) <= r.offset,
         r.offset + r.len < Width, NEW q \in AddResults(l, <<r>>)
  PROVE  /\ q.ret \in {"ok", "no memory"}
         /\ q.ret = "ok" =>
              /\ LoadedList(q.list) /\ Upto(0, q.list.run) = r.offset + r.len
              /\ BlockMap(q.list.run) = BlockMap(l.run) \union BlockMap(<<r>>)
<1> DEFINE new == <<r>>
           e == Upto(0, l.run)
           o == r.offset
           gap == TailFiller(l, new)
           run == l.run \o gap \o new
           stops == {i \in 1 .. Len(l.run) : StopsAt(l, i, new)}
<1>1. /\ Follows(0, l.run) /\ l.end = Len(l.run) /\ e \in Nat /\ e < Width /\ Len(l.run) \in Nat
      /\ l.run \in Seq(ListRun)
  BY FollowsRuns DEF LoadedList, ListIs
<1>2. r \in ListRun /\ o \in Nat /\ r.len \in Nat /\ new[1] = r /\ o + r.len \in Nat
  <2>1. r.offset \in Nat /\ r.addr \in Nat /\ r.len \in Nat \ {0} /\ r.filler = FALSE
    BY DEF FileRun
  <2>2. r \in ListRun
    BY DEF FileRun, ListRun
  <2> QED
    BY <2>1, <2>2
<1>3. /\ ListEnd(l.run) = e
      /\ \A i \in 1 .. Len(l.run) : RunEnd(l.run[i]) = l.run[i].offset + l.run[i].len
  BY EndsExact DEF LoadedList
<1>4. /\ ListEnd(l.run) = e
      /\ \A i \in 1 .. Len(l.run) : RunEnd(l.run[i]) = l.run[i].offset + l.run[i].len
  <2>1. \A i : RunEnd(i) = RunEnd(i)
    BY DEF RunEnd, RunEnd
  <2>2. \A s : ListEnd(s) = ListEnd(s)
    BY <2>1 DEF ListEnd, ListEnd, Last, Last
  <2> QED
    BY <1>3, <2>1, <2>2
<1>5. Follows(o, new) /\ Upto(o, new) = o + r.len /\ new \in Seq(ListRun)
  BY <1>2, OneRun
<1>6. ASSUME NEW s \in Seq(ListRun), Follows(0, s), Upto(0, s) = o, BlockMap(s) = BlockMap(l.run)
      PROVE  /\ LoadedList([run |-> s \o new, end |-> Len(s \o new)])
             /\ Upto(0, s \o new) = o + r.len
             /\ BlockMap(s \o new) = BlockMap(l.run) \union BlockMap(new)
  <2>1. Follows(0, s \o new) /\ Upto(0, s \o new) = Upto(Upto(0, s), new)
    <3>1. 0 \in Nat /\ Follows(Upto(0, s), new)
      BY <1>5, <1>6
    <3> HIDE DEF new
    <3> QED
      BY <3>1, <1>6, FollowsConcat
  <2>2. BlockMap(s \o new) = BlockMap(s) \union BlockMap(new)
    <3> HIDE DEF new
    <3> QED
      BY <1>5, MapConcat
  <2>3. Upto(0, s \o new) = o + r.len
    BY <2>1, <1>5, <1>6
  <2> HIDE DEF new, o
  <2> QED
    BY <2>1, <2>2, <2>3, <1>6 DEF LoadedList, ListIs, o
<1>7. CASE AtEnd(l, new)
  <2>1. q = Result(AppendedAtEnd(l, new), "ok")
    BY <1>7 DEF AddResults
  <2>2. l.end # 0 /\ RunEnd(l.run[l.end]) = o
    BY <1>7, <1>2 DEF AtEnd
  <2>3. e = o
    <3>1. l.end \in 1 .. Len(l.run) /\ l.run # <<>>
      BY <2>2, <1>1
    <3> QED
      BY <3>1, <2>2, <1>1, <1>4 DEF Upto, EndOf, Last
  <2>4. SubSeq(l.run, 1, l.end) = l.run
    BY <1>1
  <2>5. AppendedAtEnd(l, new) = [run |-> l.run \o new, end |-> Len(l.run \o new)]
    BY <2>4 DEF AppendedAtEnd
  <2>6. q.ret = "ok" /\ q.list = [run |-> l.run \o new, end |-> Len(l.run \o new)]
    BY <2>1, <2>5 DEF Result
  <2>7. q.list.run = l.run \o new
    BY <2>6
  <2> HIDE DEF new, e, o
  <2> QED
    BY <2>3, <2>6, <2>7, <1>1, <1>6 DEF e, new, o
<1>8. stops = {}
  <2> SUFFICES ASSUME NEW i \in 1 .. Len(l.run), StopsAt(l, i, new) PROVE FALSE
    OBVIOUS
  <2>1. l.run[i].offset > o \/ RunEnd(l.run[i]) > o
    BY <1>2 DEF StopsAt
  <2>2. l.run[i].offset \in Nat /\ l.run[i].len \in Nat /\ l.run[i].offset + l.run[i].len <= e
    BY <1>1, FollowsRuns, FollowsWithin
  <2>3. RunEnd(l.run[i]) = l.run[i].offset + l.run[i].len /\ e \in Nat /\ o \in Nat /\ e <= o
    BY <1>1, <1>2, <1>4
  <2> HIDE DEF e, o
  <2> QED
    BY <2>1, <2>2, <2>3
<1>9. CASE ~AtEnd(l, new)
  <2>1. q \in TailResults(l, new)
    BY <1>8, <1>9 DEF AddResults
  <2>2. ~(ListEnd(l.run) > new[1].offset)
    BY <1>1, <1>2, <1>4
  <2>3. q = Result([run |-> run, end |-> Len(run)], "ok") \/ q = Result(l, "no memory")
    BY <2>1, <2>2 DEF TailResults
  <2>4. Follows(0, l.run \o gap) /\ Upto(0, l.run \o gap) = o
        /\ BlockMap(l.run \o gap) = BlockMap(l.run) /\ l.run \o gap \in Seq(ListRun)
    <3>1. CASE e = o \/ o = 0
      <4>1. gap = <<>> /\ e = o
        BY <3>1, <1>1, <1>2, <1>4 DEF TailFiller
      <4>2. l.run \o gap = l.run
        BY <4>1, <1>1
      <4> QED
        BY <4>1, <4>2, <1>1
    <3>2. CASE ~(e = o \/ o = 0)
      <4> DEFINE n == o - e
                 f == Filler(e, n)
      <4>1. n \in Nat \ {0} /\ e + n = o
        BY <3>2, <1>1, <1>2
      <4>2. gap = <<f>>
        <5>1. new[1].offset = o
          BY <1>2
        <5> QED
          BY <5>1, <3>2, <1>4 DEF TailFiller, Filler, Filler
      <4>3. f \in ListRun /\ f.offset = e /\ f.len = n
        <5> HIDE DEF n, e
        <5> QED
          BY <4>1, <1>1 DEF Filler, ListRun
      <4> HIDE DEF n, e, o, gap, f
      <4>4. Follows(e, gap) /\ Upto(e, gap) = o /\ gap \in Seq(ListRun)
        BY <4>1, <4>2, <4>3, OneRun
      <4>5. BlockMap(gap) = {}
        BY <4>2, MapOfFiller DEF f
      <4>6. Follows(0, l.run \o gap) /\ Upto(0, l.run \o gap) = Upto(e, gap)
        <5>1. 0 \in Nat /\ Follows(0, l.run) /\ Follows(Upto(0, l.run), gap)
          BY <4>4, <1>1 DEF e
        <5> QED
          BY <5>1, FollowsConcat DEF e
      <4>7. BlockMap(l.run \o gap) = BlockMap(l.run) \union BlockMap(gap)
        BY <4>4, <1>1, MapConcat
      <4> QED
        BY <4>4, <4>5, <4>6, <4>7, <1>1
    <3> QED
      BY <3>1, <3>2
  <2>5. /\ LoadedList([run |-> run, end |-> Len(run)])
        /\ Upto(0, run) = o + r.len
        /\ BlockMap(run) = BlockMap(l.run) \union BlockMap(new)
    <3> HIDE DEF new, gap, o
    <3> QED
      BY <2>4, <1>6
  <2>6. CASE q = Result(l, "no memory")
    BY <2>6 DEF Result
  <2>7. CASE q = Result([run |-> run, end |-> Len(run)], "ok")
    <3> HIDE DEF run, new, o
    <3>1. q.list = [run |-> run, end |-> Len(run)] /\ q.ret = "ok" /\ q.list.run = run
      BY <2>7 DEF Result
    <3> QED
      BY <3>1, <2>5 DEF new, o
  <2> QED
    BY <2>3, <2>6, <2>7
<1> QED
  BY <1>7, <1>9

-----------------------------------------------------------------------------
(* The entries of a sequence *)
Members(s) == {s[i] : i \in 1 .. Len(s)}

(* A sequence is its first entry and the others. *)
LEMMA TailIs ==
  ASSUME NEW S, NEW s \in Seq(S), s # <<>>
  PROVE  /\ Head(s) = s[1] /\ 1 \in 1 .. Len(s) /\ Len(s) \in Nat
         /\ Tail(s) \in Seq(S) /\ Len(Tail(s)) = Len(s) - 1
         /\ \A i \in 1 .. Len(s) - 1 : i + 1 \in 1 .. Len(s) /\ Tail(s)[i] = s[i + 1]
         /\ Members(s) = {Head(s)} \union Members(Tail(s))
<1>1. /\ Head(s) = s[1] /\ 1 \in 1 .. Len(s) /\ Len(s) \in Nat
      /\ Tail(s) \in Seq(S) /\ Len(Tail(s)) = Len(s) - 1
      /\ \A i \in 1 .. Len(s) - 1 : i + 1 \in 1 .. Len(s) /\ Tail(s)[i] = s[i + 1]
  OBVIOUS
<1> DEFINE n == Len(s)
           t == Tail(s)
           h == Head(s)
<1> HIDE DEF n, t, h
<1>2. /\ h = s[1] /\ 1 \in 1 .. n /\ n \in Nat /\ Len(t) = n - 1 /\ n = Len(s)
      /\ \A i \in 1 .. n - 1 : i + 1 \in 1 .. n /\ t[i] = s[i + 1]
  BY <1>1 DEF n, t, h
<1>3. ASSUME NEW e \in Members(s) PROVE e \in {h} \union Members(t)
  <2>1. PICK i \in 1 .. n : e = s[i]
    BY <1>2 DEF Members
  <2>2. CASE i = 1
    BY <2>1, <2>2, <1>2
  <2>3. CASE i # 1
    <3>1. i - 1 \in 1 .. n - 1 /\ (i - 1) + 1 = i
      BY <2>3, <1>2
    <3>2. t[i - 1] = e
      BY <3>1, <2>1, <1>2
    <3> QED
      BY <3>1, <3>2, <1>2 DEF Members
  <2> QED
    BY <2>2, <2>3
<1>4. ASSUME NEW e \in {h} \union Members(t) PROVE e \in Members(s)
  BY <1>2 DEF Members
<1> QED
  BY <1>1, <1>3, <1>4 DEF t, h

(* The entries of two sequences in a row *)
LEMMA ConcatIs ==
  ASSUME NEW S, NEW s \in Seq(S), NEW t \in Seq(S)
  PROVE  /\ s \o t \in Seq(S) /\ Len(s) \in Nat /\ Len(t) \in Nat
         /\ Len(s \o t) = Len(s) + Len(t)
         /\ \A i \in 1 .. Len(s) + Len(t) :
              IF i <= Len(s) THEN i \in 1 .. Len(s) /\ (s \o t)[i] = s[i]
              ELSE i - Len(s) \in 1 .. Len(t) /\ (s \o t)[i] = t[i - Len(s)]
         /\ Members(s \o t) = Members(s) \union Members(t)
<1> DEFINE m == Len(s)
           n == Len(t)
           u == s \o t
<1>1. /\ u \in Seq(S) /\ m \in Nat /\ n \in Nat /\ Len(u) = m + n
      /\ \A i \in 1 .. m + n :
           IF i <= m THEN i \in 1 .. m /\ u[i] = s[i] ELSE i - m \in 1 .. n /\ u[i] = t[i - m]
  OBVIOUS
<1> HIDE DEF m, n, u
<1>2. ASSUME NEW e \in Members(u) PROVE e \in Members(s) \union Members(t)
  <2>1. PICK i \in 1 .. m + n : e = u[i]
    BY <1>1 DEF Members
  <2>2. CASE i <= m
    BY <2>1, <2>2, <1>1 DEF Members, m
  <2>3. CASE ~(i <= m)
    BY <2>1, <2>3, <1>1 DEF Members, n
  <2> QED
    BY <2>2, <2>3
<1>3. ASSUME NEW e \in Members(s) PROVE e \in Members(u)
  <2>1. PICK i \in 1 .. m : e = s[i]
    BY DEF Members, m
  <2>2. i \in 1 .. m + n /\ i <= m
    BY <1>1
  <2> QED
    BY <2>1, <2>2, <1>1 DEF Members
<1>4. ASSUME NEW e \in Members(t) PROVE e \in Members(u)
  <2>1. PICK i \in 1 .. n : e = t[i]
    BY DEF Members, n
  <2>2. i + m \in 1 .. m + n /\ ~(i + m <= m) /\ (i + m) - m = i
    BY <1>1
  <2>3. u[i + m] = t[i]
    BY <2>2, <1>1
  <2> QED
    BY <2>1, <2>2, <2>3, <1>1 DEF Members
<1> QED
  BY <1>1, <1>2, <1>3, <1>4 DEF m, n, u

(* What entries hold is what each of them holds. *)
LEMMA EntriesAre ==
  ASSUME NEW s
  PROVE  /\ ExtentsIn(s) = {e.run : e \in {x \in Members(s) : x.kind = "extent"}}
         /\ NamedIn(s) = {e.block : e \in {x \in Members(s) : x.kind = "index"}}
BY DEF ExtentsIn, NamedIn, Members

(* The first entry is taken off. *)
LEMMA EntriesTail ==
  ASSUME NEW S, NEW s \in Seq(S), s # <<>>
  PROVE  /\ Head(s).kind = "extent" =>
              /\ ExtentsIn(s) = {Head(s).run} \union ExtentsIn(Tail(s))
              /\ NamedIn(s) = NamedIn(Tail(s))
         /\ Head(s).kind = "index" =>
              /\ ExtentsIn(s) = ExtentsIn(Tail(s))
              /\ NamedIn(s) = {Head(s).block} \union NamedIn(Tail(s))
<1>1. Members(s) = {Head(s)} \union Members(Tail(s))
  BY TailIs
<1> DEFINE h == Head(s)
           t == Tail(s)
           Xs(A) == {e.run : e \in {x \in A : x.kind = "extent"}}
           Ns(A) == {e.block : e \in {x \in A : x.kind = "index"}}
<1>2. /\ ExtentsIn(s) = Xs(Members(s)) /\ ExtentsIn(t) = Xs(Members(t))
      /\ NamedIn(s) = Ns(Members(s)) /\ NamedIn(t) = Ns(Members(t))
  BY EntriesAre
<1> DEFINE A == Members(s)
           B == Members(t)
<1>3. A = {h} \union B
  BY <1>1
<1> HIDE DEF h, t, A, B
<1>4. h.kind = "extent" => Xs(A) = {h.run} \union Xs(B) /\ Ns(A) = Ns(B)
  BY <1>3
<1>5. h.kind = "index" => Xs(A) = Xs(B) /\ Ns(A) = {h.block} \union Ns(B)
  BY <1>3
<1> HIDE DEF Xs, Ns
<1> QED
  BY <1>2, <1>4, <1>5 DEF h, t, A, B

(* What two sequences in a row hold *)
LEMMA EntriesConcat ==
  ASSUME NEW S, NEW s \in Seq(S), NEW t \in Seq(S)
  PROVE  /\ ExtentsIn(s \o t) = ExtentsIn(s) \union ExtentsIn(t)
         /\ NamedIn(s \o t) = NamedIn(s) \union NamedIn(t)
<1>1. Members(s \o t) = Members(s) \union Members(t)
  BY ConcatIs
<1> DEFINE u == s \o t
<1> HIDE DEF u
<1> QED
  BY <1>1, EntriesAre DEF u

-----------------------------------------------------------------------------
(* Entries whose marks are numbers *)
Marked(s, from, to) ==
  \A i \in 1 .. Len(s) : StartOf(s[i], from) \in Nat /\ BehindOf(s[i], to) \in Nat

(* The entries behind the first are about the blocks behind it. *)
LEMMA TailInOrder ==
  ASSUME NEW S, NEW s \in Seq(S), s # <<>>, NEW from, NEW to, NEW x \in Nat, NEW y \in Nat,
         Marked(s, from, to), InOrder(s, from, to, x, y)
  PROVE  /\ x <= StartOf(Head(s), from)
         /\ StartOf(Head(s), from) <= BehindOf(Head(s), to)
         /\ BehindOf(Head(s), to) <= y
         /\ StartOf(Head(s), from) \in Nat /\ BehindOf(Head(s), to) \in Nat
         /\ Marked(Tail(s), from, to)
         /\ InOrder(Tail(s), from, to, BehindOf(Head(s), to), y)
<1> DEFINE n == Len(s)
           t == Tail(s)
<1>1. /\ Head(s) = s[1] /\ 1 \in 1 .. n /\ n \in Nat /\ Len(t) = n - 1
      /\ \A i \in 1 .. n - 1 : i + 1 \in 1 .. n /\ t[i] = s[i + 1]
  BY TailIs
<1>2. /\ \A i \in 1 .. n : /\ StartOf(s[i], from) \in Nat /\ BehindOf(s[i], to) \in Nat
                           /\ x <= StartOf(s[i], from)
                           /\ StartOf(s[i], from) <= BehindOf(s[i], to)
                           /\ BehindOf(s[i], to) <= y
      /\ \A i, j \in 1 .. n : i < j => BehindOf(s[i], to) <= StartOf(s[j], from)
  BY DEF Marked, InOrder
<1> HIDE DEF n, t
<1>3. Marked(t, from, to)
  BY <1>1, <1>2 DEF Marked
<1>4. ASSUME NEW i \in 1 .. n - 1
      PROVE  /\ BehindOf(s[1], to) <= StartOf(t[i], from)
             /\ StartOf(t[i], from) <= BehindOf(t[i], to)
             /\ BehindOf(t[i], to) <= y
  <2>1. i + 1 \in 1 .. n /\ t[i] = s[i + 1] /\ 1 < i + 1
    BY <1>1
  <2> QED
    BY <2>1, <1>1, <1>2
<1>5. ASSUME NEW i \in 1 .. n - 1, NEW j \in 1 .. n - 1, i < j
      PROVE  BehindOf(t[i], to) <= StartOf(t[j], from)
  <2>1. i + 1 \in 1 .. n /\ t[i] = s[i + 1] /\ j + 1 \in 1 .. n /\ t[j] = s[j + 1] /\ i + 1 < j + 1
    BY <1>1, <1>5
  <2> QED
    BY <2>1, <1>2
<1>6. InOrder(t, from, to, BehindOf(s[1], to), y)
  BY <1>1, <1>4, <1>5 DEF InOrder
<1> QED
  BY <1>1, <1>2, <1>3, <1>6 DEF t

(* Entries about blocks and others about those behind them *)
LEMMA ConcatInOrder ==
  ASSUME NEW S, NEW s \in Seq(S), NEW t \in Seq(S), NEW from, NEW to,
         NEW x \in Nat, NEW a \in Nat, NEW b \in Nat, NEW y \in Nat, x <= a, a <= b, b <= y,
         Marked(s, from, to), InOrder(s, from, to, a, b),
         Marked(t, from, to), InOrder(t, from, to, b, y)
  PROVE  Marked(s \o t, from, to) /\ InOrder(s \o t, from, to, x, y)
<1> DEFINE m == Len(s)
           n == Len(t)
           u == s \o t
           Starts(e) == StartOf(e, from)
           Ends(e) == BehindOf(e, to)
<1>1. /\ m \in Nat /\ n \in Nat /\ Len(u) = m + n
      /\ \A i \in 1 .. m + n :
           IF i <= m THEN i \in 1 .. m /\ u[i] = s[i] ELSE i - m \in 1 .. n /\ u[i] = t[i - m]
  BY ConcatIs
<1> HIDE DEF u
<1>2. /\ \A i \in 1 .. m : /\ Starts(s[i]) \in Nat /\ Ends(s[i]) \in Nat
                           /\ a <= Starts(s[i]) /\ Starts(s[i]) <= Ends(s[i]) /\ Ends(s[i]) <= b
      /\ \A i, j \in 1 .. m : i < j => Ends(s[i]) <= Starts(s[j])
  BY DEF Marked, InOrder
<1>3. /\ \A i \in 1 .. n : /\ Starts(t[i]) \in Nat /\ Ends(t[i]) \in Nat
                           /\ b <= Starts(t[i]) /\ Starts(t[i]) <= Ends(t[i]) /\ Ends(t[i]) <= y
      /\ \A i, j \in 1 .. n : i < j => Ends(t[i]) <= Starts(t[j])
  BY DEF Marked, InOrder
<1> HIDE DEF m, n, Starts, Ends
<1>4. ASSUME NEW i \in 1 .. m + n
      PROVE  /\ Starts(u[i]) \in Nat /\ Ends(u[i]) \in Nat
             /\ x <= Starts(u[i]) /\ Starts(u[i]) <= Ends(u[i]) /\ Ends(u[i]) <= y
  <2>1. CASE i <= m
    <3>1. i \in 1 .. m /\ u[i] = s[i]
      BY <2>1, <1>1
    <3> QED
      BY <3>1, <1>2
  <2>2. CASE ~(i <= m)
    <3>1. i - m \in 1 .. n /\ u[i] = t[i - m]
      BY <2>2, <1>1
    <3> QED
      BY <3>1, <1>3
  <2> QED
    BY <2>1, <2>2
<1>5. ASSUME NEW i \in 1 .. m + n, NEW j \in 1 .. m + n, i < j
      PROVE  Ends(u[i]) <= Starts(u[j])
  <2>1. CASE j <= m
    <3>1. i \in 1 .. m /\ u[i] = s[i] /\ j \in 1 .. m /\ u[j] = s[j]
      BY <2>1, <1>1, <1>5
    <3> QED
      BY <3>1, <1>2, <1>5
  <2>2. CASE ~(i <= m)
    <3>1. i - m \in 1 .. n /\ u[i] = t[i - m] /\ j - m \in 1 .. n /\ u[j] = t[j - m] /\ i - m < j - m
      <4>1. ~(j <= m)
        BY <2>2, <1>1, <1>5
      <4>2. i - m \in 1 .. n /\ u[i] = t[i - m] /\ j - m \in 1 .. n /\ u[j] = t[j - m]
        BY <4>1, <2>2, <1>1
      <4>3. i - m < j - m
        BY <1>1, <1>5
      <4> QED
        BY <4>2, <4>3
    <3> QED
      BY <3>1, <1>3
  <2>3. CASE i <= m /\ ~(j <= m)
    <3>1. i \in 1 .. m /\ u[i] = s[i] /\ j - m \in 1 .. n /\ u[j] = t[j - m]
      BY <2>3, <1>1
    <3> QED
      BY <3>1, <1>2, <1>3
  <2> QED
    BY <2>1, <2>2, <2>3, <1>5, <1>1
<1> QED
  BY <1>1, <1>4, <1>5 DEF Marked, InOrder, Starts, Ends, u

-----------------------------------------------------------------------------
(* The operators of the runs are the same. *)
LEMMA SameRuns ==
  /\ \A s : BlockMap(s) = BlockMap(s)
  /\ \A s : Sequential(s) <=> Sequential(s)
  /\ SetRun(<<>>) = NoRuns
<1>1. \A r, k : Address(r, k) = Address(r, k)
  BY DEF Address, Address
<1>2. \A s : BlockMap(s) = BlockMap(s)
  BY <1>1 DEF BlockMap, BlockMap
<1>3. \A s : ListEnd(s) = ListEnd(s)
  BY DEF ListEnd, ListEnd, RunEnd, RunEnd, Last, Last
<1>4. \A s : Sequential(s) <=> Sequential(s)
  BY <1>3 DEF Sequential, Sequential
<1>5. SetRun(<<>>) = NoRuns
  BY DEF SetRun, NoRuns, NoRuns
<1> QED
  BY <1>2, <1>4, <1>5

(* Every tree is one that a file system may have. *)
AllTreesOk == \A t \in Trees : TreeOk(t)

(* The marks of the blocks of a tree *)
Marking(t, from, to) ==
  /\ from \in [DOMAIN t.blocks -> Nat] /\ to \in [DOMAIN t.blocks -> Nat]
  /\ Between(t, from, to)

(* An entry is an extent or names a block. *)
LEMMA EntryIs ==
  ASSUME NEW t, NEW e \in Entry(t)
  PROVE  \/ e.kind = "extent" /\ e.run \in FileRun
         \/ e.kind = "index" /\ e.block \in DOMAIN t.blocks
BY DEF Entry, FileRun

(* The extents of entries are runs of the file. *)
LEMMA ExtentsAre ==
  ASSUME NEW t, NEW s \in Seq(Entry(t))
  PROVE  ExtentsIn(s) \subseteq FileRun
<1> SUFFICES ASSUME NEW r \in ExtentsIn(s) PROVE r \in FileRun
  OBVIOUS
<1>1. PICK i \in 1 .. Len(s) : s[i].kind = "extent" /\ r = s[i].run
  BY DEF ExtentsIn
<1>2. s[i] \in Entry(t)
  OBVIOUS
<1>3. s[i].kind = "extent" /\ s[i].run \in FileRun
  BY <1>1, <1>2, EntryIs
<1> QED
  BY <1>1, <1>3

(* The blocks of a tree that is well-formed have marks. *)
LEMMA MarkingIs ==
  ASSUME NEW t, TreeOk(t)
  PROVE  \E from, to : Marking(t, from, to)
<1>1. ExtentsOf(t) \subseteq FileRun
  BY ExtentsAre DEF TreeOk, ExtentsOf
<1>2. \A r \in FileRun : r.offset \in Nat /\ r.offset + r.len \in Nat
  <2> SUFFICES ASSUME NEW r \in FileRun PROVE r.offset \in Nat /\ r.len \in Nat
    OBVIOUS
  <2> QED
    BY DEF FileRun
<1>3. Marks(t) \subseteq Nat
  <2>1. \A r \in ExtentsOf(t) : r.offset \in Nat /\ r.offset + r.len \in Nat
    BY <1>1, <1>2
  <2> QED
    BY <2>1 DEF Marks
<1>4. PICK from \in [DOMAIN t.blocks -> Marks(t)], to \in [DOMAIN t.blocks -> Marks(t)] :
        Between(t, from, to)
  BY DEF TreeOk
<1>5. from \in [DOMAIN t.blocks -> Nat] /\ to \in [DOMAIN t.blocks -> Nat]
  BY <1>3
<1> QED
  BY <1>4, <1>5 DEF Marking

(* The marks of entries are numbers. *)
LEMMA MarkedAll ==
  ASSUME NEW t, NEW s \in Seq(Entry(t)), NEW from, NEW to, Marking(t, from, to)
  PROVE  Marked(s, from, to)
<1> SUFFICES ASSUME NEW i \in 1 .. Len(s)
             PROVE  StartOf(s[i], from) \in Nat /\ BehindOf(s[i], to) \in Nat
  BY DEF Marked
<1> DEFINE e == s[i]
<1>1. e \in Entry(t)
  OBVIOUS
<1> HIDE DEF e
<1>2. CASE e.kind = "extent" /\ e.run \in FileRun
  <2>1. e.run.offset \in Nat /\ e.run.len \in Nat
    BY <1>2 DEF FileRun
  <2> QED
    BY <1>2, <2>1 DEF StartOf, BehindOf, e
<1>3. CASE e.kind = "index" /\ e.block \in DOMAIN t.blocks
  <2>1. from[e.block] \in Nat /\ to[e.block] \in Nat
    BY <1>3 DEF Marking
  <2> QED
    BY <1>3, <2>1 DEF StartOf, BehindOf, e
<1> QED
  BY <1>1, <1>2, <1>3, EntryIs

-----------------------------------------------------------------------------
(* What is still to be visited is behind what has been loaded.             *)
Ahead(t, d, s) ==
  \E from, to : Marking(t, from, to) /\ InOrder(s, from, to, Upto(0, d), Width - 1)

(* The data runs say what the extents in D say; D and those to be visited  *)
(* are the extents in the inode and in the blocks V that have been visited,*)
(* and what these name is in V or to be visited.                           *)
Visited(t, d, s, V, D) ==
  /\ BlockMap(d) = UNION {BlockMap(<<r>>) : r \in D}
  /\ D \union ExtentsIn(s) =
       ExtentsIn(t.inode) \union UNION {ExtentsIn(t.blocks[b]) : b \in V}
  /\ NamedIn(t.inode) \union UNION {NamedIn(t.blocks[b]) : b \in V} =
       V \union NamedIn(s)

(* A load that has got as far as s *)
LoadedTo(t, d, s) ==
  /\ LoadedList(d)
  /\ s \in Seq(Entry(t))
  /\ Ahead(t, d.run, s)
  /\ \E V, D : V \in SUBSET DOMAIN t.blocks /\ Visited(t, d.run, s, V, D)

(* What holds of a load, whenever it was begun *)
LoadInv ==
  /\ tree \in Trees
  /\ state \in {"empty", "loading", "studied", "failed"}
  /\ state \in {"loading", "studied"} => LoadedTo(tree, data, todo)
  /\ state = "studied" => todo = <<>>

(* A new load has everything before it. *)
LEMMA LoadStarts ==
  ASSUME NEW t, TreeOk(t)
  PROVE  LoadedTo(t, NoRuns, t.inode)
<1> DEFINE d == NoRuns
<1>1. d.run = <<>> /\ d.end = 0
  BY DEF NoRuns
<1>2. Width \in Nat /\ Width > 0
  BY WidthIs
<1>3. LoadedList(d) /\ Upto(0, d.run) = 0
  <2>1. Upto(0, <<>>) = 0
    BY DEF Upto
  <2>2. Follows(0, <<>>) /\ Len(<<>>) = 0
    BY DEF Follows
  <2> QED
    BY <1>1, <1>2, <2>1, <2>2 DEF LoadedList, ListIs
<1>4. Ahead(t, d.run, t.inode)
  <2>1. PICK from, to : Marking(t, from, to)
    BY MarkingIs
  <2> QED
    BY <2>1, <1>3 DEF Ahead, Marking, Between
<1>5. Visited(t, d.run, t.inode, {}, {})
  <2>1. BlockMap(d.run) = {}
    BY <1>1, MapOfNothing
  <2> QED
    BY <2>1 DEF Visited
<1> QED
  BY <1>3, <1>4, <1>5 DEF LoadedTo, TreeOk

(* An extent that has been added is loaded. *)
LEMMA LoadExtent ==
  ASSUME NEW t, TreeOk(t), NEW d, NEW s, LoadedTo(t, d, s), s # <<>>, Head(s).kind = "extent",
         NEW q \in AddResults(d, <<Head(s).run>>)
  PROVE  /\ q.ret \in {"ok", "no memory"}
         /\ q.ret = "ok" => LoadedTo(t, q.list, Tail(s))
<1> DEFINE r == Head(s).run
<1>1. s \in Seq(Entry(t)) /\ LoadedList(d)
  BY DEF LoadedTo
<1>2. r \in FileRun /\ Tail(s) \in Seq(Entry(t))
  <2>1. s[1] \in Entry(t) /\ Head(s) = s[1] /\ Tail(s) \in Seq(Entry(t))
    BY <1>1, TailIs
  <2> QED
    BY <2>1, EntryIs
<1>3. PICK from, to : Marking(t, from, to) /\ InOrder(s, from, to, Upto(0, d.run), Width - 1)
  BY DEF LoadedTo, Ahead
<1>4. Upto(0, d.run) \in Nat /\ Width - 1 \in Nat
  BY <1>1, FollowsRuns, WidthIs DEF LoadedList, ListIs
<1>5. Marked(s, from, to)
  BY <1>1, <1>3, MarkedAll
<1>6. /\ Upto(0, d.run) <= StartOf(Head(s), from)
      /\ BehindOf(Head(s), to) <= Width - 1
      /\ InOrder(Tail(s), from, to, BehindOf(Head(s), to), Width - 1)
  BY <1>1, <1>3, <1>4, <1>5, TailInOrder
<1>7. StartOf(Head(s), from) = r.offset /\ BehindOf(Head(s), to) = r.offset + r.len
  BY DEF StartOf, BehindOf
<1>8. r.offset \in Nat /\ r.len \in Nat
  BY <1>2 DEF FileRun
<1>9. Upto(0, d.run) <= r.offset /\ r.offset + r.len < Width
  BY <1>4, <1>6, <1>7, <1>8, WidthIs
<1>10. /\ q.ret \in {"ok", "no memory"}
       /\ q.ret = "ok" =>
            /\ LoadedList(q.list) /\ Upto(0, q.list.run) = r.offset + r.len
            /\ BlockMap(q.list.run) = BlockMap(d.run) \union BlockMap(<<r>>)
  <2> HIDE DEF r
  <2>1. q \in AddResults(d, <<r>>)
    BY DEF r
  <2> QED
    BY <1>1, <1>2, <1>9, <2>1, RunBehind
<1>11. PICK V, D : V \in SUBSET DOMAIN t.blocks /\ Visited(t, d.run, s, V, D)
  BY DEF LoadedTo
<1>12. /\ ExtentsIn(s) = {r} \union ExtentsIn(Tail(s))
       /\ NamedIn(s) = NamedIn(Tail(s))
  BY <1>1, EntriesTail
<1>13. ASSUME q.ret = "ok" PROVE Visited(t, q.list.run, Tail(s), V, D \union {r})
  <2>1. BlockMap(q.list.run) = UNION {BlockMap(<<c>>) : c \in D \union {r}}
    <3>1. BlockMap(q.list.run) = (UNION {BlockMap(<<c>>) : c \in D}) \union BlockMap(<<r>>)
      BY <1>10, <1>11, <1>13 DEF Visited
    <3> HIDE DEF r
    <3> QED
      BY <3>1
  <2> HIDE DEF r
  <2> QED
    BY <2>1, <1>11, <1>12 DEF Visited
<1>14. ASSUME q.ret = "ok" PROVE Ahead(t, q.list.run, Tail(s))
  BY <1>3, <1>6, <1>7, <1>10, <1>14 DEF Ahead
<1> QED
  BY <1>2, <1>10, <1>11, <1>13, <1>14 DEF LoadedTo

(* A block is entered: its entries come first. *)
LEMMA LoadBlock ==
  ASSUME NEW t, TreeOk(t), NEW d, NEW s, LoadedTo(t, d, s), s # <<>>, Head(s).kind = "index"
  PROVE  /\ Head(s).block \in DOMAIN t.blocks
         /\ LoadedTo(t, d, t.blocks[Head(s).block] \o Tail(s))
<1> DEFINE c == Head(s).block
           u == t.blocks[c]
           x == Upto(0, d.run)
<1>1. s \in Seq(Entry(t)) /\ LoadedList(d)
  BY DEF LoadedTo
<1>2. c \in DOMAIN t.blocks /\ Tail(s) \in Seq(Entry(t))
  <2>1. s[1] \in Entry(t) /\ Head(s) = s[1] /\ Tail(s) \in Seq(Entry(t))
    BY <1>1, TailIs
  <2> QED
    BY <2>1, EntryIs
<1>3. u \in Seq(Entry(t))
  BY <1>2 DEF TreeOk
<1>4. PICK from, to : Marking(t, from, to) /\ InOrder(s, from, to, x, Width - 1)
  BY DEF LoadedTo, Ahead
<1>5. x \in Nat /\ Width - 1 \in Nat
  BY <1>1, FollowsRuns, WidthIs DEF LoadedList, ListIs
<1>6. Marked(s, from, to) /\ Marked(u, from, to)
  BY <1>1, <1>3, <1>4, MarkedAll
<1>7. StartOf(Head(s), from) = from[c] /\ BehindOf(Head(s), to) = to[c]
  BY DEF StartOf, BehindOf
<1>8. /\ x <= from[c] /\ from[c] <= to[c] /\ to[c] <= Width - 1
      /\ from[c] \in Nat /\ to[c] \in Nat
      /\ Marked(Tail(s), from, to) /\ InOrder(Tail(s), from, to, to[c], Width - 1)
  <2> HIDE DEF c, x
  <2> QED
    BY <1>1, <1>4, <1>5, <1>6, <1>7, TailInOrder
<1>9. InOrder(u, from, to, from[c], to[c])
  BY <1>2, <1>4 DEF Marking, Between
<1>10. PICK V, D : V \in SUBSET DOMAIN t.blocks /\ Visited(t, d.run, s, V, D)
  BY DEF LoadedTo
<1>11. /\ ExtentsIn(s) = ExtentsIn(Tail(s))
       /\ NamedIn(s) = {c} \union NamedIn(Tail(s))
  BY <1>1, EntriesTail
<1> HIDE DEF u, x
<1>12. /\ ExtentsIn(u \o Tail(s)) = ExtentsIn(u) \union ExtentsIn(Tail(s))
       /\ NamedIn(u \o Tail(s)) = NamedIn(u) \union NamedIn(Tail(s))
  <2> DEFINE S == Entry(t)
             v == Tail(s)
  <2>1. u \in Seq(S) /\ v \in Seq(S)
    BY <1>2, <1>3
  <2> HIDE DEF S, v
  <2>2. /\ ExtentsIn(u \o v) = ExtentsIn(u) \union ExtentsIn(v)
        /\ NamedIn(u \o v) = NamedIn(u) \union NamedIn(v)
    BY ONLY <2>1, EntriesConcat
  <2> QED
    BY <2>2 DEF v
<1>13. u \o Tail(s) \in Seq(Entry(t))
  BY <1>2, <1>3, ConcatIs
<1>14. InOrder(u \o Tail(s), from, to, x, Width - 1)
  <2> HIDE DEF c
  <2> DEFINE a == from[c]
             b == to[c]
             y == Width - 1
             v == Tail(s)
  <2>1. /\ x \in Nat /\ a \in Nat /\ b \in Nat /\ y \in Nat /\ x <= a /\ a <= b /\ b <= y
        /\ Marked(u, from, to) /\ InOrder(u, from, to, a, b)
        /\ Marked(v, from, to) /\ InOrder(v, from, to, b, y)
        /\ u \in Seq(Entry(t)) /\ v \in Seq(Entry(t))
    BY <1>2, <1>3, <1>5, <1>6, <1>8, <1>9
  <2> HIDE DEF a, b, y, v
  <2>2. InOrder(u \o v, from, to, x, y)
    BY ONLY <2>1, ConcatInOrder
  <2> QED
    BY <2>2 DEF y, v
<1>15. Ahead(t, d.run, u \o Tail(s))
  BY <1>4, <1>14 DEF Ahead, x
<1>16. Visited(t, d.run, u \o Tail(s), V \union {c}, D)
  <2> DEFINE Xs(A) == UNION {ExtentsIn(t.blocks[b]) : b \in A}
             Ns(A) == UNION {NamedIn(t.blocks[b]) : b \in A}
  <2>1. Xs(V \union {c}) = Xs(V) \union ExtentsIn(u)
    BY DEF u
  <2>2. Ns(V \union {c}) = Ns(V) \union NamedIn(u)
    BY DEF u
  <2>3. /\ BlockMap(d.run) = UNION {BlockMap(<<r>>) : r \in D}
        /\ D \union ExtentsIn(s) = ExtentsIn(t.inode) \union Xs(V)
        /\ NamedIn(t.inode) \union Ns(V) = V \union NamedIn(s)
    BY <1>10 DEF Visited
  <2> HIDE DEF Xs, Ns, c
  <2>4. D \union ExtentsIn(u \o Tail(s)) = ExtentsIn(t.inode) \union Xs(V \union {c})
    BY <2>1, <2>3, <1>11, <1>12
  <2>5. NamedIn(t.inode) \union Ns(V \union {c}) = V \union {c} \union NamedIn(u \o Tail(s))
    BY <2>2, <2>3, <1>11, <1>12
  <2> QED
    BY <2>3, <2>4, <2>5 DEF Visited, Xs, Ns
<1>17. V \union {c} \in SUBSET DOMAIN t.blocks
  BY <1>2, <1>10
<1>18. LoadedTo(t, d, u \o Tail(s))
  <2> DEFINE w == u \o Tail(s)
             W == V \union {c}
  <2>1. /\ LoadedList(d) /\ w \in Seq(Entry(t)) /\ Ahead(t, d.run, w)
        /\ W \in SUBSET DOMAIN t.blocks /\ Visited(t, d.run, w, W, D)
    BY <1>1, <1>13, <1>15, <1>16, <1>17
  <2> HIDE DEF w, W
  <2>2. LoadedTo(t, d, w)
    BY ONLY <2>1 DEF LoadedTo
  <2> QED
    BY <2>2 DEF w
<1> QED
  BY <1>2, <1>18 DEF u

-----------------------------------------------------------------------------
(* It holds at first. *)
LEMMA LoadInvInit == TreeInit => LoadInv
BY DEF TreeInit, LoadInv

(* It is kept by every step. *)
LEMMA LoadInvStep == AllTreesOk /\ LoadInv /\ [TreeNext]_treeVars => LoadInv'
<1> SUFFICES ASSUME AllTreesOk, LoadInv, [TreeNext]_treeVars PROVE LoadInv'
  OBVIOUS
<1>1. TreeOk(tree) /\ tree \in Trees
  BY DEF AllTreesOk, LoadInv
<1>2. CASE Load
  <2>1. data' = NoRuns /\ todo' = tree.inode /\ tree' = tree /\ state' = "loading"
    BY <1>2, SameRuns DEF Load, Fresh
  <2>2. LoadedTo(tree', data', todo')
    BY <1>1, <2>1, LoadStarts
  <2> QED
    BY <1>1, <2>1, <2>2 DEF LoadInv
<1>3. CASE MakeRunExtent
  <2>1. /\ state = "loading" /\ todo # <<>> /\ Head(todo).kind = "extent" /\ tree' = tree
    BY <1>3 DEF MakeRunExtent
  <2>2. PICK r \in AddResults(data, <<Head(todo).run>>) :
          /\ data' = r.list
          /\ \/ r.ret = "ok" /\ todo' = Tail(todo) /\ UNCHANGED <<state, why>>
             \/ r.ret # "ok" /\ Fail(r.ret)
    BY <1>3 DEF MakeRunExtent
  <2>3. LoadedTo(tree, data, todo)
    BY <2>1 DEF LoadInv
  <2>4. r.ret = "ok" => LoadedTo(tree, r.list, Tail(todo))
    BY <1>1, <2>1, <2>2, <2>3, LoadExtent
  <2>5. CASE r.ret = "ok"
    BY <1>1, <2>1, <2>2, <2>4, <2>5 DEF LoadInv
  <2>6. CASE r.ret # "ok"
    <3>1. state' = "failed"
      BY <2>2, <2>6 DEF Fail
    <3> QED
      BY <1>1, <2>1, <3>1 DEF LoadInv
  <2> QED
    BY <2>5, <2>6
<1>4. CASE MakeRunIndex
  <2>1. /\ state = "loading" /\ todo # <<>> /\ Head(todo).kind = "index"
        /\ tree' = tree /\ data' = data
    BY <1>4 DEF MakeRunIndex
  <2>2. \/ todo' = EntriesFirst(Head(todo).block) /\ state' = state
        \/ state' = "failed"
    BY <1>4 DEF MakeRunIndex, Fail
  <2>3. LoadedTo(tree, data, todo)
    BY <2>1 DEF LoadInv
  <2>4. LoadedTo(tree, data, EntriesFirst(Head(todo).block))
    BY <1>1, <2>1, <2>3, LoadBlock DEF EntriesFirst
  <2> QED
    BY <1>1, <2>1, <2>2, <2>4 DEF LoadInv
<1>5. CASE Studied
  BY <1>5 DEF Studied, LoadInv
<1>6. CASE UNCHANGED treeVars
  BY <1>6 DEF treeVars, LoadInv
<1> QED
  BY <1>2, <1>3, <1>4, <1>5, <1>6 DEF TreeNext

(* ext2fs.c:1405: as far as a tree has been visited its extents are in the *)
(* data attribute, and what is still to be visited is behind them; a load  *)
(* that failed leaves nothing to the next one.                             *)
THEOREM LoadInvariance == AllTreesOk => (TreeSpec => []LoadInv)
<1> SUFFICES ASSUME AllTreesOk PROVE TreeSpec => []LoadInv
  OBVIOUS
<1>1. LoadInv /\ [TreeNext]_treeVars => LoadInv'
  BY LoadInvStep
<1> QED
  BY <1>1, LoadInvInit, PTL DEF TreeSpec

(* When a load has ended well, every block of the tree has been visited,   *)
(* since each is named by one that has been.                               *)
LEMMA LoadedIsTree ==
  ASSUME NEW t, TreeOk(t), NEW d, LoadedTo(t, d, <<>>)
  PROVE  /\ Sequential(d.run)
         /\ BlockMap(d.run) = UNION {BlockMap(<<r>>) : r \in ExtentsOf(t)}
<1>1. Sequential(d.run)
  BY ListSequential DEF LoadedTo, LoadedList
<1>2. PICK V, D : V \in SUBSET DOMAIN t.blocks /\ Visited(t, d.run, <<>>, V, D)
  BY DEF LoadedTo
<1>3. ExtentsIn(<<>>) = {} /\ NamedIn(<<>>) = {}
  BY DEF ExtentsIn, NamedIn
<1>4. V = DOMAIN t.blocks
  <2>1. NamedIn(t.inode) \union UNION {NamedIn(t.blocks[b]) : b \in V} = V
    BY <1>2, <1>3 DEF Visited
  <2>2. Connected(t)
    BY DEF TreeOk
  <2>3. V \in SUBSET DOMAIN t.blocks
    BY <1>2
  <2> QED
    BY ONLY <2>1, <2>2, <2>3 DEF Connected
<1>5. D = ExtentsOf(t)
  BY <1>2, <1>3, <1>4 DEF Visited, ExtentsOf
<1> QED
  BY <1>1, <1>2, <1>5 DEF Visited

(* tsk_fs.h:160 "must be stored in sequential order": after a load that    *)
(* ended well the data runs are the extents of the tree, each at its       *)
(* place, with fillers for the holes and nothing overlapping, for trees    *)
(* with any number of blocks and extents.                                  *)
THEOREM LoadedDataAreTheExtents == AllTreesOk => (TreeSpec => []DataIsAllExtents)
<1> SUFFICES ASSUME AllTreesOk PROVE TreeSpec => []DataIsAllExtents
  OBVIOUS
<1>1. LoadInv => DataIsAllExtents
  <2> SUFFICES ASSUME LoadInv, state = "studied"
               PROVE  /\ Sequential(data.run)
                      /\ BlockMap(data.run) = UNION {BlockMap(<<r>>) : r \in AllExtents}
    BY DEF DataIsAllExtents
  <2>1. TreeOk(tree) /\ LoadedTo(tree, data, <<>>)
    BY DEF AllTreesOk, LoadInv
  <2>2. /\ Sequential(data.run)
        /\ BlockMap(data.run) = UNION {BlockMap(<<r>>) : r \in ExtentsOf(tree)}
    BY <2>1, LoadedIsTree
  <2> QED
    BY <2>2, SameRuns DEF AllExtents
<1> QED
  BY <1>1, LoadInvariance, PTL

-----------------------------------------------------------------------------
(* The runs of the tree's own blocks: all of the only block there is       *)
IndexOk(l) ==
  /\ l.run \in Seq({IndexRun(b) : b \in DOMAIN tree.blocks})
  /\ l.end = Len(l.run)

(* What makes loading a tree of one block go on *)
BlockInv ==
  /\ state = "loading" => IndexOk(index)
  /\ why \notin {"beyond", "no filler"}

(* The run of a block that has one already looks like it, and is not added *)
(* again.                                                                  *)
LEMMA IndexAdded ==
  ASSUME OneBlock(tree), NEW l, IndexOk(l), NEW b \in DOMAIN tree.blocks,
         NEW q \in AddResults(l, <<IndexRun(b)>>)
  PROVE  q.ret = "ok" /\ IndexOk(q.list)
<1> DEFINE S == {IndexRun(c) : c \in DOMAIN tree.blocks}
           r == IndexRun(b)
           new == <<r>>
           n == Len(l.run)
           stops == {i \in 1 .. n : StopsAt(l, i, new)}
<1>1. r \in S /\ \A s \in S : s = r
  BY DEF OneBlock
<1>2. r.offset = 0 /\ r.len = FsBlockSize /\ r.filler = FALSE /\ new[1] = r
  BY DEF IndexRun
<1>3. l.run \in Seq(S) /\ n \in Nat /\ l.end = n /\ \A i \in 1 .. n : l.run[i] \in S
  BY DEF IndexOk
<1> HIDE DEF S, r
<1>4. new \in Seq(S)
  BY <1>1
<1>5. ASSUME NEW s \in Seq(S) PROVE IndexOk([run |-> s, end |-> Len(s)])
  BY DEF IndexOk, S
<1>6. stops = {}
  BY <1>1, <1>2, <1>3 DEF StopsAt
<1> HIDE DEF stops
<1>7. CASE AtEnd(l, new)
  <2>1. q = Result(AppendedAtEnd(l, new), "ok")
    BY <1>7 DEF AddResults, r, new
  <2>2. SubSeq(l.run, 1, l.end) = l.run
    BY <1>3
  <2> DEFINE s == l.run \o new
  <2>3. s \in Seq(S)
    BY <1>3, <1>4
  <2>4. AppendedAtEnd(l, new) = [run |-> s, end |-> Len(s)]
    BY <2>2 DEF AppendedAtEnd
  <2> HIDE DEF s
  <2> QED
    BY <2>1, <2>3, <2>4, <1>5 DEF Result
<1>8. CASE ~AtEnd(l, new)
  <2>1. q \in TailResults(l, new)
    BY <1>6, <1>8 DEF AddResults, r, new, stops
  <2>2. CASE l.run = <<>>
    <3>1. TailFiller(l, new) = <<>>
      BY <1>2 DEF TailFiller
    <3> DEFINE s == l.run \o <<>> \o new
    <3>2. s \in Seq(S)
      BY <1>3, <1>4
    <3>3. q = Result([run |-> s, end |-> Len(s)], "ok")
      BY <2>1, <2>2, <3>1 DEF TailResults
    <3> HIDE DEF s
    <3> QED
      BY <3>2, <3>3, <1>5 DEF Result
  <2>3. CASE l.run # <<>>
    <3>1. n \in 1 .. n
      BY <2>3, <1>3
    <3>2. l.run[n] = r /\ Last(l.run) = r
      BY <3>1, <1>1, <1>3 DEF Last
    <3>3. IsDuplicate(l, new)
      BY <3>2, <1>2 DEF IsDuplicate
    <3>4. RunEnd(r) \in Nat /\ RunEnd(r) # 0
      <4>1. RunEnd(r) # 0
        BY <3>1, <3>2, <1>2, <1>3, <1>8 DEF AtEnd
      <4>2. RunEnd(r) = (0 + FsBlockSize) % Width
        BY <1>2 DEF RunEnd
      <4>3. (0 + FsBlockSize) \in Nat /\ Width \in Nat /\ Width > 0
        BY WidthIs, FsBlockAssumption
      <4>4. (0 + FsBlockSize) % Width \in Nat
        BY <4>3
      <4> QED
        BY <4>1, <4>2, <4>4
    <3>5. ListEnd(l.run) > new[1].offset
      BY <2>3, <3>2, <3>4, <1>2 DEF ListEnd
    <3>6. q = Result(l, "ok")
      BY <2>1, <2>3, <3>3, <3>5 DEF TailResults
    <3> QED
      BY <3>6 DEF Result
  <2> QED
    BY <2>2, <2>3
<1> QED
  BY <1>7, <1>8

(* BlockInv is kept by every step. *)
LEMMA BlockInvStep ==
  ASSUME AllTreesOk, \A t \in Trees : OneBlock(t), LoadInv, BlockInv, [TreeNext]_treeVars
  PROVE  BlockInv'
<1>1. TreeOk(tree) /\ OneBlock(tree)
  BY DEF AllTreesOk, LoadInv
<1>2. CASE Load
  <2>1. index' = NoRuns /\ why' = "none"
    BY <1>2, SameRuns DEF Load, Fresh
  <2>2. index'.run = <<>> /\ index'.end = 0
    BY <2>1 DEF NoRuns
  <2>3. \A S : <<>> \in Seq(S) /\ Len(<<>>) = 0
    OBVIOUS
  <2>4. IndexOk(index)'
    BY <2>2, <2>3 DEF IndexOk
  <2> QED
    BY <2>1, <2>4 DEF BlockInv
<1>3. CASE MakeRunExtent
  <2>1. /\ state = "loading" /\ todo # <<>> /\ Head(todo).kind = "extent"
        /\ tree' = tree /\ index' = index
    BY <1>3 DEF MakeRunExtent
  <2>2. PICK r \in AddResults(data, <<Head(todo).run>>) :
          \/ r.ret = "ok" /\ UNCHANGED <<state, why>>
          \/ r.ret # "ok" /\ Fail(r.ret)
    BY <1>3 DEF MakeRunExtent
  <2>3. r.ret \in {"ok", "no memory"}
    BY <1>1, <2>1, <2>2, LoadExtent DEF LoadInv
  <2> QED
    BY <2>1, <2>2, <2>3 DEF BlockInv, IndexOk, Fail
<1>4. CASE MakeRunIndex
  <2>1. /\ state = "loading" /\ todo # <<>> /\ Head(todo).kind = "index" /\ tree' = tree
    BY <1>4 DEF MakeRunIndex
  <2>2. Head(todo).block \in DOMAIN tree.blocks
    BY <1>1, <2>1, LoadBlock DEF LoadInv
  <2>3. CASE \E r \in AddResults(index, <<IndexRun(Head(todo).block)>>) :
               /\ index' = r.list
               /\ \/ /\ r.ret = "ok"
                     /\ todo' = EntriesFirst(Head(todo).block)
                     /\ UNCHANGED <<state, why>>
                  \/ r.ret # "ok" /\ Fail(r.ret)
    <3>1. PICK r \in AddResults(index, <<IndexRun(Head(todo).block)>>) :
               /\ index' = r.list
               /\ \/ r.ret = "ok" /\ UNCHANGED <<state, why>>
                  \/ r.ret # "ok" /\ Fail(r.ret)
      BY <2>3
    <3>2. r.ret = "ok" /\ IndexOk(r.list)
      BY <1>1, <2>1, <2>2, <3>1, IndexAdded DEF BlockInv
    <3> QED
      BY <2>1, <3>1, <3>2 DEF BlockInv, IndexOk
  <2>4. CASE Fail("unreadable")
    BY <2>4 DEF Fail, BlockInv
  <2> QED
    BY <1>4, <2>3, <2>4 DEF MakeRunIndex
<1>5. CASE Studied
  BY <1>5 DEF Studied, BlockInv, IndexOk
<1>6. CASE UNCHANGED treeVars
  BY <1>6 DEF treeVars, BlockInv, IndexOk
<1> QED
  BY <1>2, <1>3, <1>4, <1>5, <1>6 DEF TreeNext

(* ext2fs.c:1405 "walk it, and add everything encountered to the           *)
(* appropriate attributes": a tree whose extents fit into one block        *)
(* besides the inode is refused for no other reason than memory or a block *)
(* that cannot be read, whatever failed before.  With a second block this  *)
(* is not so, as the run ext4_two_blocks shows.                            *)
THEOREM OneBlockLoads ==
  AllTreesOk /\ (\A t \in Trees : OneBlock(t)) => (TreeSpec => []ReadableTreeLoads)
<1> SUFFICES ASSUME AllTreesOk, \A t \in Trees : OneBlock(t)
             PROVE  TreeSpec => []ReadableTreeLoads
  OBVIOUS
<1>1. TreeInit => BlockInv
  BY DEF TreeInit, BlockInv
<1>2. LoadInv /\ BlockInv /\ [TreeNext]_treeVars => BlockInv'
  BY BlockInvStep
<1>3. TreeSpec => []LoadInv
  BY LoadInvariance
<1>4. BlockInv => ReadableTreeLoads
  BY DEF BlockInv, ReadableTreeLoads
<1> QED
  BY <1>1, <1>2, <1>3, <1>4, PTL DEF TreeSpec
=============================================================================
