--------------------------- MODULE DosTableProofs ---------------------------
(***************************************************************************)
(* For every disk: the list of volumes is in order and numbered, an open   *)
(* volume system shows every sector of the image, what it calls            *)
(* unallocated is in no partition, and the partitions are those of the     *)
(* tables that nest on the disk, the primary ones whatever happens.        *)
(***************************************************************************)
EXTENDS DosTable, FiniteSetTheorems, WellFoundedInduction, SequenceTheorems, TLAPS

(* A set of natural numbers that is not empty has a least one: what stands *)
(* in for induction (what fails somewhere fails somewhere first).          *)
(* Of the intervals from 0 to the numbers of the set one has none of the   *)
(* others strictly inside it.                                              *)
LEMMA LeastNat ==
  ASSUME NEW T, T \subseteq Nat, T # {}
  PROVE  \E x \in T : \A y \in T : x <= y
<1> DEFINE D == {0 .. x : x \in T}
           R == StrictSubsetOrdering(Nat)
<1>1. IsWellFoundedOn(R, FiniteSubsetsOf(Nat))
  BY FS_StrictSubsetOrderingWellFounded
<1>2. \A x \in Nat : 0 .. x \in FiniteSubsetsOf(Nat)
  <2> TAKE x \in Nat
  <2>1. IsFiniteSet(0 .. x)
    BY FS_Interval
  <2>2. 0 .. x \subseteq Nat
    OBVIOUS
  <2> QED
    BY <2>1, <2>2 DEF FiniteSubsetsOf
<1>3. D \subseteq FiniteSubsetsOf(Nat) /\ D # {}
  BY <1>2
<1>4. PICK d \in D : \A e \in D : ~(<<e, d>> \in R)
  <2> HIDE DEF D, R
  <2> QED
    BY <1>1, <1>3, WFMin
<1>5. PICK x \in T : d = 0 .. x
  OBVIOUS
<1>6. ASSUME NEW y \in T, y < x PROVE FALSE
  <2>1. 0 .. y \subseteq d /\ 0 .. y # d
    BY <1>5, <1>6
  <2>2. <<0 .. y, d>> \in R
    BY <2>1, <1>5 DEF StrictSubsetOrdering
  <2> QED
    BY <1>4, <2>2
<1> QED
  BY <1>6


Volumes == [start : Nat, len : Nat, flag : {"META", "ALLOC", "UNALLOC"}, addr : Nat]

Ordered(list) ==
  \A i, j \in 1 .. Len(list) : i <= j => list[i].start <= list[j].start

Numbered(list) == \A i \in 1 .. Len(list) : list[i].addr = i - 1

Listed(list) == list \in Seq(Volumes) /\ Ordered(list) /\ Numbered(list)

(* The same volume, but for its address *)
Same(v, w) == v.start = w.start /\ v.len = w.len /\ v.flag = w.flag

-----------------------------------------------------------------------------
(* Whoever is before the place starts no later, whoever is there later. *)
LEMMA PlaceIs ==
  ASSUME NEW list \in Seq(Volumes), NEW start \in Nat
  PROVE  /\ Place(list, start) \in 1 .. Len(list) + 1
         /\ \A i \in 1 .. Len(list) : i < Place(list, start) => list[i].start <= start
         /\ Place(list, start) <= Len(list) => list[Place(list, start)].start > start
<1> DEFINE after == {i \in 1 .. Len(list) : list[i].start > start}
<1>1. \A i \in 1 .. Len(list) : list[i].start \in Nat
  <2> TAKE i \in 1 .. Len(list)
  <2>1. list[i] \in Volumes
    OBVIOUS
  <2> QED
    BY <2>1 DEF Volumes
<1>2. Len(list) \in Nat
  OBVIOUS
<1>3. CASE after = {}
  <2>1. Place(list, start) = Len(list) + 1
    BY <1>3 DEF Place
  <2>2. \A i \in 1 .. Len(list) : list[i].start <= start
    BY <1>1, <1>3
  <2> QED
    BY <1>2, <2>1, <2>2
<1>4. CASE after # {}
  <2>1. \E i \in after : \A j \in after : i <= j
    <3>1. after \subseteq Nat
      BY <1>2
    <3> HIDE DEF after
    <3> QED
      BY <1>4, <3>1, LeastNat
  <2>2. Place(list, start) = CHOOSE i \in after : \A j \in after : i <= j
    BY <1>4 DEF Place
  <2>3. Place(list, start) \in after /\ \A j \in after : Place(list, start) <= j
    <3> HIDE DEF after
    <3> QED
      BY <2>1, <2>2
  <2>4. \A i \in 1 .. Len(list) : i < Place(list, start) => list[i].start <= start
    BY <1>1, <2>3
  <2> QED
    BY <1>2, <2>3, <2>4
<1> QED
  BY <1>3, <1>4

(* What tsk_vs_part_add does to the list: the volume is in place i, with   *)
(* its address, and those behind it have moved.                            *)
Grown(list, v, i, new) ==
  /\ new \in Seq(Volumes) /\ Len(new) = Len(list) + 1
  /\ i \in 1 .. Len(list) + 1
  /\ \A k \in 1 .. Len(list) : k < i => new[k] = list[k]
  /\ Same(new[i], v) /\ new[i].addr = i - 1
  /\ \A k \in 1 .. Len(list) :
       k >= i => Same(new[k + 1], list[k]) /\ new[k + 1].addr = k

LEMMA PartAddIs ==
  ASSUME NEW list, Listed(list), NEW v \in Volumes
  PROVE  Grown(list, v, Place(list, v.start), PartAdd(list, v))
<1> SUFFICES ASSUME NEW i, i = Place(list, v.start), NEW new, new = PartAdd(list, v)
             PROVE  Grown(list, v, i, new)
  OBVIOUS
<1>1. list \in Seq(Volumes) /\ Len(list) \in Nat /\ v.start \in Nat
  BY DEF Listed, Volumes
<1>2. i \in 1 .. Len(list) + 1
  BY <1>1, PlaceIs
<1> DEFINE front == SubSeq(list, 1, i - 1)
           mid   == [v EXCEPT !.addr = AddrAt(list, i)]
           rest  == SubSeq(list, i, Len(list))
           back  == Shifted(rest)
<1>3. front \in Seq(Volumes) /\ Len(front) = i - 1
      /\ \A k \in 1 .. i - 1 : front[k] = list[k]
  BY <1>1, <1>2
<1>4. rest \in Seq(Volumes) /\ Len(rest) = Len(list) - i + 1
      /\ \A k \in 1 .. Len(list) - i + 1 : rest[k] = list[i + k - 1]
  BY <1>1, <1>2
<1>5. AddrAt(list, i) = i - 1
  <2>1. CASE i = 1
    <3>1. list # <<>> => list[1].addr = 0
      BY <1>1 DEF Listed, Numbered
    <3> QED
      BY <2>1, <3>1 DEF AddrAt
  <2>2. CASE i # 1
    <3>1. i - 1 \in 1 .. Len(list) /\ list[i - 1].addr = i - 1 - 1
      BY <1>1, <1>2, <2>2 DEF Listed, Numbered
    <3> QED
      BY <1>2, <2>2, <3>1 DEF AddrAt
  <2> QED
    BY <2>1, <2>2
<1>6. mid \in Volumes /\ Same(mid, v) /\ mid.addr = i - 1
  BY <1>2, <1>5 DEF Volumes, Same
<1>7. /\ back \in Seq(Volumes) /\ Len(back) = Len(list) - i + 1
      /\ \A k \in 1 .. Len(list) - i + 1 :
           Same(back[k], list[i + k - 1]) /\ back[k].addr = i + k - 1
  <2> DEFINE n == Len(list) - i + 1
  <2>0. n \in Nat
    BY <1>1, <1>2
  <2>1. back = [k \in 1 .. n |-> [rest[k] EXCEPT !.addr = @ + 1]]
    BY <1>4 DEF Shifted
  <2>2. ASSUME NEW k \in 1 .. n
        PROVE  /\ back[k] \in Volumes
               /\ Same(back[k], list[i + k - 1]) /\ back[k].addr = i + k - 1
    <3> DEFINE m == i + k - 1
    <3>1. m \in 1 .. Len(list) /\ m \in Nat /\ rest[k] = list[m]
      BY <1>1, <1>2, <1>4
    <3> HIDE DEF m
    <3>2. list[m] \in Volumes /\ list[m].addr = m - 1
      BY <1>1, <3>1 DEF Listed, Numbered
    <3>3. back[k] = [list[m] EXCEPT !.addr = m]
      <4>1. back[k] = [rest[k] EXCEPT !.addr = rest[k].addr + 1]
        BY <2>1
      <4>2. list[m].addr + 1 = m
        BY <3>1, <3>2
      <4> QED
        BY <3>1, <4>1, <4>2
    <3>4. back[k] \in Volumes /\ Same(back[k], list[m]) /\ back[k].addr = m
      BY <3>1, <3>2, <3>3 DEF Volumes, Same
    <3> QED
      BY <3>4 DEF m
  <2> HIDE DEF back, n
  <2>3. back \in Seq(Volumes) /\ Len(back) = n
    <3>1. back \in [1 .. n -> Volumes]
      BY <2>1, <2>2
    <3> QED
      BY <2>0, <3>1
  <2> QED
    BY <2>2, <2>3 DEF n
<1>8. new = front \o <<mid>> \o back
  BY DEF PartAdd
<1> HIDE DEF front, mid, rest, back
<1>9. front \o <<mid>> \in Seq(Volumes) /\ Len(front \o <<mid>>) = i
      /\ (front \o <<mid>>)[i] = mid
      /\ \A k \in 1 .. i - 1 : (front \o <<mid>>)[k] = list[k]
  BY <1>2, <1>3, <1>6
<1> DEFINE head == front \o <<mid>>
<1>10. new = head \o back
  BY <1>8
<1> HIDE DEF head
<1>11. /\ head \in Seq(Volumes) /\ Len(head) = i /\ head[i] = mid
       /\ \A k \in 1 .. i - 1 : head[k] = list[k]
  BY <1>9 DEF head
<1>12. /\ new \in Seq(Volumes) /\ Len(new) = i + (Len(list) - i + 1)
       /\ \A k \in 1 .. i + (Len(list) - i + 1) :
            new[k] = IF k <= i THEN head[k] ELSE back[k - i]
  <2>1. back \in Seq(Volumes) /\ Len(back) = Len(list) - i + 1
    BY <1>7
  <2>2. head \in Seq(Volumes) /\ Len(head) = i
    BY <1>11
  <2>3. /\ head \o back \in Seq(Volumes) /\ Len(head \o back) = i + (Len(list) - i + 1)
        /\ \A k \in 1 .. i + (Len(list) - i + 1) :
             (head \o back)[k] = IF k <= i THEN head[k] ELSE back[k - i]
    BY ONLY <2>1, <2>2, ConcatProperties
  <2> QED
    BY ONLY <1>10, <2>3
<1>13. i + (Len(list) - i + 1) = Len(list) + 1
  BY <1>1, <1>2
<1>14. ASSUME NEW k \in 1 .. Len(list), k >= i
       PROVE  Same(new[k + 1], list[k]) /\ new[k + 1].addr = k
  <2> DEFINE m == k + 1
             j == k + 1 - i
             n == Len(list) - i + 1
  <2>1. /\ m \in 1 .. i + n /\ ~(m <= i) /\ m - i = j
        /\ j \in 1 .. n /\ i + j - 1 = k
    <3>1. /\ Len(list) \in Nat /\ i \in Nat /\ k \in Nat
          /\ 1 <= i /\ i <= Len(list) + 1 /\ k <= Len(list) /\ k >= i
      BY <1>1, <1>2, <1>14
    <3> QED
      BY ONLY <3>1
  <2>2. new[m] = back[m - i]
    <3> HIDE DEF m
    <3> QED
      BY <1>12, <2>1
  <2>3. Same(back[j], list[i + j - 1]) /\ back[j].addr = i + j - 1
    <3> HIDE DEF j
    <3> QED
      BY <1>7, <2>1
  <2> HIDE DEF m, j
  <2>4. Same(new[m], list[k]) /\ new[m].addr = k
    BY <2>1, <2>2, <2>3
  <2> QED
    BY <2>4 DEF m
<1>15. \A k \in 1 .. i : new[k] = head[k]
  BY <1>1, <1>2, <1>12, <1>13
<1>16. \A k \in 1 .. Len(list) : k < i => new[k] = list[k]
  BY <1>1, <1>2, <1>11, <1>15
<1>17. Same(new[i], v) /\ new[i].addr = i - 1
  BY <1>2, <1>6, <1>11, <1>15
<1>18. new \in Seq(Volumes) /\ Len(new) = Len(list) + 1
  BY <1>12, <1>13
<1> QED
  BY <1>2, <1>14, <1>16, <1>17, <1>18 DEF Grown

(* So the list stays in order and numbered. *)
LEMMA PartAddListed ==
  ASSUME NEW list, Listed(list), NEW v \in Volumes
  PROVE  Listed(PartAdd(list, v)) /\ Len(PartAdd(list, v)) = Len(list) + 1
<1> DEFINE i == Place(list, v.start)
           new == PartAdd(list, v)
<1>1. /\ new \in Seq(Volumes) /\ Len(new) = Len(list) + 1
      /\ i \in 1 .. Len(list) + 1
      /\ \A k \in 1 .. Len(list) : k < i => new[k] = list[k]
      /\ Same(new[i], v) /\ new[i].addr = i - 1
      /\ \A k \in 1 .. Len(list) :
           k >= i => Same(new[k + 1], list[k]) /\ new[k + 1].addr = k
  <2>1. Grown(list, v, i, new)
    BY PartAddIs
  <2> HIDE DEF i, new
  <2> QED
    BY <2>1 DEF Grown
<1>2. /\ list \in Seq(Volumes) /\ Len(list) \in Nat /\ v.start \in Nat
      /\ \A k \in 1 .. Len(list) : list[k].start \in Nat
  <2>1. list \in Seq(Volumes) /\ v.start \in Nat
    BY DEF Listed, Volumes
  <2>2. \A k \in 1 .. Len(list) : list[k] \in Volumes
    BY <2>1
  <2> QED
    BY <2>1, <2>2 DEF Volumes
<1>3. /\ \A k \in 1 .. Len(list) : k < i => list[k].start <= v.start
      /\ i <= Len(list) => list[i].start > v.start
  BY <1>2, PlaceIs
<1>4. \A k, m \in 1 .. Len(list) : k <= m => list[k].start <= list[m].start
  BY DEF Listed, Ordered
<1>5. \A k \in 1 .. Len(list) : k >= i => v.start <= list[k].start
  <2> TAKE k \in 1 .. Len(list)
  <2> HAVE k >= i
  <2>1. i \in 1 .. Len(list) /\ list[i].start <= list[k].start
    BY <1>1, <1>2, <1>4
  <2> QED
    BY <1>2, <1>3, <2>1
<1> HIDE DEF i, new
<1>6. \A k \in 1 .. Len(list) + 1 :
        \/ k \in 1 .. Len(list) /\ k < i /\ new[k] = list[k]
        \/ k = i
        \/ /\ k - 1 \in 1 .. Len(list) /\ k - 1 >= i
           /\ new[k].start = list[k - 1].start /\ new[k].addr = k - 1
  <2> TAKE k \in 1 .. Len(list) + 1
  <2>1. CASE k < i
    BY <1>1, <1>2, <2>1
  <2>2. CASE k > i
    <3>1. k - 1 \in 1 .. Len(list) /\ k - 1 >= i /\ k - 1 + 1 = k
      BY <1>1, <1>2, <2>2
    <3>2. Same(new[k - 1 + 1], list[k - 1]) /\ new[k - 1 + 1].addr = k - 1
      BY <1>1, <3>1
    <3> QED
      BY <3>1, <3>2 DEF Same
  <2> QED
    BY <1>1, <1>2, <2>1, <2>2
<1>7. \A k \in 1 .. Len(list) : list[k].addr = k - 1
  BY DEF Listed, Numbered
<1>8. Numbered(new)
  BY <1>1, <1>6, <1>7 DEF Numbered
<1>9. new[i].start = v.start
  BY <1>1 DEF Same
<1>10. Ordered(new)
  <2> SUFFICES ASSUME NEW k \in 1 .. Len(list) + 1, NEW m \in 1 .. Len(list) + 1, k <= m
               PROVE  new[k].start <= new[m].start
    BY <1>1 DEF Ordered
  <2>1. CASE k \in 1 .. Len(list) /\ k < i /\ new[k] = list[k]
    <3>1. CASE m \in 1 .. Len(list) /\ m < i /\ new[m] = list[m]
      BY <1>4, <2>1, <3>1
    <3>2. CASE m = i
      BY <1>3, <1>9, <2>1, <3>2 DEF i
    <3>3. CASE m - 1 \in 1 .. Len(list) /\ m - 1 >= i /\ new[m].start = list[m - 1].start
      <4>1. k <= m - 1
        BY <1>1, <1>2, <2>1, <3>3
      <4> QED
        BY <1>4, <2>1, <3>3, <4>1
    <3> QED
      BY <1>6, <3>1, <3>2, <3>3
  <2>2. CASE k = i
    <3>1. CASE m \in 1 .. Len(list) /\ m < i /\ new[m] = list[m]
      BY <1>1, <1>2, <2>2, <3>1
    <3>2. CASE m = i
      BY <1>2, <1>9, <2>2, <3>2
    <3>3. CASE m - 1 \in 1 .. Len(list) /\ m - 1 >= i /\ new[m].start = list[m - 1].start
      BY <1>5, <1>9, <2>2, <3>3 DEF i
    <3> QED
      BY <1>6, <3>1, <3>2, <3>3
  <2>3. CASE k - 1 \in 1 .. Len(list) /\ k - 1 >= i /\ new[k].start = list[k - 1].start
    <3>1. m > i
      BY <1>1, <1>2, <2>3
    <3>2. m - 1 \in 1 .. Len(list) /\ new[m].start = list[m - 1].start
      BY <1>1, <1>2, <1>6, <3>1
    <3>3. k - 1 <= m - 1
      BY <1>2
    <3> QED
      BY <1>4, <2>3, <3>2, <3>3
  <2> QED
    BY <1>6, <2>1, <2>2, <2>3
<1> QED
  BY <1>1, <1>8, <1>10 DEF Listed, new

(* Nothing is lost and only the volume is new. *)
Grew(list, v, new) ==
  /\ \A k \in 1 .. Len(list) : \E m \in 1 .. Len(new) : Same(new[m], list[k])
  /\ \E m \in 1 .. Len(new) : Same(new[m], v)
  /\ \A m \in 1 .. Len(new) :
       Same(new[m], v) \/ \E k \in 1 .. Len(list) : Same(new[m], list[k])

LEMMA PartAddGrew ==
  ASSUME NEW list, Listed(list), NEW v \in Volumes
  PROVE  Grew(list, v, PartAdd(list, v))
<1> DEFINE i == Place(list, v.start)
           new == PartAdd(list, v)
<1>1. Grown(list, v, i, new)
  BY PartAddIs
<1> HIDE DEF i, new
<1>2. /\ Len(list) \in Nat /\ Len(new) = Len(list) + 1 /\ i \in 1 .. Len(new)
      /\ \A k \in 1 .. Len(list) : k < i => new[k] = list[k]
      /\ Same(new[i], v)
      /\ \A k \in 1 .. Len(list) : k >= i => Same(new[k + 1], list[k])
  BY <1>1 DEF Grown, Listed
<1>3. ASSUME NEW k \in 1 .. Len(list)
      PROVE  \E m \in 1 .. Len(new) : Same(new[m], list[k])
  <2>1. k \in 1 .. Len(new) /\ k + 1 \in 1 .. Len(new)
    BY <1>2
  <2>2. CASE k < i
    BY <1>2, <2>1, <2>2 DEF Same
  <2>3. CASE k >= i
    BY <1>2, <2>1, <2>3
  <2> QED
    BY <1>2, <2>2, <2>3
<1>4. ASSUME NEW m \in 1 .. Len(new)
      PROVE  Same(new[m], v) \/ \E k \in 1 .. Len(list) : Same(new[m], list[k])
  <2>1. CASE m < i
    <3>1. m \in 1 .. Len(list)
      BY <1>2, <2>1
    <3> QED
      BY <1>2, <2>1, <3>1 DEF Same
  <2>2. CASE m = i
    BY <1>2, <2>2
  <2>3. CASE m > i
    <3> DEFINE k == m - 1
    <3>1. k \in 1 .. Len(list) /\ k >= i /\ k + 1 = m
      BY <1>2, <2>3
    <3>2. Same(new[k + 1], list[k])
      <4> HIDE DEF k
      <4> QED
        BY <1>2, <3>1
    <3> QED
      BY <3>1, <3>2
  <2> QED
    BY <1>2, <2>1, <2>2, <2>3
<1> QED
  BY <1>2, <1>3, <1>4 DEF Grew, new

-----------------------------------------------------------------------------
(* The tables being loaded: the primary one is at the bottom of the stack, *)
(* and a table whose entries are being walked over is on the disk.         *)
Frames == [sect_cur : Nat, sect_ext_base : Nat, i : Nat]

LoadInv ==
  /\ disk \in Disks
  /\ stack \in Seq(Frames) /\ Len(stack) >= 1
  /\ stack[1].sect_cur = 0
  /\ \A n \in 1 .. Len(stack) : stack[n].i > 0 => stack[n].sect_cur \in DOMAIN disk

(* The list of volumes, and where the walk along it is *)
VolumeInv ==
  /\ Listed(parts)
  /\ phase \in {"loading", "filling", "open", "closed"}
  /\ phase # "closed" => part_count = Len(parts)
  /\ phase = "loading" => cur = 1 /\ prev_end = 0
  /\ phase = "filling" => cur \in 1 .. Len(parts) + 1
  /\ prev_end \in Nat

(* An entry of a table is a start, a size and a kind. *)
Entries == [start : Nat, size : Nat, ext : BOOLEAN]

(* So is the one that comes next. *)
LEMMA EntryIs ==
  ASSUME LoadInv, AtEntry
  PROVE  /\ Entry \in Entries
         /\ Top \in Frames
<1>1. Len(stack) \in 1 .. Len(stack) /\ Top \in Frames
  BY DEF LoadInv, Top
<1>2. Top.sect_cur \in DOMAIN disk
  BY <1>1 DEF LoadInv, AtEntry, Top, Frames
<1>3. disk[Top.sect_cur] \in Seq(Entries)
  BY <1>2, DiskAssumption DEF LoadInv, Entries
<1>4. Top.i \in 1 .. Len(disk[Top.sect_cur])
  BY <1>1, <1>3 DEF AtEntry, Frames
<1>5. Entry \in Entries
  <2> DEFINE table == disk[Top.sect_cur]
             n == Top.i
  <2>1. n \in 1 .. Len(table) /\ table \in Seq(Entries)
    BY <1>3, <1>4
  <2>2. Entry = table[n]
    BY DEF Entry
  <2> HIDE DEF table, n
  <2> QED
    BY <2>1, <2>2
<1> QED
  BY <1>1, <1>5

(* What happens to the stack *)
LEMMA AdvancedIs ==
  ASSUME LoadInv
  PROVE  /\ Advanced \in Seq(Frames) /\ Len(Advanced) = Len(stack)
         /\ \A n \in 1 .. Len(stack) :
              /\ Advanced[n].sect_cur = stack[n].sect_cur
              /\ Advanced[n].sect_ext_base = stack[n].sect_ext_base
              /\ Advanced[n].i = IF n = Len(stack) THEN stack[n].i + 1 ELSE stack[n].i
<1>1. Len(stack) \in 1 .. Len(stack) /\ stack \in Seq(Frames)
  BY DEF LoadInv
<1> DEFINE e == [stack[Len(stack)] EXCEPT !.i = stack[Len(stack)].i + 1]
<1>2. stack[Len(stack)] \in Frames
  BY <1>1
<1>3. /\ e \in Frames /\ e.i = stack[Len(stack)].i + 1
      /\ e.sect_cur = stack[Len(stack)].sect_cur
      /\ e.sect_ext_base = stack[Len(stack)].sect_ext_base
  BY <1>2 DEF Frames
<1>4. Advanced = [stack EXCEPT ![Len(stack)] = e]
  BY <1>1, <1>2 DEF Advanced
<1> HIDE DEF e
<1> QED
  BY <1>1, <1>3, <1>4

LEMMA PushedIs ==
  ASSUME LoadInv, NEW f \in Frames
  PROVE  /\ Append(Advanced, f) \in Seq(Frames) /\ Len(Append(Advanced, f)) = Len(stack) + 1
         /\ \A n \in 1 .. Len(stack) : Append(Advanced, f)[n] = Advanced[n]
         /\ Append(Advanced, f)[Len(stack) + 1] = f
  BY AdvancedIs

LEMMA PoppedIs ==
  ASSUME LoadInv, NEW n \in 1 .. Len(stack)
  PROVE  /\ SubSeq(stack, 1, n) \in Seq(Frames) /\ Len(SubSeq(stack, 1, n)) = n
         /\ \A m \in 1 .. n : SubSeq(stack, 1, n)[m] = stack[m]
  BY DEF LoadInv

LEMMA LoadInvInit == Init => LoadInv
<1> SUFFICES ASSUME Init PROVE LoadInv
  OBVIOUS
<1>1. stack = <<Frame(0, 0)>> /\ Frame(0, 0) \in Frames /\ Frame(0, 0).i = 0
  BY DEF Init, Frame, Frames
<1> QED
  BY <1>1 DEF Init, LoadInv, Frame

LEMMA LoadInvStep == LoadInv /\ [Next]_vars => LoadInv'
<1> SUFFICES ASSUME LoadInv, [Next]_vars PROVE LoadInv'
  OBVIOUS
<1>0. Len(stack) \in Nat /\ Len(stack) \in 1 .. Len(stack) /\ 1 \in 1 .. Len(stack)
      /\ \A n \in 1 .. Len(stack) : stack[n].i \in Nat
  <2>1. stack \in Seq(Frames) /\ Len(stack) >= 1
    BY DEF LoadInv
  <2>2. \A n \in 1 .. Len(stack) : stack[n] \in Frames
    BY <2>1
  <2> QED
    BY <2>1, <2>2 DEF Frames
<1>1. CASE stack' = Advanced /\ disk' = disk /\ Top.sect_cur \in DOMAIN disk
  <2>1. \A n \in 1 .. Len(stack) : Advanced[n].i > 0 => Advanced[n].sect_cur \in DOMAIN disk
    BY <1>0, <1>1, AdvancedIs DEF LoadInv, Top
  <2> QED
    BY <1>0, <1>1, <2>1, AdvancedIs DEF LoadInv
<1>2. ASSUME NEW f \in Frames, f.i = 0, stack' = Append(Advanced, f), disk' = disk,
             Top.sect_cur \in DOMAIN disk
      PROVE  LoadInv'
  <2>1. /\ stack' \in Seq(Frames) /\ Len(stack') = Len(stack) + 1
        /\ \A n \in 1 .. Len(stack) : stack'[n] = Advanced[n]
        /\ stack'[Len(stack) + 1] = f
    BY <1>2, PushedIs
  <2>2. \A n \in 1 .. Len(stack) : Advanced[n].i > 0 => Advanced[n].sect_cur \in DOMAIN disk
    BY <1>0, <1>2, AdvancedIs DEF LoadInv, Top
  <2>3. \A n \in 1 .. Len(stack') : stack'[n].i > 0 => stack'[n].sect_cur \in DOMAIN disk
    BY <1>0, <1>2, <2>1, <2>2
  <2>4. stack'[1].sect_cur = 0
    BY <1>0, <2>1, AdvancedIs DEF LoadInv
  <2> QED
    BY <1>0, <1>2, <2>1, <2>3, <2>4 DEF LoadInv
<1>3. ASSUME NEW m \in 1 .. Len(stack), stack' = SubSeq(stack, 1, m), disk' = disk
      PROVE  LoadInv'
  <2>1. /\ stack' \in Seq(Frames) /\ Len(stack') = m
        /\ \A n \in 1 .. m : stack'[n] = stack[n]
    BY <1>3, PoppedIs
  <2> QED
    BY <1>0, <1>3, <2>1 DEF LoadInv
<1>4. ASSUME AtEntry PROVE Top.sect_cur \in DOMAIN disk
  BY <1>0, <1>4 DEF AtEntry, LoadInv, Top
<1>5. CASE ReadTable
  BY <1>1, <1>5 DEF ReadTable
<1>6. CASE SkipUnused
  BY <1>1, <1>4, <1>6 DEF SkipUnused
<1>7. CASE AddPartition
  BY <1>1, <1>4, <1>7 DEF AddPartition
<1>8. CASE AddExtended
  <2> DEFINE start == Top.sect_ext_base + Entry.start
             base == IF Primary THEN start ELSE Top.sect_ext_base
  <2>1. AtEntry /\ disk' = disk /\ (stack' = Advanced \/ stack' = Append(Advanced, Frame(start, base)))
    BY <1>8 DEF AddExtended
  <2>2. Frame(start, base) \in Frames /\ Frame(start, base).i = 0
    BY <2>1, EntryIs DEF Frame, Frames, Entries
  <2> QED
    BY <1>1, <1>2, <1>4, <2>1, <2>2
<1>9. CASE Return
  <2>1. CASE ~Primary /\ stack' = SubSeq(stack, 1, Len(stack) - 1)
    <3>1. Len(stack) - 1 \in 1 .. Len(stack)
      <4> DEFINE n == Len(stack)
      <4>1. n \in Nat /\ n \in 1 .. n /\ n # 1
        BY <1>0, <2>1 DEF Primary
      <4> HIDE DEF n
      <4>2. n - 1 \in 1 .. n
        BY <4>1
      <4> QED
        BY <4>2 DEF n
    <3> QED
      BY <1>3, <1>9, <2>1, <3>1 DEF Return
  <2>2. CASE UNCHANGED stack
    BY <1>9, <2>2 DEF Return, LoadInv
  <2> QED
    BY <1>9, <2>1, <2>2 DEF Return
<1>10. CASE GiveUp
  BY <1>0, <1>3, <1>10 DEF GiveUp, GivenUp
<1>11. CASE UNCHANGED <<disk, stack>>
  BY <1>11 DEF LoadInv
<1> QED
  BY <1>5, <1>6, <1>7, <1>8, <1>9, <1>10, <1>11 DEF Next, LoadStep, vars

-----------------------------------------------------------------------------
LEMMA VolumeInvInit == Init => VolumeInv
  BY DEF Init, VsInit, VolumeInv, Listed, Ordered, Numbered

(* Adding a volume while loading or filling *)
LEMMA AddKeeps ==
  ASSUME VolumeInv, NEW v \in Volumes, Add(v), phase # "closed"
  PROVE  /\ Listed(parts') /\ part_count' = Len(parts')
         /\ Len(parts') = Len(parts) + 1 /\ Len(parts) \in Nat
         /\ Grew(parts, v, parts')
<1>1. Listed(parts) /\ Len(parts) \in Nat /\ part_count = Len(parts)
  BY DEF VolumeInv, Listed
<1>2. Listed(PartAdd(parts, v)) /\ Len(PartAdd(parts, v)) = Len(parts) + 1
  BY <1>1, PartAddListed, Zenon
<1>3. Grew(parts, v, PartAdd(parts, v))
  BY <1>1, PartAddGrew
<1>4. parts' = PartAdd(parts, v) /\ part_count' = part_count + 1
  BY DEF Add
<1> QED
  BY <1>1, <1>2, <1>3, <1>4

LEMMA VolumeIs ==
  ASSUME NEW s \in Nat, NEW n \in Nat, NEW f \in {"META", "ALLOC", "UNALLOC"}
  PROVE  Volume(s, n, f) \in Volumes
  BY DEF Volume, Volumes

(* The volume that the walk is at *)
LEMMA CurIs ==
  ASSUME VolumeInv, phase = "filling", cur <= Len(parts)
  PROVE  cur \in 1 .. Len(parts) /\ parts[cur] \in Volumes
<1>1. Len(parts) \in Nat /\ parts \in Seq(Volumes) /\ cur \in 1 .. Len(parts) + 1
  BY DEF VolumeInv, Listed
<1>2. cur \in 1 .. Len(parts)
  BY <1>1
<1> QED
  BY <1>1, <1>2

(* The volumes that loading adds *)
LEMMA LoadedVolume ==
  ASSUME LoadInv, VolumeInv, ReadTable \/ AddPartition \/ AddExtended
  PROVE  /\ phase = "loading"
         /\ UNCHANGED <<cur, prev_end, phase>>
         /\ \E v \in Volumes : Add(v) /\ v.flag # "UNALLOC" /\ (v.flag = "ALLOC" => v.len > 0)
<1>1. CASE ReadTable
  <2>1. Top \in Frames
    BY DEF LoadInv, Top
  <2>2. Volume(Top.sect_cur, 1, "META") \in Volumes
    BY <2>1, VolumeIs DEF Frames
  <2> QED
    BY <1>1, <2>2 DEF ReadTable, Volume
<1>2. CASE AddPartition
  <2>1. AtEntry /\ Entry.size > 0
    BY <1>2 DEF AddPartition
  <2>2. Volume(PartStart, Entry.size, "ALLOC") \in Volumes
    BY <2>1, EntryIs, VolumeIs DEF Frames, Entries, PartStart
  <2> QED
    BY <1>2, <2>1, <2>2 DEF AddPartition, AtEntry, Volume
<1>3. CASE AddExtended
  <2>1. AtEntry
    BY <1>3 DEF AddExtended
  <2>2. Volume(Top.sect_ext_base + Entry.start, Entry.size, "META") \in Volumes
    BY <2>1, EntryIs, VolumeIs DEF Frames, Entries
  <2> QED
    BY <1>3, <2>1, <2>2 DEF AddExtended, AtEntry, Volume
<1> QED
  BY <1>1, <1>2, <1>3

(* What the walk does to the list and to its place, when it has a volume   *)
(* in front of it                                                          *)
LEMMA FillsIn ==
  ASSUME VolumeInv, FillBefore, parts[cur].flag # "META", parts[cur].start > prev_end
  PROVE  /\ Unalloc(prev_end, parts[cur].start) \in Volumes
         /\ Add(Unalloc(prev_end, parts[cur].start))
         /\ cur' = cur + 2 /\ prev_end' = parts[cur].start + parts[cur].len
<1>1. parts[cur] \in Volumes /\ prev_end \in Nat
  BY CurIs DEF VolumeInv, FillBefore
<1>2. parts[cur].start \in Nat
  BY <1>1 DEF Volumes
<1>3. parts[cur].start - prev_end \in Nat
  BY <1>1, <1>2
<1>4. Unalloc(prev_end, parts[cur].start) \in Volumes
  BY <1>1, <1>3, VolumeIs DEF Unalloc
<1>5. ~(parts[cur].start <= prev_end)
  BY <1>1, <1>2
<1> QED
  BY <1>4, <1>5 DEF FillBefore

LEMMA VolumeInvStep == LoadInv /\ VolumeInv /\ [Next]_vars => VolumeInv'
<1> SUFFICES ASSUME LoadInv, VolumeInv, [Next]_vars PROVE VolumeInv'
  OBVIOUS
<1>0. Len(parts) \in Nat /\ ImgSectors \in Nat
  BY ImgAssumption DEF VolumeInv, Listed
<1>1. CASE ReadTable \/ AddPartition \/ AddExtended
  <2>1. phase = "loading" /\ UNCHANGED <<cur, prev_end, phase>>
    BY <1>1, LoadedVolume
  <2>2. PICK v \in Volumes : Add(v)
    BY <1>1, LoadedVolume
  <2> QED
    BY <2>1, <2>2, AddKeeps DEF VolumeInv
<1>2. CASE FillBefore
  <2>1. /\ phase = "filling" /\ phase' = phase /\ cur \in 1 .. Len(parts)
        /\ parts[cur].start \in Nat /\ parts[cur].len \in Nat
    BY <1>2, CurIs DEF FillBefore, Volumes
  <2>2. CASE UNCHANGED <<parts, part_count>> /\ cur' = cur + 1 /\ prev_end' \in Nat
    BY <1>0, <2>1, <2>2 DEF VolumeInv
  <2>3. CASE parts[cur].flag # "META" /\ parts[cur].start > prev_end
    <3>1. /\ Unalloc(prev_end, parts[cur].start) \in Volumes
          /\ Add(Unalloc(prev_end, parts[cur].start))
          /\ cur' = cur + 2 /\ prev_end' \in Nat
      BY <1>2, <2>1, <2>3, FillsIn
    <3>2. Listed(parts') /\ part_count' = Len(parts') /\ Len(parts') = Len(parts) + 1
      BY <2>1, <3>1, AddKeeps
    <3>3. cur' \in 1 .. Len(parts') + 1
      BY <1>0, <2>1, <3>1, <3>2
    <3> QED
      BY <2>1, <3>1, <3>2, <3>3 DEF VolumeInv
  <2> QED
    BY <1>2, <2>1, <2>2, <2>3 DEF FillBefore, VolumeInv
<1>3. CASE FillTail
  <2>1. CASE prev_end < ImgSectors
    <3>1. ImgSectors - prev_end \in Nat /\ prev_end \in Nat
      BY <1>0, <2>1 DEF VolumeInv
    <3>2. Unalloc(prev_end, TailSectors) \in Volumes
      BY <3>1, VolumeIs DEF Unalloc, TailSectors
    <3>3. Listed(parts') /\ part_count' = Len(parts')
      BY <1>3, <2>1, <3>2, AddKeeps DEF FillTail, TailSectors
    <3> QED
      BY <1>3, <3>3 DEF FillTail, VolumeInv
  <2>2. CASE ~(prev_end < ImgSectors)
    BY <1>3, <2>2 DEF FillTail, TailSectors, VolumeInv
  <2> QED
    BY <2>1, <2>2
<1>4. CASE Close
  BY <1>4 DEF Close, VolumeInv, Listed, Ordered, Numbered
<1>5. CASE SkipUnused \/ GiveUp
  BY <1>5 DEF SkipUnused, GiveUp, partVars, VolumeInv
<1>6. CASE Return
  <2>1. CASE UNCHANGED partVars
    BY <2>1 DEF partVars, VolumeInv
  <2>2. CASE phase = "loading" /\ Loaded
    BY <1>0, <2>2 DEF Loaded, VolumeInv
  <2> QED
    BY <1>6, <2>1, <2>2 DEF Return
<1>7. CASE UNCHANGED vars
  BY <1>7 DEF vars, VolumeInv
<1> QED
  BY <1>1, <1>2, <1>3, <1>4, <1>5, <1>6, <1>7 DEF Next, LoadStep

(* Both in every reachable state *)
THEOREM ListInvariance == Spec => [](LoadInv /\ VolumeInv)
  BY LoadInvInit, LoadInvStep, VolumeInvInit, VolumeInvStep, PTL DEF Spec

(* The address of a volume is its place in the list, which is in the order *)
(* of the starts, so that callers who ask for every address below          *)
(* part_count (tsk_vs_part_get) see each volume once.                      *)
THEOREM AddressesAreInOrder == Spec => []AddressesInOrder
<1>1. ASSUME VolumeInv PROVE AddressesInOrder
  <2> SUFFICES ASSUME phase # "closed"
               PROVE  /\ part_count = Len(parts)
                      /\ \A i \in 1 .. Len(parts) : Get(i - 1) = {parts[i]}
                      /\ \A i \in 1 .. Len(parts) - 1 : parts[i].start <= parts[i + 1].start
    BY DEF AddressesInOrder
  <2>1. part_count = Len(parts) /\ Len(parts) \in Nat
    BY <1>1 DEF VolumeInv, Listed
  <2>2. \A j \in 1 .. Len(parts) : parts[j].addr = j - 1
    BY <1>1 DEF VolumeInv, Listed, Numbered
  <2>3. ASSUME NEW i \in 1 .. Len(parts) PROVE Get(i - 1) = {parts[i]}
    <3>1. ~(i - 1 >= part_count)
      BY <2>1
    <3>2. {j \in 1 .. Len(parts) : parts[j].addr = i - 1} = {i}
      BY <2>1, <2>2
    <3> QED
      BY <3>1, <3>2 DEF Get
  <2>4. ASSUME NEW i \in 1 .. Len(parts) - 1 PROVE parts[i].start <= parts[i + 1].start
    <3> DEFINE k == i + 1
    <3>1. i \in 1 .. Len(parts) /\ k \in 1 .. Len(parts) /\ i <= k
      BY <2>1
    <3> HIDE DEF k
    <3>2. parts[i].start <= parts[k].start
      BY <1>1, <3>1 DEF VolumeInv, Listed, Ordered
    <3> QED
      BY <3>2 DEF k
  <2> QED
    BY <2>1, <2>3, <2>4
<1> QED
  BY <1>1, ListInvariance, PTL

-----------------------------------------------------------------------------
(* A sector is shown if it is in a volume that is no table. *)
ShownIn(list, n) ==
  \E k \in 1 .. Len(list) : list[k].flag # "META" /\ n \in Sectors(list[k])

(* While the gaps are filled, all before the end of the last volume is     *)
(* shown; the end may well be before that of an earlier volume.            *)
ShownInv ==
  /\ phase = "filling" => \A n \in 0 .. prev_end - 1 : ShownIn(parts, n)
  /\ phase = "open" => \A n \in 0 .. ImgSectors - 1 : ShownIn(parts, n)

LEMMA ShownGrew ==
  ASSUME NEW list, NEW new, NEW v, Grew(list, v, new), NEW n
  PROVE  /\ ShownIn(list, n) => ShownIn(new, n)
         /\ v.flag # "META" /\ n \in Sectors(v) => ShownIn(new, n)
  BY DEF Grew, ShownIn, Same, Sectors

LEMMA ShownInvInit == Init => ShownInv
  BY DEF Init, VsInit, ShownInv

LEMMA ShownInvStep == LoadInv /\ VolumeInv /\ ShownInv /\ [Next]_vars => ShownInv'
<1> SUFFICES ASSUME LoadInv, VolumeInv, ShownInv, [Next]_vars PROVE ShownInv'
  OBVIOUS
<1>0. prev_end \in Nat /\ ImgSectors \in Nat
  BY ImgAssumption DEF VolumeInv
<1>1. CASE ReadTable \/ AddPartition \/ AddExtended
  BY <1>1, LoadedVolume DEF ShownInv
<1>2. CASE FillBefore
  <2>1. /\ phase = "filling" /\ phase' = phase /\ cur \in 1 .. Len(parts)
        /\ parts[cur].start \in Nat /\ parts[cur].len \in Nat
    BY <1>2, CurIs DEF FillBefore, Volumes
  <2>2. \A n \in 0 .. prev_end - 1 : ShownIn(parts, n)
    BY <2>1 DEF ShownInv
  <2>3. CASE UNCHANGED <<parts, prev_end>>
    BY <2>1, <2>2, <2>3 DEF ShownInv
  <2>4. CASE /\ parts[cur].flag # "META" /\ parts[cur].start <= prev_end
             /\ prev_end' = parts[cur].start + parts[cur].len
             /\ UNCHANGED parts
    <3>1. \A n \in 0 .. prev_end' - 1 : n \in 0 .. prev_end - 1 \/ n \in Sectors(parts[cur])
      BY <1>0, <2>1, <2>4 DEF Sectors
    <3>2. \A n \in Sectors(parts[cur]) : ShownIn(parts, n)
      BY <2>1, <2>4 DEF ShownIn
    <3> QED
      BY <2>1, <2>2, <2>4, <3>1, <3>2 DEF ShownInv
  <2>5. CASE parts[cur].flag # "META" /\ parts[cur].start > prev_end
    <3> DEFINE v == Unalloc(prev_end, parts[cur].start)
    <3>1. v \in Volumes /\ Add(v) /\ prev_end' = parts[cur].start + parts[cur].len
      BY <1>2, <2>5, FillsIn
    <3>2. Grew(parts, v, parts')
      BY <2>1, <3>1, AddKeeps
    <3>3. v.flag # "META" /\ Sectors(v) = prev_end .. parts[cur].start - 1
      BY <1>0, <2>1 DEF Unalloc, Volume, Sectors
    <3> HIDE DEF v
    <3>4. \A n \in 0 .. prev_end' - 1 :
            \/ n \in 0 .. prev_end - 1
            \/ n \in Sectors(v)
            \/ n \in Sectors(parts[cur])
      <4>1. Sectors(parts[cur]) = parts[cur].start .. parts[cur].start + parts[cur].len - 1
        BY DEF Sectors
      <4> QED
        BY <1>0, <2>1, <3>1, <3>3, <4>1
    <3>5. \A n \in Sectors(parts[cur]) : ShownIn(parts, n)
      BY <2>1, <2>5 DEF ShownIn
    <3>6. \A n : (ShownIn(parts, n) \/ n \in Sectors(v)) => ShownIn(parts', n)
      BY <3>2, <3>3, ShownGrew
    <3> QED
      BY <2>1, <2>2, <3>4, <3>5, <3>6 DEF ShownInv
  <2> QED
    BY <1>2, <2>3, <2>4, <2>5 DEF FillBefore
<1>3. CASE FillTail
  <2>1. /\ phase = "filling" /\ phase' = "open"
        /\ \A n \in 0 .. prev_end - 1 : ShownIn(parts, n)
    BY <1>3 DEF FillTail, ShownInv
  <2>2. CASE prev_end < ImgSectors
    <3> DEFINE v == Unalloc(prev_end, ImgSectors)
    <3>1. ImgSectors - prev_end \in Nat
      BY <1>0, <2>2
    <3>2. v \in Volumes
      BY <1>0, <3>1, VolumeIs DEF Unalloc
    <3>3. Grew(parts, v, parts')
      BY <1>3, <2>1, <2>2, <3>2, AddKeeps DEF FillTail, TailSectors
    <3>4. v.flag # "META" /\ Sectors(v) = prev_end .. ImgSectors - 1
      BY <1>0 DEF Unalloc, Volume, Sectors
    <3> HIDE DEF v
    <3>5. \A n \in 0 .. ImgSectors - 1 : n \in 0 .. prev_end - 1 \/ n \in Sectors(v)
      BY <1>0, <3>4
    <3>6. \A n : (ShownIn(parts, n) \/ n \in Sectors(v)) => ShownIn(parts', n)
      BY <3>3, <3>4, ShownGrew
    <3> QED
      BY <2>1, <3>5, <3>6 DEF ShownInv
  <2>3. CASE ~(prev_end < ImgSectors)
    <3>1. UNCHANGED parts
      BY <1>3, <2>3 DEF FillTail, TailSectors
    <3>2. \A n \in 0 .. ImgSectors - 1 : n \in 0 .. prev_end - 1
      BY <1>0, <2>3
    <3> QED
      BY <2>1, <3>1, <3>2 DEF ShownInv
  <2> QED
    BY <2>2, <2>3
<1>4. CASE Close
  BY <1>4 DEF Close, ShownInv
<1>5. CASE UNCHANGED partVars
  BY <1>5 DEF partVars, ShownInv
<1>6. CASE phase = "loading" /\ Loaded
  <2>1. prev_end' = 0 /\ phase' = "filling"
    BY <1>6 DEF Loaded, VolumeInv
  <2> QED
    BY <2>1 DEF ShownInv
<1> QED
  BY <1>1, <1>2, <1>3, <1>4, <1>5, <1>6
     DEF Next, LoadStep, SkipUnused, GiveUp, Return, vars, partVars

(* An open volume system hides nothing, however its entries overlap: every *)
(* sector of the image is in an allocated or an unallocated volume         *)
(* (tsk_vs_part_unused).                                                   *)
THEOREM EverySectorIsShown == Spec => []EverySectorShown
<1>1. ASSUME VolumeInv, ShownInv PROVE EverySectorShown
  <2> SUFFICES ASSUME phase = "open", NEW n \in 0 .. ImgSectors - 1
               PROVE  n \in SectorsOf("ALLOC") \union SectorsOf("UNALLOC")
    BY DEF EverySectorShown
  <2>1. PICK k \in 1 .. Len(parts) : parts[k].flag # "META" /\ n \in Sectors(parts[k])
    BY <1>1 DEF ShownInv, ShownIn
  <2>2. parts[k] \in Volumes
    BY <1>1 DEF VolumeInv, Listed
  <2>3. parts[k].flag \in {"ALLOC", "UNALLOC"}
    BY <2>1, <2>2 DEF Volumes
  <2>4. parts[k] \in Having(parts[k].flag)
    BY DEF Having
  <2>5. n \in SectorsOf(parts[k].flag)
    BY <2>1, <2>4 DEF SectorsOf
  <2> QED
    BY <2>3, <2>5
<1> QED
  BY <1>1, ListInvariance, ShownInvInit, ShownInvStep, PTL DEF Spec

-----------------------------------------------------------------------------
(* The entries of the primary table that the walk has left behind are in   *)
(* the list, and all are behind it before the gaps are filled.             *)
Kept(list, e) ==
  \E k \in 1 .. Len(list) :
    list[k].flag = "ALLOC" /\ list[k].start = e.start /\ list[k].len = e.size

KeptInv ==
  phase # "closed" =>
    /\ stack[1].i > 0 =>
         \A j \in 1 .. Len(disk[0]) :
           j < stack[1].i /\ disk[0][j].size > 0 /\ ~disk[0][j].ext => Kept(parts, disk[0][j])
    /\ phase # "loading" => stack[1].i > 0 /\ stack[1].i > Len(disk[0])

LEMMA KeptInvInit == Init => KeptInv
  BY DEF Init, VsInit, KeptInv, Frame

LEMMA KeptGrew ==
  ASSUME NEW list, NEW new, NEW v, Grew(list, v, new), NEW e
  PROVE  Kept(list, e) => Kept(new, e)
<1> SUFFICES ASSUME Kept(list, e) PROVE Kept(new, e)
  OBVIOUS
<1>1. PICK k \in 1 .. Len(list) :
         list[k].flag = "ALLOC" /\ list[k].start = e.start /\ list[k].len = e.size
  BY DEF Kept
<1>2. PICK m \in 1 .. Len(new) : Same(new[m], list[k])
  BY DEF Grew
<1> QED
  BY <1>1, <1>2 DEF Kept, Same

LEMMA KeptInvStep == LoadInv /\ VolumeInv /\ KeptInv /\ [Next]_vars => KeptInv'
<1> SUFFICES ASSUME LoadInv, VolumeInv, KeptInv, [Next]_vars PROVE KeptInv'
  OBVIOUS
<1>0. /\ Len(stack) \in 1 .. Len(stack) /\ 1 \in 1 .. Len(stack)
      /\ stack[1].i \in Nat /\ stack[1].sect_cur = 0
      /\ stack[1].i > 0 => 0 \in DOMAIN disk
  <2>1. stack \in Seq(Frames) /\ Len(stack) >= 1 /\ stack[1].sect_cur = 0
    BY DEF LoadInv
  <2>2. stack[1] \in Frames
    BY <2>1
  <2> QED
    BY <2>1, <2>2 DEF LoadInv, Frames
<1>1. ASSUME phase # "closed", phase' = phase, disk' = disk,
             UNCHANGED parts \/ \E v \in Volumes : Add(v),
             stack'[1].i = stack[1].i
      PROVE  KeptInv'
  <2>1. \A e : Kept(parts, e) => Kept(parts', e)
    BY <1>1, AddKeeps, KeptGrew
  <2> QED
    BY <1>1, <2>1 DEF KeptInv
<1>2. ASSUME AtEntry \/ (phase = "loading" /\ Top.i = 0), phase' = phase, disk' = disk,
             UNCHANGED parts \/ \E v \in Volumes : Add(v),
             stack'[1].i = Advanced[1].i,
             Primary /\ Top.i > 0 /\ Entry.size > 0 /\ ~Entry.ext => Kept(parts', Entry)
      PROVE  KeptInv'
  <2>1. CASE ~Primary
    <3>1. stack'[1].i = stack[1].i
      BY <1>0, <1>2, <2>1, AdvancedIs DEF Primary
    <3> QED
      BY <1>1, <1>2, <3>1 DEF AtEntry
  <2>2. CASE Primary
    <3>1. Top = stack[1] /\ Entry = disk[0][stack[1].i]
      BY <1>0, <2>2 DEF Primary, Top, Entry
    <3>2. stack'[1].i = stack[1].i + 1
      BY <1>0, <1>2, <2>2, AdvancedIs DEF Primary
    <3>3. phase = "loading"
      BY <1>2 DEF AtEntry
    <3>4. \A e : Kept(parts, e) => Kept(parts', e)
      BY <1>2, <3>3, AddKeeps, KeptGrew
    <3>5. ASSUME NEW j \in 1 .. Len(disk[0]), j < stack'[1].i,
                 disk[0][j].size > 0, ~disk[0][j].ext
          PROVE  Kept(parts', disk[0][j])
      <4>1. CASE j < stack[1].i
        <5>1. stack[1].i > 0
          BY <1>0, <4>1
        <5> QED
          BY <3>3, <3>4, <3>5, <4>1, <5>1 DEF KeptInv
      <4>2. CASE j = stack[1].i
        <5>1. Top.i > 0 /\ disk[0][j] = Entry
          BY <1>0, <3>1, <4>2
        <5> QED
          BY <1>2, <2>2, <3>5, <5>1
      <4> QED
        BY <1>0, <3>2, <3>5, <4>1, <4>2
    <3> QED
      BY <1>2, <3>3, <3>5 DEF KeptInv
  <2> QED
    BY <2>1, <2>2
<1>3. CASE ReadTable
  <2>1. \E v \in Volumes : Add(v)
    BY <1>3, LoadedVolume
  <2> QED
    BY <1>2, <1>3, <2>1 DEF ReadTable
<1>4. CASE SkipUnused
  BY <1>2, <1>4 DEF SkipUnused, partVars
<1>5. CASE AddPartition
  <2>1. AtEntry /\ stack' = Advanced /\ phase' = phase /\ disk' = disk
    BY <1>5 DEF AddPartition
  <2> DEFINE v == Volume(PartStart, Entry.size, "ALLOC")
  <2>2. Add(v) /\ phase # "closed"
    BY <1>5 DEF AddPartition, AtEntry
  <2>3. v \in Volumes /\ v.start = PartStart /\ v.len = Entry.size /\ v.flag = "ALLOC"
    <3>1. PartStart \in Nat /\ Entry.size \in Nat
      BY <2>1, EntryIs DEF Frames, Entries, PartStart
    <3> QED
      BY <3>1, VolumeIs DEF Volume
  <2> HIDE DEF v
  <2>4. Grew(parts, v, parts')
    BY <2>2, <2>3, AddKeeps
  <2>5. Primary => PartStart = Entry.start
    BY <1>0, <2>1, EntryIs DEF Primary, Top, PartStart, Entries
  <2>6. Primary => Kept(parts', Entry)
    BY <2>3, <2>4, <2>5 DEF Grew, Kept, Same
  <2> QED
    BY <1>2, <2>1, <2>2, <2>3, <2>6
<1>6. CASE AddExtended
  <2>1. AtEntry /\ Entry.ext /\ phase' = phase /\ disk' = disk /\ (\E v \in Volumes : Add(v))
    BY <1>6, LoadedVolume DEF AddExtended
  <2>2. stack' = Advanced \/ \E f \in Frames : stack' = Append(Advanced, f)
    <3>1. PICK a, b : stack' = Advanced
                      \/ (stack' = Append(Advanced, Frame(a, b)) /\ a \in Nat /\ b \in Nat)
      <4> DEFINE a == Top.sect_ext_base + Entry.start
                 b == IF Primary THEN a ELSE Top.sect_ext_base
      <4>1. a \in Nat /\ b \in Nat
        BY <2>1, EntryIs DEF Frames, Entries
      <4>2. stack' = Advanced \/ stack' = Append(Advanced, Frame(a, b))
        BY <1>6 DEF AddExtended
      <4> QED
        BY <4>1, <4>2
    <3> QED
      BY <3>1 DEF Frame, Frames
  <2>3. stack'[1].i = Advanced[1].i
    BY <1>0, <2>2, PushedIs
  <2> QED
    BY <1>2, <2>1, <2>3
<1>7. ASSUME NEW m \in 1 .. Len(stack), stack' = SubSeq(stack, 1, m)
      PROVE  stack'[1].i = stack[1].i
  BY <1>0, <1>7, PoppedIs
<1>8. CASE Return
  <2>1. CASE ~Primary /\ stack' = SubSeq(stack, 1, Len(stack) - 1) /\ UNCHANGED partVars
    <3> DEFINE n == Len(stack)
    <3>1. n \in Nat /\ n \in 1 .. n /\ n # 1
      BY <1>0, <2>1 DEF Primary, LoadInv
    <3> HIDE DEF n
    <3>2. n - 1 \in 1 .. n
      BY <3>1
    <3>3. stack'[1].i = stack[1].i
      BY <1>7, <2>1, <3>2 DEF n
    <3> QED
      BY <1>1, <1>8, <2>1, <3>3 DEF Return, partVars
  <2>2. CASE Primary /\ Loaded /\ UNCHANGED stack
    <3>1. Top = stack[1]
      BY <2>2 DEF Primary, Top
    <3>2. phase = "loading" /\ Top.i > 0 /\ Top.i > Len(disk[Top.sect_cur]) /\ disk' = disk
      BY <1>8 DEF Return
    <3> QED
      BY <1>0, <2>2, <3>1, <3>2 DEF Loaded, KeptInv
  <2> QED
    BY <1>8, <2>1, <2>2 DEF Return
<1>9. CASE GiveUp
  <2>1. stack'[1].i = stack[1].i
    BY <1>0, <1>7, <1>9 DEF GiveUp, GivenUp
  <2> QED
    BY <1>1, <1>9, <2>1 DEF GiveUp, partVars
<1>10. CASE FillBefore /\ UNCHANGED <<disk, stack>>
  <2>1. CASE UNCHANGED parts
    BY <1>1, <1>10, <2>1 DEF FillBefore
  <2>2. CASE parts[cur].flag # "META" /\ parts[cur].start > prev_end
    BY <1>1, <1>10, <2>2, FillsIn DEF FillBefore
  <2> QED
    BY <1>10, <2>1, <2>2 DEF FillBefore
<1>11. CASE FillTail /\ UNCHANGED <<disk, stack>>
  <2>1. CASE UNCHANGED parts
    BY <1>11, <2>1 DEF FillTail, KeptInv
  <2>2. CASE prev_end < ImgSectors /\ Add(Unalloc(prev_end, ImgSectors))
    <3>1. prev_end \in Nat /\ ImgSectors \in Nat
      BY ImgAssumption DEF VolumeInv
    <3>2. ImgSectors - prev_end \in Nat
      BY <2>2, <3>1
    <3>3. Unalloc(prev_end, ImgSectors) \in Volumes
      BY <3>1, <3>2, VolumeIs DEF Unalloc
    <3>4. Grew(parts, Unalloc(prev_end, ImgSectors), parts')
      BY <1>11, <2>2, <3>3, AddKeeps DEF FillTail
    <3>5. \A e : Kept(parts, e) => Kept(parts', e)
      BY <3>4, KeptGrew
    <3> QED
      BY <1>11, <3>5 DEF FillTail, KeptInv
  <2> QED
    BY <1>11, <2>1, <2>2 DEF FillTail, TailSectors
<1>12. CASE Close
  BY <1>12 DEF Close, KeptInv
<1>13. CASE UNCHANGED vars
  BY <1>13 DEF vars, KeptInv
<1> QED
  BY <1>3, <1>4, <1>5, <1>6, <1>8, <1>9, <1>10, <1>11, <1>12, <1>13 DEF Next, LoadStep

(* Whatever happens in the extended tables, all partitions of the primary  *)
(* table are there (dos.c:986 "Error loading extended table, moving on").  *)
THEOREM PrimaryIsKept == Spec => []PrimaryKept
<1>1. ASSUME LoadInv, KeptInv PROVE PrimaryKept
  <2> SUFFICES ASSUME phase \in {"filling", "open"}, NEW x \in PrimaryPartitions
               PROVE  x \in Partitions
    BY DEF PrimaryKept
  <2>1. PICK e \in Used(0, FALSE) : x = Extent(0, e)
    BY DEF PrimaryPartitions
  <2>2. 0 \in DOMAIN disk
    BY DEF Used
  <2>3. PICK j \in 1 .. Len(disk[0]) :
           disk[0][j].size > 0 /\ disk[0][j].ext = FALSE /\ e = disk[0][j]
    BY <2>2 DEF Used
  <2>4. disk[0] \in Seq(Entries)
    BY <1>1, <2>2, DiskAssumption DEF LoadInv, Entries
  <2>5. e \in Entries
    BY <2>3, <2>4
  <2>6. stack[1] \in Frames
    BY <1>1 DEF LoadInv
  <2>7. j < stack[1].i
    BY <1>1, <2>4, <2>6 DEF KeptInv, Frames
  <2>8. PICK k \in 1 .. Len(parts) :
           parts[k].flag = "ALLOC" /\ parts[k].start = e.start /\ parts[k].len = e.size
    BY <1>1, <2>3, <2>7 DEF KeptInv, Kept
  <2>9. x = [start |-> parts[k].start, len |-> parts[k].len]
    BY <2>1, <2>5, <2>8 DEF Extent, Entries
  <2>10. parts[k] \in Having("ALLOC")
    BY <2>8 DEF Having
  <2> QED
    BY <2>9, <2>10 DEF Partitions
<1> QED
  BY <1>1, ListInvariance, KeptInvInit, KeptInvStep, PTL DEF Spec

-----------------------------------------------------------------------------
(* What the walk leaves between the volumes is in none of them, if no two  *)
(* partitions overlap: then the end of the last volume is the end of all   *)
(* before it.                                                              *)
Clear(v, w) == v.start + v.len <= w.start \/ w.start + w.len <= v.start

Apart(list) ==
  \A k, m \in 1 .. Len(list) :
    k # m /\ list[k].flag = "ALLOC" /\ list[m].flag = "ALLOC" => Clear(list[k], list[m])

Solid(list) == \A k \in 1 .. Len(list) : list[k].flag = "ALLOC" => list[k].len > 0

OnlyTables(list) == \A k \in 1 .. Len(list) : list[k].flag # "UNALLOC"

Unused(list) ==
  \A k, m \in 1 .. Len(list) :
    list[k].flag = "ALLOC" /\ list[m].flag = "UNALLOC" => Clear(list[k], list[m])

WalkedTo(list, c, end) ==
  /\ \A k \in 1 .. Len(list) :
       k < c /\ list[k].flag # "META" => list[k].start + list[k].len <= end
  /\ \A k \in 1 .. Len(list) : k >= c => list[k].flag # "UNALLOC"
  /\ \/ end = 0
     \/ \E k \in 1 .. Len(list) :
          k < c /\ list[k].flag = "ALLOC" /\ list[k].start + list[k].len = end

UnusedInv ==
  /\ Solid(parts)
  /\ phase = "loading" => OnlyTables(parts)
  /\ Apart(parts) =>
       /\ Unused(parts)
       /\ phase = "filling" => WalkedTo(parts, cur, prev_end)

LEMMA UnusedInvInit == Init => UnusedInv
  BY DEF Init, VsInit, UnusedInv, Solid, OnlyTables, Unused

LEMMA SolidGrew ==
  ASSUME NEW list, NEW new, NEW v, Grew(list, v, new), Solid(list),
         v.flag = "ALLOC" => v.len > 0
  PROVE  Solid(new)
<1> SUFFICES ASSUME NEW m \in 1 .. Len(new), new[m].flag = "ALLOC"
             PROVE  new[m].len > 0
  BY DEF Solid
<1>1. CASE Same(new[m], v)
  BY <1>1 DEF Same
<1>2. ASSUME NEW k \in 1 .. Len(list), Same(new[m], list[k])
      PROVE  new[m].len > 0
  BY <1>2 DEF Same, Solid
<1> QED
  BY <1>1, <1>2 DEF Grew

LEMMA OnlyTablesGrew ==
  ASSUME NEW list, NEW new, NEW v, Grew(list, v, new), OnlyTables(list), v.flag # "UNALLOC"
  PROVE  OnlyTables(new)
<1> SUFFICES ASSUME NEW m \in 1 .. Len(new)
             PROVE  new[m].flag # "UNALLOC"
  BY DEF OnlyTables
<1>1. CASE Same(new[m], v)
  BY <1>1 DEF Same
<1>2. ASSUME NEW k \in 1 .. Len(list), Same(new[m], list[k])
      PROVE  new[m].flag # "UNALLOC"
  BY <1>2 DEF Same, OnlyTables
<1> QED
  BY <1>1, <1>2 DEF Grew

(* Partitions that are apart were so before. *)
LEMMA ApartBefore ==
  ASSUME NEW list, Len(list) \in Nat, NEW new, NEW v, NEW i, Grown(list, v, i, new), Apart(new)
  PROVE  Apart(list)
<1> SUFFICES ASSUME NEW k \in 1 .. Len(list), NEW m \in 1 .. Len(list), k # m,
                    list[k].flag = "ALLOC", list[m].flag = "ALLOC"
             PROVE  Clear(list[k], list[m])
  BY DEF Apart
<1> DEFINE moved(n) == IF n < i THEN n ELSE n + 1
<1>1. i \in 1 .. Len(list) + 1 /\ Len(new) = Len(list) + 1
  BY DEF Grown
<1>2. ASSUME NEW n \in 1 .. Len(list)
      PROVE  moved(n) \in 1 .. Len(new) /\ Same(new[moved(n)], list[n])
  <2>1. CASE n < i
    BY <1>1, <2>1 DEF Grown, Same
  <2>2. CASE ~(n < i)
    <3>1. n >= i /\ n + 1 \in 1 .. Len(new)
      BY <1>1, <2>2
    <3>2. Same(new[n + 1], list[n])
      BY <3>1 DEF Grown
    <3> QED
      BY <2>2, <3>1, <3>2
  <2> QED
    BY <2>1, <2>2
<1>3. moved(k) # moved(m)
  BY <1>1
<1> HIDE DEF moved
<1>4. Clear(new[moved(k)], new[moved(m)])
  BY <1>2, <1>3 DEF Apart, Same
<1> QED
  BY <1>2, <1>4 DEF Clear, Same

(* An unallocated volume that is clear of the partitions *)
LEMMA UnusedGrew ==
  ASSUME NEW list, NEW new, NEW v, Grew(list, v, new), Unused(list), v.flag = "UNALLOC",
         \A k \in 1 .. Len(list) : list[k].flag = "ALLOC" => Clear(list[k], v)
  PROVE  Unused(new)
<1> SUFFICES ASSUME NEW k \in 1 .. Len(new), NEW m \in 1 .. Len(new),
                    new[k].flag = "ALLOC", new[m].flag = "UNALLOC"
             PROVE  Clear(new[k], new[m])
  BY DEF Unused
<1>1. PICK a \in 1 .. Len(list) : Same(new[k], list[a])
  BY DEF Grew, Same
<1>2. CASE Same(new[m], v)
  BY <1>1, <1>2 DEF Same, Clear
<1>3. ASSUME NEW b \in 1 .. Len(list), Same(new[m], list[b]) PROVE Clear(new[k], new[m])
  BY <1>1, <1>3 DEF Same, Clear, Unused
<1> QED
  BY <1>2, <1>3 DEF Grew

(* Numbers of the volumes of the list *)
LEMMA PartsAre ==
  ASSUME VolumeInv
  PROVE  /\ Len(parts) \in Nat
         /\ \A k \in 1 .. Len(parts) : parts[k].start \in Nat /\ parts[k].len \in Nat
         /\ \A k, m \in 1 .. Len(parts) : k <= m => parts[k].start <= parts[m].start
<1>1. parts \in Seq(Volumes)
  BY DEF VolumeInv, Listed
<1>2. \A k \in 1 .. Len(parts) : parts[k] \in Volumes
  BY <1>1
<1>3. \A k \in 1 .. Len(parts) : parts[k].start \in Nat /\ parts[k].len \in Nat
  BY <1>2 DEF Volumes
<1>4. \A k, m \in 1 .. Len(parts) : k <= m => parts[k].start <= parts[m].start
  BY DEF VolumeInv, Listed, Ordered
<1>5. Len(parts) \in Nat
  BY <1>1
<1> QED
  BY <1>3, <1>4, <1>5

(* Going past a volume that starts before the end: it starts right there.  *)
LEMMA WalkPast ==
  ASSUME VolumeInv, Solid(parts), Apart(parts), WalkedTo(parts, cur, prev_end),
         cur \in 1 .. Len(parts), parts[cur].flag # "META", parts[cur].start <= prev_end
  PROVE  WalkedTo(parts, cur + 1, parts[cur].start + parts[cur].len)
<1> DEFINE end == parts[cur].start + parts[cur].len
<1>1. /\ Len(parts) \in Nat /\ prev_end \in Nat
      /\ \A k \in 1 .. Len(parts) : parts[k].start \in Nat /\ parts[k].len \in Nat
      /\ \A k, m \in 1 .. Len(parts) : k <= m => parts[k].start <= parts[m].start
  BY PartsAre DEF VolumeInv
<1>2. parts[cur].flag = "ALLOC" /\ parts[cur].len > 0
  <2>1. parts[cur].flag # "UNALLOC" /\ parts[cur] \in Volumes
    BY <1>1 DEF WalkedTo, VolumeInv, Listed
  <2>2. parts[cur].flag = "ALLOC"
    BY <2>1 DEF Volumes
  <2> QED
    BY <2>2 DEF Solid
<1>3. end \in Nat /\ prev_end <= end
  <2>1. CASE prev_end = 0
    BY <1>1, <2>1
  <2>2. ASSUME NEW k \in 1 .. Len(parts), k < cur, parts[k].flag = "ALLOC",
               parts[k].start + parts[k].len = prev_end
        PROVE  prev_end <= end
    <3>1. Clear(parts[k], parts[cur]) /\ parts[k].start <= parts[cur].start
      BY <1>1, <1>2, <2>2 DEF Apart
    <3> QED
      BY <1>1, <1>2, <2>2, <3>1 DEF Clear
  <2> QED
    BY <1>1, <2>1, <2>2 DEF WalkedTo
<1>4. ASSUME NEW k \in 1 .. Len(parts), k < cur + 1, parts[k].flag # "META"
      PROVE  parts[k].start + parts[k].len <= end
  <2>1. CASE k = cur
    BY <1>1, <2>1
  <2>2. CASE k < cur
    <3>1. parts[k].start + parts[k].len <= prev_end
      BY <1>4, <2>2 DEF WalkedTo
    <3>2. parts[k].start + parts[k].len \in Nat
      BY <1>1
    <3> HIDE DEF end
    <3> QED
      BY <1>1, <1>3, <3>1, <3>2
  <2> QED
    BY <1>1, <1>4, <2>1, <2>2
<1>5. \A k \in 1 .. Len(parts) : k >= cur + 1 => parts[k].flag # "UNALLOC"
  BY <1>1 DEF WalkedTo
<1>6. cur < cur + 1
  BY <1>1
<1> QED
  BY <1>2, <1>4, <1>5, <1>6 DEF WalkedTo

(* Filling the gap before a volume: what was added lies between what is    *)
(* behind the walk and what is ahead of it.                                *)
LEMMA WalkIn ==
  ASSUME VolumeInv, Unused(parts), WalkedTo(parts, cur, prev_end),
         cur \in 1 .. Len(parts), parts[cur].flag # "META", parts[cur].start > prev_end,
         NEW v \in Volumes, v.start = prev_end, v.start + v.len = parts[cur].start,
         v.flag = "UNALLOC", parts' = PartAdd(parts, v)
  PROVE  /\ Unused(parts')
         /\ WalkedTo(parts', cur + 2, parts[cur].start + parts[cur].len)
<1> DEFINE end == parts[cur].start + parts[cur].len
           i == Place(parts, v.start)
<1>0. Listed(parts)
  BY DEF VolumeInv
<1>1. /\ Len(parts) \in Nat /\ prev_end \in Nat
      /\ \A k \in 1 .. Len(parts) : parts[k].start \in Nat /\ parts[k].len \in Nat
      /\ \A k, m \in 1 .. Len(parts) : k <= m => parts[k].start <= parts[m].start
  BY PartsAre DEF VolumeInv
<1>2. /\ Len(parts') = Len(parts) + 1
      /\ i \in 1 .. Len(parts) + 1
      /\ \A k \in 1 .. Len(parts) : k < i => parts'[k] = parts[k]
      /\ Same(parts'[i], v)
      /\ \A k \in 1 .. Len(parts) : k >= i => Same(parts'[k + 1], parts[k])
  <2>1. Grown(parts, v, i, parts')
    BY <1>0, PartAddIs
  <2> QED
    BY <2>1 DEF Grown
<1>3. i <= cur
  <2>1. \A k \in 1 .. Len(parts) : k < i => parts[k].start <= v.start
    BY <1>0, PlaceIs DEF Listed, Volumes
  <2>2. ~(parts[cur].start <= v.start)
    BY <1>1
  <2>3. ~(cur < i)
    BY <2>1, <2>2
  <2> QED
    BY <1>1, <1>2, <2>3
<1> HIDE DEF i
<1>4. Unused(parts')
  <2>1. ASSUME NEW k \in 1 .. Len(parts), parts[k].flag = "ALLOC" PROVE Clear(parts[k], v)
    <3>1. CASE k < cur
      BY <2>1, <3>1 DEF WalkedTo, Clear
    <3>2. CASE k >= cur
      <4>1. parts[cur].start <= parts[k].start
        BY <1>1, <3>2
      <4> QED
        BY <4>1 DEF Clear
    <3> QED
      BY <1>1, <3>1, <3>2
  <2>2. Grew(parts, v, parts')
    BY <1>0, PartAddGrew
  <2> QED
    BY <2>1, <2>2, UnusedGrew
<1>5. end \in Nat /\ prev_end <= end /\ parts[cur].start <= end
  BY <1>1
<1>6. ASSUME NEW k \in 1 .. Len(parts'), k < cur + 2, parts'[k].flag # "META"
      PROVE  parts'[k].start + parts'[k].len <= end
  <2>1. CASE k < i
    <3>1. k \in 1 .. Len(parts) /\ k < cur /\ parts'[k] = parts[k]
      BY <1>1, <1>2, <1>3, <2>1
    <3>2. parts[k].start + parts[k].len <= prev_end /\ parts[k].start + parts[k].len \in Nat
      BY <1>1, <1>6, <3>1 DEF WalkedTo
    <3> HIDE DEF end
    <3> QED
      BY <1>1, <1>5, <3>1, <3>2
  <2>2. CASE k = i
    BY <1>2, <1>5, <2>2 DEF Same
  <2>3. CASE k > i
    <3> DEFINE n == k - 1
    <3>1. n \in 1 .. Len(parts) /\ n >= i /\ n + 1 = k /\ n <= cur
      BY <1>1, <1>2, <1>3, <1>6, <2>3
    <3> HIDE DEF n
    <3>2. Same(parts'[k], parts[n])
      BY <1>2, <3>1
    <3>3. CASE n = cur
      BY <1>1, <3>2, <3>3 DEF Same
    <3>4. CASE n < cur
      <4>1. parts[n].flag # "META"
        BY <1>6, <3>2 DEF Same
      <4>2. parts[n].start + parts[n].len <= prev_end /\ parts[n].start + parts[n].len \in Nat
        BY <1>1, <3>1, <3>4, <4>1 DEF WalkedTo
      <4>3. parts'[k].start + parts'[k].len = parts[n].start + parts[n].len
        BY <3>2 DEF Same
      <4> HIDE DEF end
      <4> QED
        BY <1>1, <1>5, <4>2, <4>3
    <3> QED
      BY <1>1, <3>1, <3>3, <3>4
  <2> QED
    BY <1>1, <1>2, <2>1, <2>2, <2>3
<1>7. ASSUME NEW k \in 1 .. Len(parts'), k >= cur + 2 PROVE parts'[k].flag # "UNALLOC"
  <2> DEFINE n == k - 1
  <2>1. n \in 1 .. Len(parts) /\ n >= i /\ n + 1 = k /\ n >= cur
    BY <1>1, <1>2, <1>3, <1>7
  <2> HIDE DEF n
  <2>2. Same(parts'[k], parts[n])
    BY <1>2, <2>1
  <2> QED
    BY <2>1, <2>2 DEF WalkedTo, Same
<1>8. /\ cur + 1 \in 1 .. Len(parts') /\ cur + 1 < cur + 2
      /\ parts'[cur + 1].flag = "ALLOC"
      /\ parts'[cur + 1].start + parts'[cur + 1].len = end
  <2>1. cur >= i /\ cur + 1 \in 1 .. Len(parts') /\ cur + 1 < cur + 2
    BY <1>1, <1>2, <1>3
  <2>2. Same(parts'[cur + 1], parts[cur])
    BY <1>2, <2>1
  <2>3. parts[cur].flag # "UNALLOC" /\ parts[cur] \in Volumes
    BY <1>0, <1>1 DEF WalkedTo, Listed
  <2>4. parts[cur].flag = "ALLOC"
    BY <2>3 DEF Volumes
  <2> QED
    BY <2>1, <2>2, <2>4 DEF Same
<1>9. \E k \in 1 .. Len(parts') :
        k < cur + 2 /\ parts'[k].flag = "ALLOC" /\ parts'[k].start + parts'[k].len = end
  BY <1>8
<1>10. WalkedTo(parts', cur + 2, end)
  BY <1>6, <1>7, <1>9 DEF WalkedTo
<1> QED
  BY <1>4, <1>10

(* The end of the image is behind all of them. *)
LEMMA WalkOut ==
  ASSUME VolumeInv, Unused(parts), WalkedTo(parts, cur, prev_end), cur > Len(parts),
         cur \in Nat, NEW v \in Volumes, v.start = prev_end, v.flag = "UNALLOC",
         parts' = PartAdd(parts, v)
  PROVE  Unused(parts')
<1>1. Len(parts) \in Nat /\ Listed(parts)
  BY PartsAre DEF VolumeInv
<1>2. ASSUME NEW k \in 1 .. Len(parts), parts[k].flag = "ALLOC" PROVE Clear(parts[k], v)
  <2>1. k < cur
    BY <1>1
  <2> QED
    BY <1>2, <2>1 DEF WalkedTo, Clear
<1>3. Grew(parts, v, parts')
  BY <1>1, PartAddGrew
<1> QED
  BY <1>2, <1>3, UnusedGrew

(* Volumes are only added, so that partitions that are apart were so. *)
LEMMA AddApart ==
  ASSUME VolumeInv, NEW v \in Volumes, Add(v), Apart(parts')
  PROVE  Apart(parts)
<1>1. Listed(parts) /\ Len(parts) \in Nat /\ parts' = PartAdd(parts, v)
  BY DEF VolumeInv, Listed, Add
<1>2. Grown(parts, v, Place(parts, v.start), parts')
  BY <1>1, PartAddIs
<1> QED
  BY <1>1, <1>2, ApartBefore

LEMMA UnusedInvStep ==
  LoadInv /\ VolumeInv /\ UnusedInv /\ [Next]_vars => UnusedInv'
<1> SUFFICES ASSUME LoadInv, VolumeInv, UnusedInv, [Next]_vars PROVE UnusedInv'
  OBVIOUS
<1>0. Len(parts) \in Nat /\ prev_end \in Nat /\ ImgSectors \in Nat
  BY PartsAre, ImgAssumption DEF VolumeInv
<1>1. CASE ReadTable \/ AddPartition \/ AddExtended
  <2>1. phase = "loading" /\ phase' = "loading"
    BY <1>1, LoadedVolume
  <2>2. PICK v \in Volumes :
          Add(v) /\ v.flag # "UNALLOC" /\ (v.flag = "ALLOC" => v.len > 0)
    BY <1>1, LoadedVolume
  <2>3. Grew(parts, v, parts')
    BY <2>1, <2>2, AddKeeps
  <2>4. Solid(parts')
    BY <2>2, <2>3, SolidGrew DEF UnusedInv
  <2>5. OnlyTables(parts')
    BY <2>1, <2>2, <2>3, OnlyTablesGrew DEF UnusedInv
  <2> QED
    BY <2>1, <2>4, <2>5 DEF UnusedInv, OnlyTables, Unused
<1>2. CASE FillBefore
  <2>1. phase = "filling" /\ phase' = "filling" /\ cur \in 1 .. Len(parts)
    BY <1>2, CurIs DEF FillBefore
  <2>2. Apart(parts) => Unused(parts) /\ WalkedTo(parts, cur, prev_end)
    BY <2>1 DEF UnusedInv
  <2>3. CASE parts[cur].flag = "META" /\ cur' = cur + 1 /\ UNCHANGED <<parts, prev_end>>
    <3>1. ASSUME WalkedTo(parts, cur, prev_end) PROVE WalkedTo(parts, cur + 1, prev_end)
      <4>1. \A k \in 1 .. Len(parts) : k < cur + 1 => k < cur \/ k = cur
        BY <2>1
      <4>2. \A k \in 1 .. Len(parts) : k >= cur + 1 => k >= cur
        BY <2>1
      <4>3. \A k \in 1 .. Len(parts) : k < cur => k < cur + 1
        BY <2>1
      <4> QED
        BY <2>3, <3>1, <4>1, <4>2, <4>3 DEF WalkedTo
    <3> QED
      BY <2>1, <2>2, <2>3, <3>1 DEF UnusedInv
  <2>4. CASE /\ parts[cur].flag # "META" /\ parts[cur].start <= prev_end
             /\ cur' = cur + 1 /\ prev_end' = parts[cur].start + parts[cur].len
             /\ UNCHANGED parts
    <3>1. Apart(parts) => WalkedTo(parts, cur + 1, parts[cur].start + parts[cur].len)
      BY <2>1, <2>2, <2>4, WalkPast DEF UnusedInv
    <3> QED
      BY <2>1, <2>2, <2>4, <3>1 DEF UnusedInv
  <2>5. CASE parts[cur].flag # "META" /\ parts[cur].start > prev_end
    <3> DEFINE v == Unalloc(prev_end, parts[cur].start)
    <3>1. /\ v \in Volumes /\ Add(v) /\ cur' = cur + 2
          /\ prev_end' = parts[cur].start + parts[cur].len
      BY <1>2, <2>5, FillsIn
    <3>2. parts[cur].start \in Nat
      BY <2>1, PartsAre
    <3>3. v.start = prev_end /\ v.start + v.len = parts[cur].start /\ v.flag = "UNALLOC"
      BY <1>0, <3>2 DEF Unalloc, Volume
    <3> HIDE DEF v
    <3>4. Solid(parts')
      BY <2>1, <3>1, <3>3, AddKeeps, SolidGrew DEF UnusedInv
    <3>5. ASSUME Apart(parts') PROVE Unused(parts') /\ WalkedTo(parts', cur', prev_end')
      <4>1. Apart(parts)
        BY <3>1, <3>5, AddApart
      <4>2. parts' = PartAdd(parts, v)
        BY <3>1 DEF Add
      <4>3. Unused(parts') /\ WalkedTo(parts', cur + 2, parts[cur].start + parts[cur].len)
        BY <2>1, <2>2, <2>5, <3>1, <3>3, <4>1, <4>2, WalkIn
      <4> QED
        BY <3>1, <4>3
    <3> QED
      BY <2>1, <3>4, <3>5 DEF UnusedInv
  <2> QED
    BY <1>2, <2>3, <2>4, <2>5 DEF FillBefore
<1>3. CASE FillTail
  <2>1. phase = "filling" /\ phase' = "open" /\ cur > Len(parts) /\ cur \in Nat
    BY <1>0, <1>3 DEF FillTail, VolumeInv
  <2>2. CASE prev_end < ImgSectors
    <3> DEFINE v == Unalloc(prev_end, ImgSectors)
    <3>1. ImgSectors - prev_end \in Nat
      BY <1>0, <2>2
    <3>2. v \in Volumes /\ v.start = prev_end /\ v.flag = "UNALLOC"
      BY <1>0, <3>1, VolumeIs DEF Unalloc, Volume
    <3>3. Add(v)
      BY <1>3, <2>2 DEF FillTail, TailSectors
    <3> HIDE DEF v
    <3>4. Solid(parts')
      BY <2>1, <3>2, <3>3, AddKeeps, SolidGrew DEF UnusedInv
    <3>5. ASSUME Apart(parts') PROVE Unused(parts')
      <4>1. Apart(parts)
        BY <3>2, <3>3, <3>5, AddApart
      <4>2. Unused(parts) /\ WalkedTo(parts, cur, prev_end)
        BY <2>1, <4>1 DEF UnusedInv
      <4>3. parts' = PartAdd(parts, v)
        BY <3>3 DEF Add
      <4> QED
        BY <2>1, <3>2, <4>2, <4>3, WalkOut
    <3> QED
      BY <2>1, <3>4, <3>5 DEF UnusedInv
  <2>3. CASE UNCHANGED parts
    BY <2>1, <2>3 DEF UnusedInv
  <2> QED
    BY <1>3, <2>2, <2>3 DEF FillTail, TailSectors
<1>4. CASE Close
  BY <1>4 DEF Close, UnusedInv, Solid, Unused
<1>5. CASE UNCHANGED <<parts, phase, cur, prev_end>>
  BY <1>5 DEF UnusedInv
<1>6. CASE Return
  <2>1. CASE UNCHANGED partVars
    BY <1>5, <2>1 DEF partVars
  <2>2. CASE phase = "loading" /\ Loaded
    <3>1. UNCHANGED parts /\ phase' = "filling" /\ cur' = 1 /\ prev_end' = 0
      BY <2>2 DEF Loaded, VolumeInv
    <3>2. Solid(parts) /\ OnlyTables(parts)
      BY <2>2 DEF UnusedInv
    <3>3. WalkedTo(parts, 1, 0)
      BY <1>0, <3>2 DEF WalkedTo, OnlyTables
    <3> QED
      BY <3>1, <3>2, <3>3 DEF UnusedInv, Unused, OnlyTables
  <2> QED
    BY <1>6, <2>1, <2>2 DEF Return
<1> QED
  BY <1>1, <1>2, <1>3, <1>4, <1>5, <1>6
  DEF Next, LoadStep, SkipUnused, GiveUp, vars, partVars

(* Unless partitions overlap, no sector of one is in an unallocated volume *)
(* (mm_part.c:117 "Identify regions in the partition list where there are  *)
(* unused sectors").                                                       *)
THEOREM UnallocatedIsUnused == Spec => []UnallocIsUnused
<1>1. ASSUME VolumeInv, UnusedInv PROVE UnallocIsUnused
  <2> SUFFICES ASSUME \A v, w \in Having("ALLOC") :
                        v # w => Sectors(v) \intersect Sectors(w) = {},
                      NEW s, s \in SectorsOf("ALLOC"), s \in SectorsOf("UNALLOC")
               PROVE  FALSE
    BY DEF UnallocIsUnused
  <2>0. \A k \in 1 .. Len(parts) :
          parts[k].start \in Nat /\ parts[k].len \in Nat /\ parts[k].addr = k - 1
    BY <1>1, PartsAre DEF VolumeInv, Listed, Numbered
  <2>1. Apart(parts)
    <3> SUFFICES ASSUME NEW k \in 1 .. Len(parts), NEW m \in 1 .. Len(parts), k # m,
                        parts[k].flag = "ALLOC", parts[m].flag = "ALLOC"
                 PROVE  Clear(parts[k], parts[m])
      BY DEF Apart
    <3>1. parts[k] # parts[m]
      <4>1. parts[k].addr # parts[m].addr
        BY <2>0
      <4> QED
        BY <4>1
    <3>2. parts[k] \in Having("ALLOC") /\ parts[m] \in Having("ALLOC")
      BY DEF Having
    <3>3. Sectors(parts[k]) \intersect Sectors(parts[m]) = {}
      BY <3>1, <3>2
    <3>4. parts[k].len > 0 /\ parts[m].len > 0
      BY <1>1 DEF UnusedInv, Solid
    <3> DEFINE a == parts[k].start
               b == parts[k].len
               c == parts[m].start
               d == parts[m].len
    <3>5. a \in Nat /\ b \in Nat /\ c \in Nat /\ d \in Nat /\ b > 0 /\ d > 0
      BY <2>0, <3>4
    <3>6. (a .. a + b - 1) \intersect (c .. c + d - 1) = {}
      BY <3>3 DEF Sectors
    <3> HIDE DEF a, b, c, d
    <3>7. ~(a \in c .. c + d - 1) /\ ~(c \in a .. a + b - 1)
      BY <3>5, <3>6
    <3>8. a + b <= c \/ c + d <= a
      BY <3>5, <3>7
    <3> QED
      BY <3>8 DEF Clear, a, b, c, d
  <2>2. PICK k \in 1 .. Len(parts) : parts[k].flag = "ALLOC" /\ s \in Sectors(parts[k])
    BY DEF SectorsOf, Having
  <2>3. PICK m \in 1 .. Len(parts) : parts[m].flag = "UNALLOC" /\ s \in Sectors(parts[m])
    BY DEF SectorsOf, Having
  <2>4. Clear(parts[k], parts[m])
    BY <1>1, <2>1, <2>2, <2>3 DEF UnusedInv, Unused
  <2> QED
    <3> DEFINE a == parts[k].start
               b == parts[k].len
               c == parts[m].start
               d == parts[m].len
    <3>1. a \in Nat /\ b \in Nat /\ c \in Nat /\ d \in Nat
      BY <2>0
    <3>2. s \in a .. a + b - 1 /\ s \in c .. c + d - 1
      BY <2>2, <2>3 DEF Sectors
    <3>3. a + b <= c \/ c + d <= a
      BY <2>4 DEF Clear
    <3> HIDE DEF a, b, c, d
    <3> QED
      BY <3>1, <3>2, <3>3
<1> QED
  BY <1>1, ListInvariance, UnusedInvInit, UnusedInvStep, PTL DEF Spec
-----------------------------------------------------------------------------
(* The tables: where one is, and the base of its chain *)
Tables == [sect : Nat, base : Nat]

TableOf(frame) == [sect |-> frame.sect_cur, base |-> frame.sect_ext_base]

(* Where the extended entries of the primary table lead to, and those of   *)
(* the tables of a set                                                     *)
First == {[sect |-> e.start, base |-> e.start] : e \in Used(0, TRUE)}

Deeper(tables) ==
  {[sect |-> c.t.base + c.e.start, base |-> c.t.base] :
     c \in {d \in UNION {{[t |-> t, e |-> e] : e \in Used(t.sect, TRUE)} : t \in tables} :
              d.t.base + d.e.start <= max_addr}}

LEMMA UsedIs ==
  ASSUME disk \in Disks, NEW sect, NEW ext
  PROVE  /\ Used(sect, ext) \subseteq Entries
         /\ \A e : e \in Used(sect, ext) <=>
              /\ sect \in DOMAIN disk
              /\ \E j \in 1 .. Len(disk[sect]) :
                   e = disk[sect][j] /\ disk[sect][j].size > 0 /\ disk[sect][j].ext = ext
<1>1. \A e : e \in Used(sect, ext) <=>
              /\ sect \in DOMAIN disk
              /\ \E j \in 1 .. Len(disk[sect]) :
                   e = disk[sect][j] /\ disk[sect][j].size > 0 /\ disk[sect][j].ext = ext
  BY DEF Used
<1>2. ASSUME NEW e \in Used(sect, ext) PROVE e \in Entries
  <2>1. sect \in DOMAIN disk /\ \E j \in 1 .. Len(disk[sect]) : e = disk[sect][j]
    BY <1>1, <1>2
  <2>2. disk[sect] \in Seq(Entries)
    BY <2>1, DiskAssumption DEF Entries
  <2> QED
    BY <2>1, <2>2
<1> QED
  BY <1>1, <1>2

LEMMA DeeperIs ==
  ASSUME NEW tables, NEW t
  PROVE  t \in Deeper(tables) <=>
           \E u \in tables : \E e \in Used(u.sect, TRUE) :
             u.base + e.start <= max_addr /\ t = [sect |-> u.base + e.start, base |-> u.base]
<1>1. ASSUME t \in Deeper(tables)
      PROVE  \E u \in tables : \E e \in Used(u.sect, TRUE) :
               u.base + e.start <= max_addr /\ t = [sect |-> u.base + e.start, base |-> u.base]
  <2>1. PICK c \in UNION {{[t |-> s, e |-> e] : e \in Used(s.sect, TRUE)} : s \in tables} :
          /\ c.t.base + c.e.start <= max_addr
          /\ t = [sect |-> c.t.base + c.e.start, base |-> c.t.base]
    BY <1>1 DEF Deeper
  <2>2. PICK u \in tables : \E e \in Used(u.sect, TRUE) : c = [t |-> u, e |-> e]
    <3>1. PICK own \in {{[t |-> s, e |-> e] : e \in Used(s.sect, TRUE)} : s \in tables} :
            c \in own
      OBVIOUS
    <3>2. PICK u \in tables : own = {[t |-> u, e |-> e] : e \in Used(u.sect, TRUE)}
      BY <3>1
    <3> QED
      BY <3>1, <3>2
  <2>3. PICK e \in Used(u.sect, TRUE) : c = [t |-> u, e |-> e]
    BY <2>2
  <2>4. c.t = u /\ c.e = e
    BY <2>3
  <2> HIDE DEF Used
  <2> QED
    BY <2>1, <2>4
<1>2. ASSUME NEW u \in tables, NEW e \in Used(u.sect, TRUE), u.base + e.start <= max_addr,
             t = [sect |-> u.base + e.start, base |-> u.base]
      PROVE  t \in Deeper(tables)
  <2> DEFINE c == [t |-> u, e |-> e]
  <2>1. c \in UNION {{[t |-> s, e |-> f] : f \in Used(s.sect, TRUE)} : s \in tables}
    <3> DEFINE own == {[t |-> u, e |-> f] : f \in Used(u.sect, TRUE)}
    <3>1. own \in {{[t |-> s, e |-> f] : f \in Used(s.sect, TRUE)} : s \in tables}
      OBVIOUS
    <3>2. c \in own
      OBVIOUS
    <3> QED
      BY <3>1, <3>2
  <2>2. c.t = u /\ c.e = e
    OBVIOUS
  <2> HIDE DEF c
  <2> QED
    BY <1>2, <2>1, <2>2 DEF Deeper
<1> QED
  BY <1>1, <1>2

LEMMA DeeperThanOne ==
  ASSUME NEW tables, NEW t
  PROVE  t \in Deeper(tables) <=> \E u \in tables : t \in Deeper({u})
<1> DEFINE Leads(u) ==
      \E e \in Used(u.sect, TRUE) :
        u.base + e.start <= max_addr /\ t = [sect |-> u.base + e.start, base |-> u.base]
<1>1. t \in Deeper(tables) <=> \E u \in tables : Leads(u)
  BY DeeperIs
<1>2. ASSUME NEW u PROVE t \in Deeper({u}) <=> Leads(u)
  <2> DEFINE one == {u}
  <2>0. \A v : v \in one <=> v = u
    OBVIOUS
  <2> HIDE DEF one
  <2>1. t \in Deeper(one) <=> \E v \in one : Leads(v)
    BY DeeperIs
  <2> HIDE DEF Leads
  <2>2. t \in Deeper(one) <=> Leads(u)
    BY <2>0, <2>1
  <2> QED
    BY <2>2 DEF one
<1> HIDE DEF Leads
<1> QED
  BY <1>1, <1>2

LEMMA TablesAre ==
  ASSUME disk \in Disks, NEW tables, tables \subseteq Tables
  PROVE  First \subseteq Tables /\ Deeper(tables) \subseteq Tables
<1>1. \A s : Used(s, TRUE) \subseteq Entries
  BY UsedIs
<1>2. First \subseteq Tables
  <2>1. ASSUME NEW e \in Used(0, TRUE) PROVE [sect |-> e.start, base |-> e.start] \in Tables
    <3>1. e \in Entries
      BY <1>1
    <3> QED
      BY <3>1 DEF Tables, Entries
  <2> QED
    BY <2>1 DEF First
<1>3. ASSUME NEW t \in Deeper(tables) PROVE t \in Tables
  <2>1. PICK u \in tables : \E e \in Used(u.sect, TRUE) :
           t = [sect |-> u.base + e.start, base |-> u.base]
    <3>1. \E u \in tables : \E e \in Used(u.sect, TRUE) :
            u.base + e.start <= max_addr /\ t = [sect |-> u.base + e.start, base |-> u.base]
      BY <1>3, DeeperIs
    <3> QED
      BY ONLY <3>1, Zenon
  <2>2. PICK e \in Used(u.sect, TRUE) : t = [sect |-> u.base + e.start, base |-> u.base]
    BY <2>1
  <2>3. e \in Entries /\ u \in Tables
    <3>1. Used(u.sect, TRUE) \subseteq Entries
      BY <1>1
    <3> QED
      BY <3>1, Zenon
  <2>4. u.base \in Nat /\ u.base + e.start \in Nat
    BY <2>3 DEF Tables, Entries
  <2> QED
    BY <2>2, <2>4 DEF Tables
<1> QED
  BY <1>2, <1>3

(* A table nests to depth n if a chain of n tables leads to it: that there *)
(* is a function which the recursive definition of Nested describes        *)
LEMMA NestedIs ==
  ASSUME disk \in Disks
  PROVE  /\ Nested[0] = First
         /\ \A n \in Nat : Nested[n + 1] = Deeper(Nested[n])
         /\ \A n \in Nat : Nested[n] \subseteq Tables
<1> DEFINE Chain(c, n) == /\ c \in [0 .. n -> Tables]
                          /\ c[0] \in First
                          /\ \A m \in 1 .. n : c[m] \in Deeper({c[m - 1]})
           f == [n \in Nat |-> {t \in Tables : \E c : Chain(c, n) /\ c[n] = t}]
<1>1. ASSUME NEW t \in Tables PROVE t \in f[0] <=> t \in First
  <2>1. ASSUME t \in First PROVE \E c : Chain(c, 0) /\ c[0] = t
    <3> DEFINE c == [m \in 0 .. 0 |-> t]
    <3>1. Chain(c, 0) /\ c[0] = t
      BY <2>1
    <3> QED
      BY <3>1
  <2>2. f[0] = {s \in Tables : \E c : Chain(c, 0) /\ c[0] = s}
    OBVIOUS
  <2>3. (\E c : Chain(c, 0) /\ c[0] = t) => t \in First
    OBVIOUS
  <2> QED
    BY <2>1, <2>2, <2>3
<1>2. ASSUME NEW n \in Nat, NEW t \in Tables PROVE t \in f[n + 1] <=> t \in Deeper(f[n])
  <2>0. /\ f[n] = {s \in Tables : \E c : Chain(c, n) /\ c[n] = s}
        /\ f[n + 1] = {s \in Tables : \E c : Chain(c, n + 1) /\ c[n + 1] = s}
    <3> HIDE DEF Chain
    <3> QED
      OBVIOUS
  <2>1. ASSUME NEW c, Chain(c, n + 1), c[n + 1] = t PROVE t \in Deeper(f[n])
    <3> DEFINE b == [m \in 0 .. n |-> c[m]]
    <3>1. Chain(b, n)
      <4>1. b \in [0 .. n -> Tables] /\ b[0] = c[0]
        BY <2>1
      <4>2. ASSUME NEW m \in 1 .. n PROVE b[m] \in Deeper({b[m - 1]})
        <5>1. m \in 1 .. n + 1 /\ b[m] = c[m] /\ b[m - 1] = c[m - 1]
          OBVIOUS
        <5> QED
          BY <2>1, <5>1
      <4> QED
        BY <2>1, <4>1, <4>2
    <3>2. b[n] = c[n] /\ c[n] \in Tables
      BY <2>1
    <3>3. c[n] \in f[n]
      <4> HIDE DEF b, Chain
      <4> QED
        BY <2>0, <3>1, <3>2
    <3>4. t \in Deeper({c[n]})
      <4>1. n + 1 \in 1 .. n + 1 /\ n + 1 - 1 = n
        OBVIOUS
      <4> QED
        BY <2>1, <4>1
    <3> HIDE DEF f
    <3> QED
      BY <3>3, <3>4, DeeperThanOne
  <2>2. ASSUME t \in Deeper(f[n]) PROVE \E c : Chain(c, n + 1) /\ c[n + 1] = t
    <3>1. PICK u \in f[n] : t \in Deeper({u})
      <4> HIDE DEF f
      <4> QED
        BY <2>2, DeeperThanOne
    <3>2. PICK b : Chain(b, n) /\ b[n] = u
      BY <2>0, <3>1
    <3> DEFINE c == [m \in 0 .. n + 1 |-> IF m = n + 1 THEN t ELSE b[m]]
    <3>3. c \in [0 .. n + 1 -> Tables] /\ c[n + 1] = t /\ c[0] = b[0]
      BY <3>2
    <3>4. ASSUME NEW m \in 1 .. n + 1 PROVE c[m] \in Deeper({c[m - 1]})
      <4>1. CASE m = n + 1
        <5>1. c[m] = t /\ c[m - 1] = u
          BY <3>2, <4>1
        <5> QED
          BY <3>1, <5>1
      <4>2. CASE m # n + 1
        <5>1. m \in 1 .. n /\ c[m] = b[m] /\ c[m - 1] = b[m - 1]
          BY <4>2
        <5> QED
          BY <3>2, <5>1
      <4> QED
        BY <4>1, <4>2
    <3> QED
      BY <3>2, <3>3, <3>4
  <2> HIDE DEF Chain, f
  <2> QED
    BY <2>0, <2>1, <2>2
<1>3. \A n \in Nat : f[n] \subseteq Tables
  OBVIOUS
<1>4. f = [n \in Nat |-> IF n = 0 THEN First ELSE Deeper(f[n - 1])]
  <2>1. DOMAIN f = Nat
    OBVIOUS
  <2>2. f[0] = First
    <3> HIDE DEF f
    <3> QED
      BY <1>1, <1>3, TablesAre
  <2>3. ASSUME NEW n \in Nat, n # 0 PROVE f[n] = Deeper(f[n - 1])
    <3>1. n - 1 \in Nat /\ n - 1 + 1 = n
      BY <2>3
    <3> HIDE DEF f
    <3> DEFINE m == n - 1
    <3>2. m \in Nat /\ n = m + 1
      BY <3>1
    <3> HIDE DEF m
    <3>3. Deeper(f[m]) \subseteq Tables /\ f[m + 1] \subseteq Tables
      BY <1>3, <3>2, TablesAre
    <3>4. f[m + 1] = Deeper(f[m])
      BY <1>2, <3>2, <3>3
    <3> QED
      BY <3>2, <3>4 DEF m
  <2>4. f = [n \in Nat |-> f[n]]
    OBVIOUS
  <2> HIDE DEF f
  <2> QED
    BY <2>2, <2>3, <2>4
<1> HIDE DEF f
<1>5. Nested = CHOOSE g : g = [n \in Nat |-> IF n = 0 THEN First ELSE Deeper(g[n - 1])]
  BY DEF Nested, First, Deeper
<1>6. Nested = [n \in Nat |-> IF n = 0 THEN First ELSE Deeper(Nested[n - 1])]
  BY <1>4, <1>5
<1>7. Nested[0] = First /\ \A n \in Nat : Nested[n + 1] = Deeper(Nested[n])
  BY <1>6
<1>8. \A n \in Nat : Nested[n] \subseteq Tables
  <2> SUFFICES ASSUME NEW k \in Nat, ~(Nested[k] \subseteq Tables) PROVE FALSE
    OBVIOUS
  <2> DEFINE bad == {n \in Nat : ~(Nested[n] \subseteq Tables)}
  <2>1. PICK n \in bad : \A m \in bad : n <= m
    <3>1. bad \subseteq Nat /\ bad # {}
      OBVIOUS
    <3> HIDE DEF bad
    <3> QED
      BY <3>1, LeastNat
  <2>2. n # 0
    BY <1>7, TablesAre
  <2>3. n - 1 \in Nat /\ n - 1 \notin bad /\ n - 1 + 1 = n
    BY <2>1, <2>2
  <2>4. Nested[n - 1] \subseteq Tables
    BY <2>3
  <2>5. Nested[n] = Deeper(Nested[n - 1])
    BY <1>7, <2>3
  <2> QED
    BY <2>4, <2>5, TablesAre
<1> QED
  BY <1>7, <1>8

(* What adding a volume does to the partitions *)
LEMMA PartitionsGrew ==
  ASSUME VolumeInv, NEW v \in Volumes, Add(v), phase # "closed"
  PROVE  /\ Len(parts) \in Nat /\ Len(parts') = Len(parts) + 1
         /\ Partitions \subseteq Partitions'
         /\ \A x \in Partitions' :
              x \in Partitions \/ (v.flag = "ALLOC" /\ x = [start |-> v.start, len |-> v.len])
         /\ v.flag = "ALLOC" => [start |-> v.start, len |-> v.len] \in Partitions'
<1>1. Grew(parts, v, parts') /\ Len(parts) \in Nat /\ Len(parts') = Len(parts) + 1
  BY AddKeeps
<1>2. \A x : x \in Partitions <=>
        \E k \in 1 .. Len(parts) :
          parts[k].flag = "ALLOC" /\ x = [start |-> parts[k].start, len |-> parts[k].len]
  BY DEF Partitions, Having
<1>3. \A x : x \in Partitions' <=>
        \E k \in 1 .. Len(parts') :
          parts'[k].flag = "ALLOC" /\ x = [start |-> parts'[k].start, len |-> parts'[k].len]
  BY DEF Partitions, Having
<1>4. ASSUME NEW x \in Partitions PROVE x \in Partitions'
  <2>1. PICK k \in 1 .. Len(parts) :
          parts[k].flag = "ALLOC" /\ x = [start |-> parts[k].start, len |-> parts[k].len]
    BY <1>2
  <2>2. PICK m \in 1 .. Len(parts') : Same(parts'[m], parts[k])
    BY <1>1 DEF Grew
  <2> QED
    BY <1>3, <2>1, <2>2 DEF Same
<1>5. ASSUME NEW x \in Partitions', x \notin Partitions
      PROVE  v.flag = "ALLOC" /\ x = [start |-> v.start, len |-> v.len]
  <2>1. PICK m \in 1 .. Len(parts') :
          parts'[m].flag = "ALLOC" /\ x = [start |-> parts'[m].start, len |-> parts'[m].len]
    BY <1>3
  <2>2. ASSUME NEW k \in 1 .. Len(parts), Same(parts'[m], parts[k]) PROVE FALSE
    BY <1>2, <1>5, <2>1, <2>2 DEF Same
  <2>3. Same(parts'[m], v)
    BY <1>1, <2>2 DEF Grew
  <2> QED
    BY <2>1, <2>3 DEF Same
<1>6. v.flag = "ALLOC" => [start |-> v.start, len |-> v.len] \in Partitions'
  BY <1>1, <1>3 DEF Grew, Same
<1> QED
  BY <1>1, <1>4, <1>5, <1>6

-----------------------------------------------------------------------------
(* Every table on the stack is the primary one or nests to its depth, and  *)
(* the list has no other partitions than those of such tables: there are   *)
(* as many volumes as tables, since the entry that led to one was added.   *)
FromInv ==
  phase # "closed" =>
    /\ stack[1].sect_ext_base = 0
    /\ Len(stack) <= Len(parts) + 1
    /\ \A n \in 2 .. Len(stack) : TableOf(stack[n]) \in Nested[n - 2]
    /\ Partitions \subseteq PrimaryPartitions \union LogicalPartitions

LEMMA FromInvInit == Init => FromInv
<1> SUFFICES ASSUME Init PROVE FromInv
  OBVIOUS
<1>1. stack = <<Frame(0, 0)>> /\ parts = <<>>
  BY DEF Init, VsInit
<1>2. Len(stack) = 1 /\ stack[1] = Frame(0, 0) /\ Len(parts) = 0
  BY <1>1
<1>3. Partitions = {}
  BY <1>2 DEF Partitions, Having
<1> QED
  BY <1>2, <1>3 DEF FromInv, Frame

LEMMA StackIs ==
  ASSUME LoadInv
  PROVE  /\ disk \in Disks /\ stack \in Seq(Frames)
         /\ Len(stack) \in Nat /\ Len(stack) >= 1
         /\ \A n \in 1 .. Len(stack) :
              /\ stack[n] \in Frames
              /\ stack[n].sect_cur \in Nat /\ stack[n].sect_ext_base \in Nat
              /\ stack[n].i \in Nat
         /\ Top = stack[Len(stack)] /\ (Primary <=> Len(stack) = 1)
         /\ stack[1].sect_cur = 0
         /\ Primary => Len(stack) - 1 = 0
         /\ ~Primary => /\ Len(stack) - 1 \in 1 .. Len(stack)
                        /\ Len(stack) \in 2 .. Len(stack)
                        /\ Len(stack) - 2 \in Nat
                        /\ Len(stack) - 2 + 1 = Len(stack) - 1
<1>1. stack \in Seq(Frames) /\ Len(stack) >= 1 /\ stack[1].sect_cur = 0 /\ disk \in Disks
  BY DEF LoadInv
<1>2. \A n \in 1 .. Len(stack) : stack[n] \in Frames
  BY <1>1
<1> DEFINE n == Len(stack)
<1>3. n \in Nat /\ n >= 1 /\ (Primary <=> n = 1)
  BY <1>1 DEF Primary
<1> HIDE DEF n
<1>4. n = 1 => n - 1 = 0
  BY <1>3
<1>5. n # 1 => n - 1 \in 1 .. n /\ n \in 2 .. n /\ n - 2 \in Nat /\ n - 2 + 1 = n - 1
  BY <1>3
<1> QED
  BY <1>1, <1>2, <1>3, <1>4, <1>5 DEF Frames, Top, n

(* The partitions that there are to be become more as the list grows. *)
LEMMA LogicalGrew ==
  ASSUME disk' = disk, Len(parts) \in Nat, Len(parts') \in Nat, Len(parts) <= Len(parts')
  PROVE  /\ PrimaryPartitions' = PrimaryPartitions
         /\ LogicalPartitions \subseteq LogicalPartitions'
         /\ Nested' = Nested
<1>1. Nested' = Nested
  BY DEF Nested, Used, max_addr
<1>2. PrimaryPartitions' = PrimaryPartitions
  BY DEF PrimaryPartitions, Used, Extent
<1>3. \A sect : Used(sect, FALSE)' = Used(sect, FALSE)
  BY DEF Used
<1>4. ASSUME NEW x \in LogicalPartitions PROVE x \in LogicalPartitions'
  <2>1. PICK n \in 0 .. Len(parts) : \E t \in Nested[n] : \E e \in Used(t.sect, FALSE) :
           x = Extent(t.sect, e)
    BY DEF LogicalPartitions
  <2>2. n \in 0 .. Len(parts')
    OBVIOUS
  <2>3. PICK t \in Nested[n] : \E e \in Used(t.sect, FALSE) : x = Extent(t.sect, e)
    BY <2>1
  <2> DEFINE own == {Extent(t.sect, f)' : f \in Used(t.sect, FALSE)'}
  <2>4. PICK e \in Used(t.sect, FALSE) : x = Extent(t.sect, e)
    BY <2>3
  <2>5. x \in own
    BY <1>3, <2>4 DEF Extent
  <2>6. t \in UNION {Nested[m]' : m \in 0 .. Len(parts)'}
    BY <1>1, <2>2
  <2>7. own \in {{Extent(s.sect, f)' : f \in Used(s.sect, FALSE)'} :
                  s \in UNION {Nested[m]' : m \in 0 .. Len(parts)'}}
    BY <2>6
  <2> HIDE DEF own
  <2> QED
    BY <2>5, <2>7 DEF LogicalPartitions
<1> QED
  BY <1>1, <1>2, <1>4

LEMMA InLogical ==
  ASSUME NEW n \in 0 .. Len(parts), NEW t \in Nested[n], NEW e \in Used(t.sect, FALSE)
  PROVE  Extent(t.sect, e) \in LogicalPartitions
<1> DEFINE own == {Extent(t.sect, f) : f \in Used(t.sect, FALSE)}
<1>1. Extent(t.sect, e) \in own
  OBVIOUS
<1>2. t \in UNION {Nested[m] : m \in 0 .. Len(parts)}
  OBVIOUS
<1>3. own \in {{Extent(s.sect, f) : f \in Used(s.sect, FALSE)} :
                s \in UNION {Nested[m] : m \in 0 .. Len(parts)}}
  BY <1>2
<1> HIDE DEF own
<1> QED
  BY <1>1, <1>3 DEF LogicalPartitions

(* The entry that comes next, as one of those of its table *)
LEMMA EntryUsed ==
  ASSUME LoadInv, AtEntry, Entry.size > 0
  PROVE  /\ Entry \in Used(Top.sect_cur, Entry.ext)
         /\ Entry \in Entries
         /\ Top.sect_cur \in DOMAIN disk
         /\ Top.i \in 1 .. Len(disk[Top.sect_cur])
         /\ Entry = disk[Top.sect_cur][Top.i]
<1>1. Top.sect_cur \in DOMAIN disk
  BY StackIs DEF AtEntry, LoadInv
<1>2. disk[Top.sect_cur] \in Seq(Entries)
  BY <1>1, DiskAssumption DEF LoadInv, Entries
<1>3. Top.i \in 1 .. Len(disk[Top.sect_cur])
  <2>1. Top.i \in Nat
    BY StackIs
  <2>2. Len(disk[Top.sect_cur]) \in Nat
    BY <1>2
  <2> DEFINE n == Top.i
             m == Len(disk[Top.sect_cur])
  <2>3. n \in Nat /\ m \in Nat /\ n > 0 /\ n <= m
    BY <2>1, <2>2 DEF AtEntry
  <2> HIDE DEF n, m
  <2>4. n \in 1 .. m
    BY <2>3
  <2> QED
    BY <2>4 DEF n, m
<1>4. Entry = disk[Top.sect_cur][Top.i]
  BY DEF Entry
<1>5. Entry \in Used(Top.sect_cur, Entry.ext)
  BY <1>1, <1>3, <1>4, UsedIs DEF LoadInv
<1> QED
  BY <1>1, <1>3, <1>4, <1>5, EntryIs

(* The table to which an extended entry leads *)
ChildOf(t, primary, e) ==
  [sect |-> t.base + e.start, base |-> IF primary THEN t.base + e.start ELSE t.base]

LEMMA NestsDeeper ==
  ASSUME disk \in Disks, NEW n \in Nat, NEW t \in Nested[n], NEW e \in Used(t.sect, TRUE),
         t.base + e.start <= max_addr
  PROVE  ChildOf(t, FALSE, e) \in Nested[n + 1]
<1>1. ChildOf(t, FALSE, e) \in Deeper(Nested[n])
  BY DeeperIs DEF ChildOf
<1> QED
  BY <1>1, NestedIs

(* What a step of an open volume system does to the tables being loaded    *)
(* and to the partitions                                                   *)
Rests ==
  /\ stack' = stack /\ Partitions' \subseteq Partitions
  /\ phase' # "loading" =>
       phase # "loading" \/ (Primary /\ Top.i > 0 /\ Top.i > Len(disk[Top.sect_cur]))

Advances ==
  /\ stack' = Advanced /\ phase' = "loading"
  /\ \/ Top.i = 0 /\ Partitions' \subseteq Partitions
     \/ AtEntry /\ Entry.size = 0 /\ Partitions' \subseteq Partitions
     \/ /\ AtEntry /\ Entry.size > 0 /\ ~Entry.ext
        /\ \A x \in Partitions' : x \in Partitions \/ x = Extent(Top.sect_cur, Entry)
        /\ Extent(Top.sect_cur, Entry) \in Partitions'
     \/ /\ AtEntry /\ Entry.size > 0 /\ Entry.ext /\ Partitions' \subseteq Partitions
        /\ ~Primary /\ Top.sect_ext_base + Entry.start > max_addr

Descends ==
  LET child == ChildOf(TableOf(Top), Primary, Entry) IN
  /\ AtEntry /\ Entry.size > 0 /\ Entry.ext
  /\ Primary \/ ~(Top.sect_ext_base + Entry.start > max_addr)
  /\ stack' = Append(Advanced, Frame(child.sect, child.base)) /\ phase' = "loading"
  /\ Len(parts') = Len(parts) + 1 /\ Partitions' \subseteq Partitions

Returns ==
  /\ ~Primary /\ stack' = SubSeq(stack, 1, Len(stack) - 1) /\ phase' = "loading"
  /\ Top.i > 0 /\ Top.i > Len(disk[Top.sect_cur]) /\ Partitions' \subseteq Partitions

GivesUp == stack' = SubSeq(stack, 1, 1) /\ given_up' = TRUE /\ Partitions' \subseteq Partitions

LEMMA StepIs ==
  ASSUME LoadInv, VolumeInv, [Next]_vars, phase # "closed", phase' # "closed"
  PROVE  /\ disk' = disk
         /\ Len(parts) \in Nat /\ Len(parts') \in Nat /\ Len(parts) <= Len(parts')
         /\ Partitions \subseteq Partitions'
         /\ given_up' = given_up \/ given_up' = TRUE
         /\ Rests \/ Advances \/ Descends \/ Returns \/ GivesUp
<1>0. Len(parts) \in Nat
  BY DEF VolumeInv, Listed
<1>1. ASSUME UNCHANGED parts
      PROVE  Len(parts') = Len(parts) /\ Partitions' = Partitions
  BY <1>1 DEF Partitions, Having
<1>2. CASE ReadTable
  <2>1. Volume(Top.sect_cur, 1, "META") \in Volumes
    BY StackIs, VolumeIs
  <2>2. Add(Volume(Top.sect_cur, 1, "META")) /\ phase = "loading" /\ phase' = phase
        /\ stack' = Advanced /\ Top.i = 0 /\ disk' = disk /\ given_up' = given_up
    BY <1>2 DEF ReadTable
  <2>3. /\ Len(parts') = Len(parts) + 1 /\ Partitions \subseteq Partitions'
        /\ Partitions' \subseteq Partitions
    BY <2>1, <2>2, PartitionsGrew DEF Volume
  <2> QED
    BY <1>0, <2>2, <2>3 DEF Advances
<1>3. CASE SkipUnused
  <2>1. UNCHANGED parts /\ phase = "loading" /\ phase' = phase /\ disk' = disk
        /\ given_up' = given_up /\ stack' = Advanced /\ AtEntry /\ Entry.size = 0
    BY <1>3 DEF SkipUnused, partVars, AtEntry
  <2> QED
    BY <1>0, <1>1, <2>1 DEF Advances
<1>4. CASE AddPartition
  <2> DEFINE v == Volume(PartStart, Entry.size, "ALLOC")
  <2>1. /\ AtEntry /\ Entry.size > 0 /\ ~Entry.ext /\ stack' = Advanced /\ Add(v)
        /\ phase = "loading" /\ phase' = phase /\ disk' = disk /\ given_up' = given_up
    BY <1>4 DEF AddPartition, AtEntry
  <2>2. v \in Volumes /\ v.flag = "ALLOC"
        /\ [start |-> v.start, len |-> v.len] = Extent(Top.sect_cur, Entry)
    <3>1. PartStart \in Nat /\ Entry.size \in Nat
      BY <2>1, EntryIs DEF Frames, Entries, PartStart
    <3> QED
      BY <3>1, VolumeIs DEF Volume, Extent, PartStart
  <2> HIDE DEF v
  <2>3. /\ Len(parts') = Len(parts) + 1 /\ Partitions \subseteq Partitions'
        /\ \A x \in Partitions' : x \in Partitions \/ x = Extent(Top.sect_cur, Entry)
        /\ Extent(Top.sect_cur, Entry) \in Partitions'
    BY <2>1, <2>2, PartitionsGrew
  <2> QED
    BY <1>0, <2>1, <2>3 DEF Advances
<1>5. CASE AddExtended
  <2> DEFINE start == Top.sect_ext_base + Entry.start
             base == IF Primary THEN start ELSE Top.sect_ext_base
             v == Volume(start, Entry.size, "META")
  <2>1. /\ AtEntry /\ Entry.size > 0 /\ Entry.ext /\ Add(v)
        /\ stack' = IF ~Primary /\ start > max_addr THEN Advanced
                    ELSE Append(Advanced, Frame(start, base))
        /\ phase = "loading" /\ phase' = phase /\ disk' = disk /\ given_up' = given_up
    BY <1>5 DEF AddExtended, AtEntry
  <2>2. v \in Volumes /\ v.flag # "ALLOC"
    <3>1. start \in Nat /\ Entry.size \in Nat
      BY <2>1, EntryIs DEF Frames, Entries
    <3> QED
      BY <3>1, VolumeIs DEF Volume
  <2> HIDE DEF v
  <2>3. /\ Len(parts') = Len(parts) + 1 /\ Partitions \subseteq Partitions'
        /\ Partitions' \subseteq Partitions
    BY <2>1, <2>2, PartitionsGrew
  <2>4. CASE ~Primary /\ start > max_addr
    BY <1>0, <2>1, <2>3, <2>4 DEF Advances
  <2>5. CASE Primary \/ ~(start > max_addr)
    <3> DEFINE child == ChildOf(TableOf(Top), Primary, Entry)
    <3>1. child.sect = start /\ child.base = base
      BY DEF ChildOf, TableOf
    <3>2. stack' = Append(Advanced, Frame(child.sect, child.base))
      BY <2>1, <2>5, <3>1
    <3> QED
      BY <1>0, <2>1, <2>3, <2>5, <3>2 DEF Descends
  <2> QED
    BY <2>4, <2>5
<1>6. CASE Return
  <2>1. CASE ~Primary /\ stack' = SubSeq(stack, 1, Len(stack) - 1) /\ UNCHANGED partVars
    BY <1>0, <1>1, <1>6, <2>1 DEF Return, Returns, partVars
  <2>2. CASE Primary /\ added /\ Loaded /\ UNCHANGED stack
    BY <1>0, <1>1, <1>6, <2>2 DEF Return, Rests, Loaded
  <2> QED
    BY <1>6, <2>1, <2>2 DEF Return
<1>7. CASE GiveUp
  BY <1>0, <1>1, <1>7 DEF GiveUp, GivesUp, GivenUp, partVars
<1>8. CASE FillBefore /\ UNCHANGED <<disk, stack, added, given_up>>
  <2>1. CASE UNCHANGED parts
    BY <1>0, <1>1, <1>8, <2>1 DEF FillBefore, Rests
  <2>2. CASE parts[cur].flag # "META" /\ parts[cur].start > prev_end
    <3>1. /\ Unalloc(prev_end, parts[cur].start) \in Volumes
          /\ Add(Unalloc(prev_end, parts[cur].start))
      BY <1>8, <2>2, FillsIn
    <3>2. /\ Len(parts') = Len(parts) + 1 /\ Partitions \subseteq Partitions'
          /\ Partitions' \subseteq Partitions
      BY <3>1, PartitionsGrew DEF Unalloc, Volume
    <3> QED
      BY <1>0, <1>8, <3>2 DEF FillBefore, Rests
  <2> QED
    BY <1>8, <2>1, <2>2 DEF FillBefore
<1>9. CASE FillTail /\ UNCHANGED <<disk, stack, added, given_up>>
  <2>1. CASE UNCHANGED parts
    BY <1>0, <1>1, <1>9, <2>1 DEF FillTail, Rests
  <2>2. CASE prev_end < ImgSectors /\ Add(Unalloc(prev_end, ImgSectors))
    <3>1. prev_end \in Nat /\ ImgSectors \in Nat
      BY ImgAssumption DEF VolumeInv
    <3>2. ImgSectors - prev_end \in Nat
      BY <2>2, <3>1
    <3>3. Unalloc(prev_end, ImgSectors) \in Volumes
      BY <3>1, <3>2, VolumeIs DEF Unalloc
    <3>4. /\ Len(parts') = Len(parts) + 1 /\ Partitions \subseteq Partitions'
          /\ Partitions' \subseteq Partitions
      BY <2>2, <3>3, PartitionsGrew DEF Unalloc, Volume
    <3> QED
      BY <1>0, <1>9, <3>4 DEF FillTail, Rests
  <2> QED
    BY <1>9, <2>1, <2>2 DEF FillTail, TailSectors
<1>10. CASE Close
  BY <1>10 DEF Close
<1>11. CASE UNCHANGED vars
  BY <1>0, <1>1, <1>11 DEF vars, Rests
<1> QED
  BY <1>2, <1>3, <1>4, <1>5, <1>6, <1>7, <1>8, <1>9, <1>10, <1>11 DEF Next, LoadStep

LEMMA StackPushed ==
  ASSUME LoadInv, NEW a \in Nat, NEW b \in Nat
  PROVE  LET new == Append(Advanced, Frame(a, b))
         IN  /\ Len(new) = Len(stack) + 1
             /\ \A n \in 1 .. Len(stack) : new[n] = Advanced[n]
             /\ new[Len(stack) + 1] = Frame(a, b)
<1>1. Frame(a, b) \in Frames
  BY DEF Frame, Frames
<1> QED
  BY <1>1, PushedIs

LEMMA FromInvStep == LoadInv /\ VolumeInv /\ FromInv /\ [Next]_vars => FromInv'
<1> SUFFICES ASSUME LoadInv, VolumeInv, FromInv, [Next]_vars, phase' # "closed" PROVE FromInv'
  BY DEF FromInv
<1>0. phase # "closed"
  BY DEF Next, LoadStep, ReadTable, SkipUnused, AddPartition, AddExtended, Return, GiveUp,
         AtEntry, FillBefore, FillTail, Close, Loaded, vars
<1>1. /\ stack[1].sect_ext_base = 0
      /\ Len(stack) <= Len(parts) + 1
      /\ \A n \in 2 .. Len(stack) : TableOf(stack[n]) \in Nested[n - 2]
      /\ Partitions \subseteq PrimaryPartitions \union LogicalPartitions
  BY <1>0 DEF FromInv
<1>2. /\ disk' = disk
      /\ Len(parts) \in Nat /\ Len(parts') \in Nat /\ Len(parts) <= Len(parts')
      /\ Rests \/ Advances \/ Descends \/ Returns \/ GivesUp
  BY <1>0, StepIs
<1>3. /\ PrimaryPartitions' = PrimaryPartitions
      /\ LogicalPartitions \subseteq LogicalPartitions'
      /\ Nested' = Nested
  BY <1>2, LogicalGrew
<1>4. /\ Len(stack) \in Nat /\ Len(stack) >= 1 /\ disk \in Disks
      /\ Top = stack[Len(stack)] /\ (Primary <=> Len(stack) = 1)
  BY StackIs
<1>5. ASSUME Partitions' \subseteq Partitions
      PROVE  Partitions' \subseteq PrimaryPartitions' \union LogicalPartitions'
  BY <1>1, <1>3, <1>5
<1>6. ASSUME NEW m \in 1 .. Len(stack), stack' = SubSeq(stack, 1, m),
             Partitions' \subseteq Partitions
      PROVE  FromInv'
  <2>1. Len(stack') = m /\ \A n \in 1 .. m : stack'[n] = stack[n]
    BY <1>6, PoppedIs
  <2> QED
    BY <1>1, <1>2, <1>3, <1>4, <1>5, <1>6, <2>1 DEF FromInv
<1>7. CASE Rests
  BY <1>1, <1>2, <1>3, <1>4, <1>5, <1>7 DEF Rests, FromInv
<1>8. \A n \in 1 .. Len(stack) : TableOf(Advanced[n]) = TableOf(stack[n])
                                 /\ Advanced[n].sect_ext_base = stack[n].sect_ext_base
  BY AdvancedIs DEF TableOf
<1>9. CASE Advances
  <2>1. Partitions' \subseteq PrimaryPartitions' \union LogicalPartitions'
    <3>1. CASE Partitions' \subseteq Partitions
      BY <1>5, <3>1
    <3>2. CASE /\ AtEntry /\ Entry.size > 0 /\ ~Entry.ext
               /\ \A x \in Partitions' : x \in Partitions \/ x = Extent(Top.sect_cur, Entry)
      <4>0. Entry.ext = FALSE
        BY <3>2, EntryUsed DEF Entries
      <4>1. Entry \in Used(Top.sect_cur, FALSE)
        BY <3>2, <4>0, EntryUsed
      <4>2. CASE Primary
        <5>1. Top.sect_cur = 0
          BY <1>4, <4>2, StackIs
        <5> QED
          BY <1>1, <1>3, <3>2, <4>1, <5>1 DEF PrimaryPartitions
      <4>3. CASE ~Primary
        <5> DEFINE n == Len(stack) - 2
        <5>1. n \in 0 .. Len(parts) /\ TableOf(Top) \in Nested[n]
          <6> DEFINE m == Len(stack)
          <6>1. m \in 2 .. m /\ m <= Len(parts) + 1 /\ m - 2 \in Nat
            BY <1>1, <4>3, StackIs
          <6>2. m - 2 \in 0 .. Len(parts)
            <7> HIDE DEF m
            <7> QED
              BY <1>2, <6>1
          <6> QED
            BY <1>1, <1>4, <6>1, <6>2
        <5>2. TableOf(Top).sect = Top.sect_cur
          BY DEF TableOf
        <5>3. Extent(Top.sect_cur, Entry) \in LogicalPartitions
          <6> HIDE DEF n
          <6> QED
            BY <4>1, <5>1, <5>2, InLogical
        <5> QED
          BY <1>1, <1>3, <3>2, <5>3
      <4> QED
        BY <4>2, <4>3
    <3> QED
      BY <1>9, <3>1, <3>2 DEF Advances
  <2>2. Len(stack') = Len(stack) /\ stack' = Advanced
    BY <1>9, AdvancedIs DEF Advances
  <2> QED
    BY <1>1, <1>2, <1>3, <1>4, <1>8, <2>1, <2>2 DEF FromInv
<1>10. CASE Descends
  <2> DEFINE child == ChildOf(TableOf(Top), Primary, Entry)
  <2>1. /\ AtEntry /\ Entry.size > 0 /\ Entry.ext
        /\ Primary \/ ~(Top.sect_ext_base + Entry.start > max_addr)
        /\ stack' = Append(Advanced, Frame(child.sect, child.base))
        /\ Len(parts') = Len(parts) + 1 /\ Partitions' \subseteq Partitions
    BY <1>10 DEF Descends
  <2>2. Entry \in Used(Top.sect_cur, TRUE) /\ Entry.start \in Nat
    BY <2>1, EntryUsed DEF Entries
  <2>3. Top.sect_cur \in Nat /\ Top.sect_ext_base \in Nat
        /\ TableOf(Top).sect = Top.sect_cur /\ TableOf(Top).base = Top.sect_ext_base
    BY <1>4, StackIs DEF TableOf
  <2>4. child.sect \in Nat /\ child.base \in Nat
        /\ child = [sect |-> child.sect, base |-> child.base]
    BY <2>2, <2>3 DEF ChildOf
  <2>5. child \in Nested[Len(stack) - 1]
    <3>1. CASE Primary
      <4>1. Top.sect_cur = 0 /\ Top.sect_ext_base = 0
        BY <1>1, <1>4, <3>1, StackIs
      <4>2. child = [sect |-> Entry.start, base |-> Entry.start]
        BY <2>2, <2>3, <3>1, <4>1 DEF ChildOf
      <4>3. child \in First
        BY <2>2, <4>1, <4>2 DEF First
      <4> QED
        BY <1>4, <3>1, <4>3, NestedIs, StackIs
    <3>2. CASE ~Primary
      <4> DEFINE n == Len(stack) - 2
      <4>1. n \in Nat /\ n + 1 = Len(stack) - 1 /\ TableOf(Top) \in Nested[n]
        BY <1>1, <1>4, <3>2, StackIs
      <4>2. TableOf(Top).base + Entry.start <= max_addr
        <5>1. Top.sect_ext_base + Entry.start \in Nat /\ max_addr \in Int
          BY <2>2, <2>3, ImgAssumption, OffsetAssumption DEF max_addr
        <5> QED
          BY <2>1, <2>3, <3>2, <5>1
      <4>3. ChildOf(TableOf(Top), FALSE, Entry) \in Nested[n + 1]
        <5> HIDE DEF n
        <5> QED
          BY <1>4, <2>2, <2>3, <4>1, <4>2, NestsDeeper
      <4>4. child = ChildOf(TableOf(Top), FALSE, Entry)
        BY <3>2 DEF ChildOf
      <4> QED
        BY <4>1, <4>3, <4>4
    <3> QED
      BY <3>1, <3>2
  <2>6. TableOf(Frame(child.sect, child.base)) = child
    BY <2>4 DEF Frame, TableOf
  <2> HIDE DEF child
  <2>7. /\ Len(stack') = Len(stack) + 1
        /\ \A n \in 1 .. Len(stack) : stack'[n] = Advanced[n]
        /\ stack'[Len(stack) + 1] = Frame(child.sect, child.base)
    BY <2>1, <2>4, StackPushed
  <2>8. \A n \in 2 .. Len(stack') : TableOf(stack'[n]) \in Nested'[n - 2]
    <3> TAKE n \in 2 .. Len(stack')
    <3>1. CASE n = Len(stack) + 1
      <4>1. n - 2 = Len(stack) - 1
        BY <1>4, <3>1
      <4> QED
        BY <1>3, <2>5, <2>6, <2>7, <3>1, <4>1
    <3>2. CASE n # Len(stack) + 1
      <4>1. n \in 2 .. Len(stack) /\ n \in 1 .. Len(stack)
        BY <1>4, <2>7, <3>2
      <4> QED
        BY <1>1, <1>3, <1>8, <2>7, <4>1
    <3> QED
      BY <3>1, <3>2
  <2> QED
    BY <1>1, <1>2, <1>4, <1>5, <1>8, <2>1, <2>7, <2>8 DEF FromInv
<1>11. CASE Returns
  <2>1. Len(stack) - 1 \in 1 .. Len(stack)
    BY <1>11, StackIs DEF Returns
  <2> QED
    BY <1>6, <1>11, <2>1 DEF Returns
<1>12. CASE GivesUp
  BY <1>4, <1>6, <1>12 DEF GivesUp
<1> QED
  BY <1>2, <1>7, <1>9, <1>10, <1>11, <1>12

(* What must be there when the loop over a table has left an entry behind, *)
(* at a depth of the stack: the partition, or the table that the entry     *)
(* leads to among those that the loading has come to                       *)
Done(seen, shown, t, depth, e) ==
  e.size > 0 =>
    IF e.ext THEN depth = 1 \/ t.base + e.start <= max_addr
                    => ChildOf(t, depth = 1, e) \in seen
    ELSE depth = 1 \/ Extent(t.sect, e) \in shown

DoneTo(seen, shown, d, t, depth, i) ==
  \A j \in 1 .. Len(d[t.sect]) : j < i => Done(seen, shown, t, depth, d[t.sect][j])

DoneAll(seen, shown, d, t) ==
  t.sect \in DOMAIN d /\ \A j \in 1 .. Len(d[t.sect]) : Done(seen, shown, t, 2, d[t.sect][j])

(* A set of tables that loading has come to: each is still on the stack or *)
(* has been left behind with all that it leads to.                         *)
Walked(seen) ==
  /\ \A n \in 2 .. Len(stack) : TableOf(stack[n]) \in seen
  /\ \A n \in 1 .. Len(stack) :
       stack[n].i > 0 => DoneTo(seen, Partitions, disk, TableOf(stack[n]), n, stack[n].i)
  /\ \A t \in seen : \/ \E n \in 2 .. Len(stack) : TableOf(stack[n]) = t
                     \/ DoneAll(seen, Partitions, disk, t)

WalkedInv ==
  phase # "closed" /\ ~given_up =>
    /\ phase # "loading" => Len(stack) = 1 /\ stack[1].i > 0 /\ stack[1].i > Len(disk[0])
    /\ \E seen \in SUBSET Tables : Walked(seen)

LEMMA WalkedInvInit == Init => WalkedInv
<1> SUFFICES ASSUME Init PROVE WalkedInv
  OBVIOUS
<1>1. Len(stack) = 1 /\ stack[1].i = 0 /\ phase = "loading"
  BY DEF Init, VsInit, Frame
<1>2. Walked({})
  BY <1>1 DEF Walked
<1> QED
  BY <1>1, <1>2 DEF WalkedInv

LEMMA DoneGrew ==
  ASSUME NEW S, NEW T, S \subseteq T, NEW P, NEW Q, P \subseteq Q, NEW d
  PROVE  /\ \A t, n, e : Done(S, P, t, n, e) => Done(T, Q, t, n, e)
         /\ \A t, n, i : DoneTo(S, P, d, t, n, i) => DoneTo(T, Q, d, t, n, i)
         /\ \A t : DoneAll(S, P, d, t) => DoneAll(T, Q, d, t)
<1>1. \A t, n, e : Done(S, P, t, n, e) => Done(T, Q, t, n, e)
  BY DEF Done
<1>2. \A t, n, i : DoneTo(S, P, d, t, n, i) => DoneTo(T, Q, d, t, n, i)
  BY <1>1 DEF DoneTo
<1>3. \A t : DoneAll(S, P, d, t) => DoneAll(T, Q, d, t)
  BY <1>1 DEF DoneAll
<1> QED
  BY <1>1, <1>2, <1>3

(* A frame is done with one more entry. *)
LEMMA DoneOneMore ==
  ASSUME NEW S, NEW P, NEW d, NEW t, NEW n, NEW i \in Nat,
         i = 0 \/ (DoneTo(S, P, d, t, n, i) /\ Done(S, P, t, n, d[t.sect][i]))
  PROVE  DoneTo(S, P, d, t, n, i + 1)
<1> SUFFICES ASSUME NEW j \in 1 .. Len(d[t.sect]), j < i + 1
             PROVE  Done(S, P, t, n, d[t.sect][j])
  BY DEF DoneTo
<1>1. j \in Int /\ j >= 1
  OBVIOUS
<1>2. CASE j < i
  BY <1>1, <1>2 DEF DoneTo
<1>3. CASE j = i
  BY <1>1, <1>3
<1> QED
  BY <1>1, <1>2, <1>3

LEMMA WalkedInvStep ==
  LoadInv /\ VolumeInv /\ FromInv /\ WalkedInv /\ [Next]_vars => WalkedInv'
<1> SUFFICES ASSUME LoadInv, VolumeInv, FromInv, WalkedInv, [Next]_vars,
                    phase' # "closed", ~given_up'
             PROVE  WalkedInv'
  BY DEF WalkedInv
<1>0. phase # "closed"
  BY DEF Next, LoadStep, ReadTable, SkipUnused, AddPartition, AddExtended, Return, GiveUp,
         AtEntry, FillBefore, FillTail, Close, Loaded, vars
<1>1. /\ disk' = disk /\ Partitions \subseteq Partitions' /\ given_up' = given_up
      /\ Rests \/ Advances \/ Descends \/ Returns
  BY <1>0, StepIs DEF GivesUp
<1>2. PICK seen \in SUBSET Tables : Walked(seen)
  BY <1>0, <1>1 DEF WalkedInv
<1>3. phase # "loading" => Len(stack) = 1 /\ stack[1].i > 0 /\ stack[1].i > Len(disk[0])
  BY <1>0, <1>1 DEF WalkedInv
<1>4. /\ Len(stack) \in Nat /\ Len(stack) >= 1 /\ disk \in Disks
      /\ Top = stack[Len(stack)] /\ (Primary <=> Len(stack) = 1)
      /\ Len(stack) \in 1 .. Len(stack)
      /\ \A n \in 1 .. Len(stack) : stack[n].i \in Nat
  BY StackIs
<1>5. ASSUME NEW T, seen \subseteq T
      PROVE  /\ \A t, n, e : Done(seen, Partitions, t, n, e) => Done(T, Partitions', t, n, e)
             /\ \A t, n, i : DoneTo(seen, Partitions, disk, t, n, i)
                             => DoneTo(T, Partitions', disk, t, n, i)
             /\ \A t : DoneAll(seen, Partitions, disk, t) => DoneAll(T, Partitions', disk, t)
  BY <1>1, <1>5, DoneGrew
<1>6. CASE Rests
  <2>1. stack' = stack
    BY <1>6 DEF Rests
  <2>2. Walked(seen)'
    BY <1>1, <1>2, <1>5, <2>1 DEF Walked, TableOf
  <2>3. phase' # "loading" => Len(stack') = 1 /\ stack'[1].i > 0 /\ stack'[1].i > Len(disk'[0])
    <3>1. Primary => Top = stack[1] /\ Top.sect_cur = 0
      BY <1>4, StackIs
    <3> QED
      BY <1>1, <1>3, <1>4, <1>6, <2>1, <3>1 DEF Rests
  <2> QED
    BY <2>2, <2>3 DEF WalkedInv
<1>7. \A n \in 1 .. Len(stack) :
        /\ TableOf(Advanced[n]) = TableOf(stack[n])
        /\ Advanced[n].i = IF n = Len(stack) THEN stack[n].i + 1 ELSE stack[n].i
  BY AdvancedIs DEF TableOf
<1>8. ASSUME NEW T \in SUBSET Tables, seen \subseteq T,
             \A n \in 1 .. Len(stack) : TableOf(stack'[n]) = TableOf(stack[n])
                                        /\ stack'[n].i = Advanced[n].i,
             Len(stack') \in Nat, Len(stack') >= Len(stack),
             \A n \in Len(stack) + 1 .. Len(stack') : TableOf(stack'[n]) \in T /\ stack'[n].i = 0,
             \A t \in T \ seen : \E n \in Len(stack) + 1 .. Len(stack') : TableOf(stack'[n]) = t,
             Top.i = 0 \/ (AtEntry /\ Done(T, Partitions', TableOf(Top), Len(stack), Entry))
      PROVE  Walked(T)'
  <2>1. \A n \in 2 .. Len(stack') : TableOf(stack'[n]) \in T
    <3> TAKE n \in 2 .. Len(stack')
    <3>1. CASE n <= Len(stack)
      <4>1. n \in 2 .. Len(stack) /\ n \in 1 .. Len(stack)
        BY <1>4, <3>1
      <4> QED
        BY <1>2, <1>8, <4>1 DEF Walked
    <3>2. CASE ~(n <= Len(stack))
      <4>1. n \in Len(stack) + 1 .. Len(stack')
        BY <1>4, <1>8, <3>2
      <4> QED
        BY <1>8, <4>1
    <3> QED
      BY <3>1, <3>2
  <2>2. ASSUME NEW n \in 1 .. Len(stack'), stack'[n].i > 0
        PROVE  DoneTo(T, Partitions', disk, TableOf(stack'[n]), n, stack'[n].i)
    <3>1. n \in 1 .. Len(stack)
      <4>1. CASE ~(n <= Len(stack))
        <5>1. n \in Len(stack) + 1 .. Len(stack')
          BY <1>4, <1>8, <4>1
        <5>2. stack'[n].i = 0
          BY <1>8, <5>1
        <5> QED
          BY <2>2, <5>2
      <4> QED
        BY <1>4, <4>1
    <3>2. TableOf(stack'[n]) = TableOf(stack[n]) /\ stack'[n].i = Advanced[n].i
      BY <1>8, <3>1
    <3> DEFINE t == TableOf(stack[n])
               i == stack[n].i
    <3>3. i \in Nat /\ (i = 0 \/ DoneTo(T, Partitions', disk, t, n, i))
      <4>1. i \in Nat /\ (i # 0 => i > 0)
        BY <1>4, <3>1
      <4>2. i > 0 => DoneTo(seen, Partitions, disk, t, n, i)
        BY <1>2, <3>1 DEF Walked
      <4> HIDE DEF t, i
      <4>3. i > 0 => DoneTo(T, Partitions', disk, t, n, i)
        BY <1>5, <1>8, <4>2
      <4> QED
        BY <4>1, <4>3
    <3>4. CASE n # Len(stack)
      <4>1. stack'[n].i = i
        BY <1>7, <3>1, <3>2, <3>4
      <4>2. i # 0
        BY <2>2, <4>1
      <4> QED
        BY <3>2, <3>3, <4>1, <4>2
    <3>5. CASE n = Len(stack)
      <4>1. Top = stack[n] /\ stack'[n].i = i + 1 /\ t.sect = Top.sect_cur
        BY <1>4, <1>7, <3>1, <3>2, <3>5 DEF TableOf
      <4>2. i # 0 => Done(T, Partitions', t, n, disk[t.sect][i])
        BY <1>8, <3>5, <4>1 DEF Entry
      <4> HIDE DEF t, i
      <4>3. DoneTo(T, Partitions', disk, t, n, i + 1)
        BY <3>3, <4>2, DoneOneMore
      <4> QED
        BY <3>2, <4>1, <4>3 DEF t
    <3> QED
      BY <3>4, <3>5
  <2>3. ASSUME NEW t \in T
        PROVE  \/ \E n \in 2 .. Len(stack') : TableOf(stack'[n]) = t
               \/ DoneAll(T, Partitions', disk, t)
    <3>1. CASE t \notin seen
      <4>1. PICK n \in Len(stack) + 1 .. Len(stack') : TableOf(stack'[n]) = t
        BY <1>8, <3>1
      <4>2. n \in 2 .. Len(stack')
        BY <1>4, <1>8
      <4> QED
        BY <4>1, <4>2
    <3>2. CASE \E n \in 2 .. Len(stack) : TableOf(stack[n]) = t
      <4>1. PICK n \in 2 .. Len(stack) : TableOf(stack[n]) = t
        BY <3>2
      <4>2. n \in 2 .. Len(stack') /\ n \in 1 .. Len(stack)
        BY <1>4, <1>8
      <4> QED
        BY <1>8, <4>1, <4>2
    <3>3. CASE t \in seen /\ DoneAll(seen, Partitions, disk, t)
      BY <1>5, <1>8, <3>3
    <3> QED
      BY <1>2, <3>1, <3>2, <3>3 DEF Walked
  <2> QED
    BY <1>1, <2>1, <2>2, <2>3 DEF Walked, TableOf
<1>9. CASE Advances
  <2>1. stack' = Advanced /\ phase' = "loading" /\ Len(stack') = Len(stack)
    BY <1>9, AdvancedIs DEF Advances
  <2>2. Top.i = 0 \/ (AtEntry /\ Done(seen, Partitions', TableOf(Top), Len(stack), Entry))
    <3>1. TableOf(Top).sect = Top.sect_cur /\ TableOf(Top).base = Top.sect_ext_base
      BY DEF TableOf
    <3>2. CASE AtEntry /\ Entry.size = 0
      BY <3>2 DEF Done
    <3>3. CASE AtEntry /\ Entry.size > 0 /\ ~Entry.ext
               /\ Extent(Top.sect_cur, Entry) \in Partitions'
      BY <3>1, <3>3 DEF Done, Extent
    <3>4. CASE AtEntry /\ Entry.size > 0 /\ Entry.ext
               /\ ~Primary /\ Top.sect_ext_base + Entry.start > max_addr
      <4>1. Top.sect_ext_base + Entry.start \in Nat /\ max_addr \in Int
        <5>1. Entry \in Entries /\ Top.sect_ext_base \in Nat
          BY <1>4, <3>4, EntryUsed, StackIs
        <5>2. Entry.start \in Nat
          BY <5>1 DEF Entries
        <5> QED
          BY <5>1, <5>2, ImgAssumption, OffsetAssumption DEF max_addr
      <4>2. ~(TableOf(Top).base + Entry.start <= max_addr)
        BY <3>1, <3>4, <4>1
      <4>3. Len(stack) # 1
        BY <1>4, <3>4
      <4> QED
        BY <3>4, <4>2, <4>3 DEF Done
    <3> QED
      BY <1>9, <3>2, <3>3, <3>4 DEF Advances
  <2>3. Walked(seen)'
    BY <1>4, <1>7, <1>8, <2>1, <2>2
  <2> QED
    BY <2>1, <2>3 DEF WalkedInv
<1>10. CASE Descends
  <2>1. PICK child : child = ChildOf(TableOf(Top), Primary, Entry)
    OBVIOUS
  <2>2. PICK T : T = seen \union {child}
    OBVIOUS
  <2>3. /\ AtEntry /\ Entry.size > 0 /\ Entry.ext /\ phase' = "loading"
        /\ stack' = Append(Advanced, Frame(child.sect, child.base))
    BY <1>10, <2>1 DEF Descends
  <2>4. child.sect \in Nat /\ child.base \in Nat
        /\ child = [sect |-> child.sect, base |-> child.base]
    <3>1. Entry.start \in Nat /\ TableOf(Top).base \in Nat
      BY <1>4, <2>3, EntryUsed, StackIs DEF Entries, TableOf
    <3> QED
      BY <2>1, <3>1 DEF ChildOf
  <2>5. TableOf(Frame(child.sect, child.base)) = child /\ Frame(child.sect, child.base).i = 0
        /\ child \in Tables
    BY <2>4 DEF Frame, TableOf, Tables
  <2>6. child \in T /\ T \in SUBSET Tables /\ seen \subseteq T /\ \A t \in T \ seen : t = child
    BY <1>2, <2>2, <2>5
  <2>7. Done(T, Partitions', TableOf(Top), Len(stack), Entry)
    BY <1>4, <2>1, <2>3, <2>6 DEF Done, ChildOf
  <2>8. /\ Len(stack') = Len(stack) + 1
        /\ \A n \in 1 .. Len(stack) : stack'[n] = Advanced[n]
        /\ stack'[Len(stack) + 1] = Frame(child.sect, child.base)
    BY <2>3, <2>4, StackPushed
  <2>9. \A n \in Len(stack) + 1 .. Len(stack') : n = Len(stack) + 1
    BY <1>4, <2>8
  <2>10. Walked(T)'
    <3>1. Len(stack') \in Nat /\ Len(stack') >= Len(stack)
          /\ Len(stack) + 1 \in Len(stack) + 1 .. Len(stack')
      BY <1>4, <2>8
    <3>2. \A n \in 1 .. Len(stack) : TableOf(stack'[n]) = TableOf(stack[n])
                                     /\ stack'[n].i = Advanced[n].i
      BY <1>7, <2>8
    <3>3. \A n \in Len(stack) + 1 .. Len(stack') : TableOf(stack'[n]) \in T /\ stack'[n].i = 0
      BY <2>5, <2>6, <2>8, <2>9
    <3>4. \A t \in T \ seen : \E n \in Len(stack) + 1 .. Len(stack') : TableOf(stack'[n]) = t
      BY <2>5, <2>6, <2>8, <3>1
    <3> QED
      BY <1>8, <2>3, <2>6, <2>7, <3>1, <3>2, <3>3, <3>4
  <2> QED
    BY <2>3, <2>6, <2>10 DEF WalkedInv
<1>11. CASE Returns
  <2> DEFINE m == Len(stack) - 1
  <2>1. /\ ~Primary /\ stack' = SubSeq(stack, 1, m) /\ phase' = "loading"
        /\ Top.i > 0 /\ Top.i > Len(disk[Top.sect_cur])
    BY <1>11 DEF Returns
  <2>2. m \in 1 .. Len(stack) /\ Len(stack) = m + 1 /\ Len(stack) \in 2 .. Len(stack)
    BY <1>4, <2>1, StackIs
  <2>3. Len(stack') = m /\ \A n \in 1 .. m : stack'[n] = stack[n]
    BY <2>1, <2>2, PoppedIs
  <2> HIDE DEF m
  <2>4. DoneAll(seen, Partitions, disk, TableOf(Top))
    <3> DEFINE t == TableOf(Top)
    <3>1. t.sect = Top.sect_cur /\ Top.sect_cur \in DOMAIN disk
      BY <1>4, <2>1 DEF TableOf, LoadInv
    <3>2. DoneTo(seen, Partitions, disk, t, Len(stack), Top.i)
      <4>1. ~(Len(stack) = 1) /\ Len(stack) \in 1 .. Len(stack) /\ stack[Len(stack)].i > 0
        BY <1>4, <2>1
      <4> QED
        BY <1>2, <1>4, <4>1 DEF Walked
    <3>3. Top.i \in Nat /\ Len(disk[Top.sect_cur]) \in Nat
      BY <1>4, <3>1, DiskAssumption
    <3>4. \A j \in 1 .. Len(disk[Top.sect_cur]) : j < Top.i
      BY <2>1, <3>3
    <3> QED
      <4>1. \A j \in 1 .. Len(disk[t.sect]) :
              Done(seen, Partitions, t, Len(stack), disk[t.sect][j])
        BY <3>1, <3>2, <3>4 DEF DoneTo
      <4>2. Len(stack) # 1 /\ t.sect \in DOMAIN disk
        BY <1>4, <2>1, <3>1
      <4>3. \A e : Done(seen, Partitions, t, Len(stack), e) => Done(seen, Partitions, t, 2, e)
        BY <4>2 DEF Done, ChildOf
      <4> QED
        BY <4>1, <4>2, <4>3 DEF DoneAll
  <2>5. \A n \in 2 .. m : n \in 2 .. Len(stack) /\ n \in 1 .. m
    BY <2>2
  <2>6. \A n \in 2 .. Len(stack) : n \in 2 .. m \/ n = Len(stack)
    BY <2>2
  <2>7. \A n \in 1 .. m : n \in 1 .. Len(stack)
    BY <2>2
  <2>8. Walked(seen)'
    <3>1. \A n \in 2 .. m : TableOf(stack'[n]) \in seen
      BY <1>2, <2>3, <2>5 DEF Walked
    <3>2. ASSUME NEW n \in 1 .. m, stack'[n].i > 0
          PROVE  DoneTo(seen, Partitions', disk, TableOf(stack'[n]), n, stack'[n].i)
      <4>1. stack'[n] = stack[n]
        BY <2>3
      <4>2. DoneTo(seen, Partitions, disk, TableOf(stack[n]), n, stack[n].i)
        BY <1>2, <2>7, <3>2, <4>1 DEF Walked
      <4> QED
        BY <1>5, <4>1, <4>2
    <3>3. ASSUME NEW t \in seen
          PROVE  \/ \E n \in 2 .. m : TableOf(stack'[n]) = t
                 \/ DoneAll(seen, Partitions', disk, t)
      <4>1. CASE DoneAll(seen, Partitions, disk, t)
        BY <1>5, <4>1
      <4>2. CASE ~DoneAll(seen, Partitions, disk, t)
        <5>1. PICK n \in 2 .. Len(stack) : TableOf(stack[n]) = t
          BY <1>2, <4>2 DEF Walked
        <5>2. n # Len(stack)
          BY <1>4, <2>4, <4>2, <5>1
        <5> QED
          BY <2>3, <2>5, <2>6, <5>1, <5>2
      <4> QED
        BY <4>1, <4>2
    <3> QED
      BY <1>1, <2>3, <3>1, <3>2, <3>3 DEF Walked, TableOf
  <2> QED
    BY <2>1, <2>8 DEF WalkedInv
<1> QED
  BY <1>1, <1>6, <1>9, <1>10, <1>11

(* When the primary table has been loaded and none was given up, all that  *)
(* nest below it have been walked over.                                    *)
LEMMA AllWalked ==
  ASSUME LoadInv, FromInv, WalkedInv, phase # "closed", phase # "loading", ~given_up
  PROVE  \E seen \in SUBSET Tables :
           /\ \A n \in Nat : Nested[n] \subseteq seen
           /\ \A t \in seen : DoneAll(seen, Partitions, disk, t)
<1>1. PICK seen \in SUBSET Tables : Walked(seen)
  BY DEF WalkedInv
<1>2. Len(stack) = 1 /\ stack[1].i > 0 /\ stack[1].i > Len(disk[0])
      /\ stack[1].i \in Nat /\ stack[1].sect_cur = 0 /\ disk \in Disks
  BY StackIs DEF WalkedInv
<1>3. 0 \in DOMAIN disk /\ Len(disk[0]) \in Nat
  BY <1>2, DiskAssumption DEF LoadInv
<1>4. \A t \in seen : DoneAll(seen, Partitions, disk, t)
  BY <1>1, <1>2 DEF Walked
<1>5. First \subseteq seen
  <2> SUFFICES ASSUME NEW e \in Used(0, TRUE)
               PROVE  [sect |-> e.start, base |-> e.start] \in seen
    BY DEF First
  <2>1. PICK j \in 1 .. Len(disk[0]) :
          e = disk[0][j] /\ disk[0][j].size > 0 /\ disk[0][j].ext = TRUE
    BY DEF Used
  <2>2. j < stack[1].i
    BY <1>2, <1>3
  <2>3. DoneTo(seen, Partitions, disk, TableOf(stack[1]), 1, stack[1].i)
    BY <1>1, <1>2 DEF Walked
  <2> DEFINE t == TableOf(stack[1])
  <2>4. t.sect = 0
    BY <1>2 DEF TableOf
  <2>5. t.base = 0 => [sect |-> e.start, base |-> e.start] = ChildOf(t, TRUE, e)
    <3>1. Used(0, TRUE) \subseteq Entries
      BY <1>2, UsedIs
    <3>2. e.start \in Nat
      BY <3>1 DEF Entries
    <3> QED
      BY <3>2 DEF ChildOf
  <2>0. t.base = 0
    BY DEF FromInv, TableOf
  <2> HIDE DEF t
  <2>6. ChildOf(t, TRUE, e) \in seen
    BY <2>1, <2>2, <2>3, <2>4 DEF DoneTo, Done, t, ChildOf
  <2> QED
    BY <2>0, <2>5, <2>6
<1>6. ASSUME NEW n \in Nat, Nested[n] \subseteq seen PROVE Nested[n + 1] \subseteq seen
  <2> SUFFICES ASSUME NEW c \in Deeper(Nested[n]) PROVE c \in seen
    BY <1>2, NestedIs
  <2>1. PICK t \in Nested[n] : \E e \in Used(t.sect, TRUE) :
          t.base + e.start <= max_addr /\ c = [sect |-> t.base + e.start, base |-> t.base]
    BY DeeperIs
  <2>2. PICK e \in Used(t.sect, TRUE) :
          t.base + e.start <= max_addr /\ c = [sect |-> t.base + e.start, base |-> t.base]
    BY <2>1
  <2>3. PICK j \in 1 .. Len(disk[t.sect]) :
          e = disk[t.sect][j] /\ disk[t.sect][j].size > 0 /\ disk[t.sect][j].ext = TRUE
    BY DEF Used
  <2>4. Done(seen, Partitions, t, 2, e)
    BY <1>4, <1>6, <2>3 DEF DoneAll
  <2> QED
    BY <2>2, <2>3, <2>4 DEF Done, ChildOf
<1>7. ASSUME NEW k \in Nat, ~(Nested[k] \subseteq seen) PROVE FALSE
  <2> DEFINE bad == {n \in Nat : ~(Nested[n] \subseteq seen)}
  <2>1. PICK n \in bad : \A m \in bad : n <= m
    <3>1. bad \subseteq Nat /\ bad # {}
      BY <1>7
    <3> HIDE DEF bad
    <3> QED
      BY <3>1, LeastNat
  <2>2. n # 0
    BY <1>2, <1>5, NestedIs
  <2>3. n - 1 \in Nat /\ n - 1 \notin bad /\ n - 1 + 1 = n
    BY <2>1, <2>2
  <2>4. Nested[n - 1] \subseteq seen
    BY <2>3
  <2>5. Nested[n - 1 + 1] \subseteq seen
    BY <1>6, <2>3, <2>4
  <2> QED
    BY <2>3, <2>5
<1> QED
  BY <1>4, <1>7

(* The partitions of an open volume system are those of the primary table  *)
(* and of the tables that nest below it, at their places on the disk: all  *)
(* of them if every table could be loaded, and never any other (dos.c:     *)
(* dos_load_ext_table, dos_load_prim_table).                               *)
THEOREM PartitionsAreExact == Spec => []PartitionsExact
<1>1. ASSUME LoadInv, FromInv, WalkedInv PROVE PartitionsExact
  <2> SUFFICES ASSUME phase # "closed", phase # "loading", ~given_up,
                      NEW x \in LogicalPartitions
               PROVE  x \in Partitions
    BY <1>1 DEF PartitionsExact, FromInv
  <2>1. PICK seen \in SUBSET Tables :
           /\ \A n \in Nat : Nested[n] \subseteq seen
           /\ \A t \in seen : DoneAll(seen, Partitions, disk, t)
    BY <1>1, AllWalked
  <2>2. PICK n \in 0 .. Len(parts) : \E t \in Nested[n] : \E e \in Used(t.sect, FALSE) :
           x = Extent(t.sect, e)
    BY DEF LogicalPartitions
  <2>3. PICK t \in Nested[n] : \E e \in Used(t.sect, FALSE) : x = Extent(t.sect, e)
    BY <2>2
  <2>4. PICK e \in Used(t.sect, FALSE) : x = Extent(t.sect, e)
    BY <2>3
  <2>5. PICK j \in 1 .. Len(disk[t.sect]) :
          e = disk[t.sect][j] /\ disk[t.sect][j].size > 0 /\ disk[t.sect][j].ext = FALSE
    BY DEF Used
  <2>6. t \in seen
    BY <2>1
  <2>7. Done(seen, Partitions, t, 2, e)
    BY <2>1, <2>5, <2>6 DEF DoneAll
  <2> QED
    BY <2>4, <2>5, <2>7 DEF Done
<1>2. LoadInv /\ VolumeInv /\ FromInv /\ [Next]_vars => FromInv'
  BY FromInvStep
<1>3. LoadInv /\ VolumeInv /\ FromInv /\ WalkedInv /\ [Next]_vars => WalkedInv'
  BY WalkedInvStep
<1> QED
  BY <1>1, <1>2, <1>3, ListInvariance, FromInvInit, WalkedInvInit, PTL DEF Spec
=============================================================================
