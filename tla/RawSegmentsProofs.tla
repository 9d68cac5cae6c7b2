------------------------- MODULE RawSegmentsProofs -------------------------
(***************************************************************************)
(* For every number of segments and of entries for open files: the tables  *)
(* of a split raw image agree with what is open, whatever is opened,       *)
(* evicted and fails to open, and no file descriptor is lost.              *)
(*                                                                         *)
(* Only the tables matter for that.  With what they say of descriptors the *)
(* second part shows, from the running total of the segments' sizes, that  *)
(* what is read are the bytes of the image.                                *)
(***************************************************************************)
EXTENDS RawSegments, FiniteSetTheorems, WellFoundedInduction, TLAPS

(* A set of natural numbers that is not empty has a least one: what stands *)
(* in for induction (what fails somewhere fails somewhere first).          *)
(* Of the intervals from 0 to the numbers of the set one has none of the   *)
(* others strictly inside it.                                              *)
LEMMA LeastNat ==
  ASSUME NEW T, T \subseteq Nat, T # {}
  PROVE  \E x \in T : \A y \in T : x <= y
<1> DEFINE D == {0 .. x : x \in T}
           R == StrictSubsetOrdering(Nat)
<1>1. IsWellFoundedOn(R, FiniteSubsetsOf(Nat))
  BY FS_StrictSubsetOrderingWellFounded
<1>2. \A x \in Nat : 0 .. x \in FiniteSubsetsOf(Nat)
  <2> TAKE x \in Nat
  <2>1. IsFiniteSet(0 .. x)
    BY FS_Interval
  <2>2. 0 .. x \subseteq Nat
    OBVIOUS
  <2> QED
    BY <2>1, <2>2 DEF FiniteSubsetsOf
<1>3. D \subseteq FiniteSubsetsOf(Nat) /\ D # {}
  BY <1>2
<1>4. PICK d \in D : \A e \in D : ~(<<e, d>> \in R)
  <2> HIDE DEF D, R
  <2> QED
    BY <1>1, <1>3, WFMin
<1>5. PICK x \in T : d = 0 .. x
  OBVIOUS
<1>6. ASSUME NEW y \in T, y < x PROVE FALSE
  <2>1. 0 .. y \subseteq d /\ 0 .. y # d
    BY <1>5, <1>6
  <2>2. <<0 .. y, d>> \in R
    BY <2>1, <1>5 DEF StrictSubsetOrdering
  <2> QED
    BY <1>4, <2>2
<1> QED
  BY <1>6


Entry(e) == [fd |-> e.fd, image |-> e.image, seek_pos |-> e.seek_pos]

(* The types that the other parts need.  An entry is a record, but where   *)
(* its descriptor stands does not matter.                                  *)
TablesTypeOK ==
  /\ cptr \in [Segs -> Slots \union {-1}]
  /\ cache = [s \in Slots |-> Entry(cache[s])]
  /\ \A s \in Slots : cache[s].fd \in Fds \union {0} /\ cache[s].image \in Segs
  /\ next_slot \in Slots
  /\ file \in [Fds -> Segs \union {-1}]
  /\ "i" \in DOMAIN job

(* The read under way is in a segment, which is open while it is read. *)
InSegment ==
  /\ pc \in {"segment", "read"} => job.i \in Segs
  /\ pc = "read" => cptr[job.i] # -1

(* Whoever is pointed to is in use, ... *)
PointedInUse == \A i \in Segs : cptr[i] # -1 => cache[cptr[i]].fd # 0 /\ cache[cptr[i]].image = i

(* ... whoever is in use is open on its image's file and pointed to, ... *)
InUsePointed ==
  \A s \in Slots : cache[s].fd # 0 =>
    file[cache[s].fd] = cache[s].image /\ cptr[cache[s].image] = s

(* ... and what is open belongs to an entry. *)
OpenOwned == \A fd \in Fds : file[fd] # -1 => \E s \in Slots : cache[s].fd = fd

TablesInv == TablesTypeOK /\ InSegment /\ PointedInUse /\ InUsePointed /\ OpenOwned

-----------------------------------------------------------------------------
(* Two entries never share a descriptor, since each is pointed to by the   *)
(* one segment the descriptor is open on.                                  *)
LEMMA OneOwner ==
  ASSUME TablesInv, NEW s \in Slots, NEW u \in Slots,
         cache[s].fd # 0, cache[u].fd = cache[s].fd
  PROVE  u = s
  BY DEF TablesInv, InUsePointed

LEMMA InvInit == Init => TablesInv
<1> SUFFICES ASSUME Init PROVE TablesInv
  OBVIOUS
<1>1. 0 \in Segs /\ 0 \in Slots
  BY SegAssumption, CacheAssumption DEF Segs, Slots, NumImg
<1>2. TablesTypeOK
  BY <1>1 DEF Init, TablesTypeOK, Unused, Entry
<1>3. InSegment /\ PointedInUse /\ InUsePointed /\ OpenOwned
  BY DEF Init, InSegment, PointedInUse, InUsePointed, OpenOwned, Unused
<1> QED
  BY <1>2, <1>3 DEF TablesInv

(* Beginning a read chooses a segment and leaves the tables alone. *)
LEMMA BeginKeeps == TablesInv /\ Begin => TablesInv'
<1> SUFFICES ASSUME TablesInv, Begin PROVE TablesInv'
  OBVIOUS
<1> USE DEF tables, kernel
<1>1. InSegment'
  BY DEF TablesInv, InSegment, Begin
<1>2. TablesTypeOK' /\ PointedInUse' /\ InUsePointed' /\ OpenOwned'
  BY DEF TablesInv, Begin, TablesTypeOK, PointedInUse, InUsePointed, OpenOwned, Entry
<1> QED
  BY <1>1, <1>2 DEF TablesInv

(* A change of seek_pos, by lseek or by what was read, changes nothing     *)
(* else of an entry.                                                       *)
LEMMA SeekPosOnly ==
  ASSUME TablesInv, NEW s \in Slots, NEW p,
         cache' = [cache EXCEPT ![s].seek_pos = p],
         UNCHANGED <<cptr, next_slot, file>>, "i" \in DOMAIN job'
  PROVE  TablesTypeOK' /\ PointedInUse' /\ InUsePointed' /\ OpenOwned'
<1>1. \A u \in Slots : cache'[u].fd = cache[u].fd /\ cache'[u].image = cache[u].image
  BY DEF TablesInv, TablesTypeOK, Entry
<1>2. cache' = [u \in Slots |-> Entry(cache'[u])]
  BY DEF TablesInv, TablesTypeOK, Entry
<1>3. TablesTypeOK'
  BY <1>1, <1>2 DEF TablesInv, TablesTypeOK
<1>4. PointedInUse'
  <2>1. \A i \in Segs : cptr[i] # -1 => cptr[i] \in Slots
    BY DEF TablesInv, TablesTypeOK
  <2> QED
    BY <1>1, <2>1 DEF TablesInv, PointedInUse
<1>5. InUsePointed' /\ OpenOwned'
  BY <1>1 DEF TablesInv, InUsePointed, OpenOwned
<1> QED
  BY <1>3, <1>4, <1>5

LEMMA SeekKeeps == TablesInv /\ Seek => TablesInv'
<1> SUFFICES ASSUME TablesInv, Seek PROVE TablesInv'
  OBVIOUS
<1>1. cptr[job.i] \in Slots
  BY DEF TablesInv, TablesTypeOK, InSegment, Seek
<1>2. InSegment'
  BY DEF TablesInv, InSegment, Seek, Finish
<1>3. TablesTypeOK' /\ PointedInUse' /\ InUsePointed' /\ OpenOwned'
  <2>1. CASE UNCHANGED cache
    BY <2>1 DEF TablesInv, Seek, TablesTypeOK, PointedInUse, InUsePointed, OpenOwned, Entry
  <2>2. CASE cache' = [cache EXCEPT ![cptr[job.i]].seek_pos = job.rel]
    BY <1>1, <2>2, SeekPosOnly DEF Seek, TablesInv, TablesTypeOK
  <2> QED
    BY <2>1, <2>2 DEF Seek
<1> QED
  BY <1>2, <1>3 DEF TablesInv

LEMMA ReadKeeps == TablesInv /\ Read => TablesInv'
<1> SUFFICES ASSUME TablesInv, Read PROVE TablesInv'
  OBVIOUS
<1>1. cptr[job.i] \in Slots
  BY DEF TablesInv, TablesTypeOK, InSegment, Read
<1>2. \/ pc' = "idle"
      \/ pc' = "outside"
      \/ pc' = "segment" /\ job'.i \in Segs
  <2>1. PICK d : GoOn(d) \/ (\E n : Finish(n))
    BY DEF Read
  <2>2. CASE GoOn(d)
    BY <2>2 DEF GoOn, TablesInv, TablesTypeOK
  <2> QED
    BY <2>1, <2>2 DEF Finish
<1>3. InSegment'
  BY <1>2 DEF InSegment
<1>4. PICK c : cache' = [cache EXCEPT ![cptr[job.i]].seek_pos = @ + c]
  BY DEF Read, Advanced
<1>5. cache' = [cache EXCEPT ![cptr[job.i]].seek_pos = cache[cptr[job.i]].seek_pos + c]
  BY <1>4
<1>6. "i" \in DOMAIN job'
  BY DEF Read, GoOn, TablesInv, TablesTypeOK
<1>7. TablesTypeOK' /\ PointedInUse' /\ InUsePointed' /\ OpenOwned'
  BY <1>1, <1>5, <1>6, SeekPosOnly DEF Read
<1> QED
  BY <1>3, <1>7 DEF TablesInv

LEMMA ReadFailedKeeps == TablesInv /\ ReadFailed => TablesInv'
  BY ZenonT(30) DEF TablesInv, ReadFailed, Finish, tables, kernel, TablesTypeOK, InSegment,
         PointedInUse, InUsePointed, OpenOwned, Entry

-----------------------------------------------------------------------------
(* Giving up the entry of the next slot, before a file is opened in it: no *)
(* segment points to it any more and its descriptor is closed.             *)
LEMMA GiveUp ==
  ASSUME TablesInv, NEW old, old = cache[next_slot]
  PROVE  /\ Disown(old) \in [Segs -> Slots \union {-1}]
         /\ Closed(old) \in [Fds -> Segs \union {-1}]
         /\ \A i \in Segs : Disown(old)[i] = IF cptr[i] = next_slot THEN -1 ELSE cptr[i]
         /\ \A fd \in Fds : Closed(old)[fd] = IF fd = old.fd THEN -1 ELSE file[fd]
<1>1. next_slot \in Slots /\ old.fd \in Fds \union {0} /\ old.image \in Segs
  BY DEF TablesInv, TablesTypeOK
<1>2. cptr \in [Segs -> Slots \union {-1}] /\ file \in [Fds -> Segs \union {-1}]
  BY DEF TablesInv, TablesTypeOK
<1>3. -1 \notin Slots /\ 0 \notin Fds
  BY FdAssumption, CacheAssumption DEF Slots
<1>4. CASE old.fd = 0
  <2>1. \A i \in Segs : cptr[i] # next_slot
    BY <1>4, <1>1, <1>3 DEF TablesInv, PointedInUse
  <2> QED
    BY <1>2, <1>3, <1>4, <2>1 DEF Disown, Closed
<1>5. CASE old.fd # 0
  <2>1. \A i \in Segs : cptr[i] = next_slot => i = old.image
    BY <1>1, <1>3 DEF TablesInv, PointedInUse
  <2>2. cptr[old.image] = next_slot
    BY <1>1, <1>5 DEF TablesInv, InUsePointed
  <2>3. Disown(old) = [cptr EXCEPT ![old.image] = -1]
    BY <1>5 DEF Disown
  <2>4. Closed(old) = [file EXCEPT ![old.fd] = -1]
    BY <1>5 DEF Closed
  <2> QED
    BY <1>1, <1>2, <2>1, <2>2, <2>3, <2>4
<1> QED
  BY <1>4, <1>5

(* The next slot is a slot: the counter wraps around. *)
LEMMA NextSlotType == ASSUME next_slot \in Slots PROVE NextSlot \in Slots
  BY CacheAssumption DEF Slots, NextSlot

LEMMA OpenSegmentKeeps == TablesInv /\ OpenSegment => TablesInv'
<1> SUFFICES ASSUME TablesInv, OpenSegment PROVE TablesInv'
  OBVIOUS
<1> DEFINE old == cache[next_slot]
<1>1. /\ next_slot \in Slots /\ job.i \in Segs /\ cptr[job.i] = -1
      /\ UNCHANGED job /\ "i" \in DOMAIN job'
  BY DEF TablesInv, TablesTypeOK, InSegment, OpenSegment
<1>2. /\ Disown(old) \in [Segs -> Slots \union {-1}]
      /\ Closed(old) \in [Fds -> Segs \union {-1}]
      /\ \A i \in Segs : Disown(old)[i] = IF cptr[i] = next_slot THEN -1 ELSE cptr[i]
      /\ \A fd \in Fds : Closed(old)[fd] = IF fd = old.fd THEN -1 ELSE file[fd]
  BY GiveUp
<1>3. -1 \notin Slots /\ -1 \notin Segs /\ 0 \notin Fds
  BY FdAssumption DEF Slots, Segs
<1>4. /\ cptr \in [Segs -> Slots \union {-1}]
      /\ cache = [s \in Slots |-> Entry(cache[s])]
      /\ \A s \in Slots : cache[s].fd \in Fds \union {0} /\ cache[s].image \in Segs
  BY DEF TablesInv, TablesTypeOK
<1>5. \A s \in Slots \ {next_slot} : cache[s].fd # 0 =>
        /\ file[cache[s].fd] = cache[s].image
        /\ cptr[cache[s].image] = s
        /\ cache[s].fd # old.fd
  BY <1>1, OneOwner DEF TablesInv, InUsePointed
<1>6. \A i \in Segs : cptr[i] # -1 => cache[cptr[i]].fd # 0 /\ cache[cptr[i]].image = i
  BY DEF TablesInv, PointedInUse
<1>7. \A fd \in Fds : file[fd] # -1 => \E s \in Slots : cache[s].fd = fd
  BY DEF TablesInv, OpenOwned
<1>8. CASE \E fd \in Fds :
             /\ Closed(old)[fd] = -1
             /\ file' = [Closed(old) EXCEPT ![fd] = job.i]
             /\ cache' = [cache EXCEPT ![next_slot] =
                            [fd |-> fd, image |-> job.i, seek_pos |-> 0]]
             /\ cptr' = [Disown(old) EXCEPT ![job.i] = next_slot]
             /\ next_slot' = NextSlot
             /\ UNCHANGED pc
  <2>1. PICK fd \in Fds :
             /\ Closed(old)[fd] = -1
             /\ file' = [Closed(old) EXCEPT ![fd] = job.i]
             /\ cache' = [cache EXCEPT ![next_slot] =
                            [fd |-> fd, image |-> job.i, seek_pos |-> 0]]
             /\ cptr' = [Disown(old) EXCEPT ![job.i] = next_slot]
             /\ next_slot' = NextSlot
             /\ UNCHANGED pc
    BY <1>8
  <2>2. \A s \in Slots : cache'[s] = IF s = next_slot
                                     THEN [fd |-> fd, image |-> job.i, seek_pos |-> 0]
                                     ELSE cache[s]
    BY <2>1, <1>4
  <2>3. \A i \in Segs : cptr'[i] = IF i = job.i THEN next_slot
                                   ELSE IF cptr[i] = next_slot THEN -1 ELSE cptr[i]
    BY <2>1, <1>2
  <2>4. \A g \in Fds : file'[g] = IF g = fd THEN job.i
                                  ELSE IF g = old.fd THEN -1 ELSE file[g]
    BY <2>1, <1>2
  <2>5. TablesTypeOK'
    <3>1. cptr' \in [Segs -> Slots \union {-1}] /\ file' \in [Fds -> Segs \union {-1}]
      BY <2>1, <1>1, <1>2
    <3>2. cache' = [s \in Slots |-> Entry(cache'[s])]
      BY <2>1, <2>2, <1>4 DEF Entry
    <3>3. \A s \in Slots : cache'[s].fd \in Fds \union {0} /\ cache'[s].image \in Segs
      BY <2>1, <2>2, <1>1, <1>4
    <3>4. next_slot' \in Slots
      BY <2>1, <1>1, NextSlotType
    <3> QED
      BY <1>1, <3>1, <3>2, <3>3, <3>4 DEF TablesTypeOK
  <2>6. \A s \in Slots \ {next_slot} : cache[s].fd # 0 => cache[s].fd # fd
    BY <2>1, <1>2, <1>3, <1>4, <1>5
  <2>7. InSegment'
    BY <2>1, <1>1 DEF OpenSegment, InSegment
  <2>8. PointedInUse'
    <3> SUFFICES ASSUME NEW i \in Segs, cptr'[i] # -1
                 PROVE  cache'[cptr'[i]].fd # 0 /\ cache'[cptr'[i]].image = i
      BY DEF PointedInUse
    <3>1. CASE i = job.i
      BY <3>1, <2>2, <2>3, <1>1, <1>3
    <3>2. CASE i # job.i
      <4>1. cptr'[i] = cptr[i] /\ cptr[i] # next_slot /\ cptr[i] \in Slots
        BY <3>2, <2>3, <1>4
      <4> QED
        BY <4>1, <2>2, <1>6
    <3> QED
      BY <3>1, <3>2
  <2>9. InUsePointed'
    <3> SUFFICES ASSUME NEW s \in Slots, cache'[s].fd # 0
                 PROVE  file'[cache'[s].fd] = cache'[s].image /\ cptr'[cache'[s].image] = s
      BY DEF InUsePointed
    <3>1. CASE s = next_slot
      BY <3>1, <2>2, <2>3, <2>4, <1>1
    <3>2. CASE s # next_slot
      <4>1. cache'[s] = cache[s] /\ cache[s].fd # 0 /\ cache[s].fd \in Fds
        BY <3>2, <2>2, <1>4
      <4>2. file'[cache[s].fd] = cache[s].image
        BY <4>1, <3>2, <2>4, <2>6, <1>5
      <4>3. cptr'[cache[s].image] = s
        BY <4>1, <3>2, <2>3, <1>1, <1>3, <1>4, <1>5
      <4> QED
        BY <4>1, <4>2, <4>3
    <3> QED
      BY <3>1, <3>2
  <2>10. OpenOwned'
    <3> SUFFICES ASSUME NEW g \in Fds, file'[g] # -1
                 PROVE  \E s \in Slots : cache'[s].fd = g
      BY DEF OpenOwned
    <3>1. CASE g = fd
      BY <3>1, <2>2, <1>1
    <3>2. CASE g # fd
      <4>1. g # old.fd /\ file[g] # -1
        BY <3>2, <2>4
      <4>2. PICK s \in Slots : cache[s].fd = g
        BY <4>1, <1>7
      <4> QED
        BY <4>1, <4>2, <2>2
    <3> QED
      BY <3>1, <3>2
  <2> QED
    BY <2>5, <2>7, <2>8, <2>9, <2>10 DEF TablesInv
<1>9. CASE /\ file' = Closed(old)
           /\ cache' = [cache EXCEPT ![next_slot].fd = 0]
           /\ cptr' = Disown(old)
           /\ UNCHANGED next_slot
           /\ pc' = "idle"
  <2>1. \A s \in Slots : /\ cache'[s].fd = IF s = next_slot THEN 0 ELSE cache[s].fd
                         /\ cache'[s].image = cache[s].image
    BY <1>9, <1>1, <1>4 DEF Entry
  <2>2. cache' = [s \in Slots |-> Entry(cache'[s])]
    BY <1>9, <1>1, <1>4 DEF Entry
  <2>3. TablesTypeOK'
    BY <1>9, <1>1, <1>2, <1>4, <2>1, <2>2 DEF TablesTypeOK
  <2>4. InSegment'
    BY <1>9 DEF InSegment
  <2>5. PointedInUse'
    <3> SUFFICES ASSUME NEW i \in Segs, cptr'[i] # -1
                 PROVE  cache'[cptr'[i]].fd # 0 /\ cache'[cptr'[i]].image = i
      BY DEF PointedInUse
    <3>1. cptr'[i] = cptr[i] /\ cptr[i] # next_slot /\ cptr[i] \in Slots
      BY <1>9, <1>2, <1>4
    <3> QED
      BY <3>1, <2>1, <1>6
  <2>6. InUsePointed'
    BY <1>9, <1>2, <1>4, <1>5, <2>1 DEF InUsePointed
  <2>7. OpenOwned'
    BY <1>9, <1>2, <1>7, <2>1 DEF OpenOwned
  <2> QED
    BY <2>3, <2>4, <2>5, <2>6, <2>7 DEF TablesInv
<1> QED
  BY <1>8, <1>9 DEF OpenSegment, Finish

-----------------------------------------------------------------------------
(* The tables agree with what is open in every reachable state. *)
THEOREM TablesInvariance == Spec => []TablesInv
<1>1. ASSUME TablesInv, [Next]_vars PROVE TablesInv'
  <2>1. CASE Next
    BY <1>1, <2>1, BeginKeeps, OpenSegmentKeeps, SeekKeeps, ReadKeeps, ReadFailedKeeps
       DEF Next
  <2>2. CASE UNCHANGED vars
    BY <1>1, <2>2 DEF vars, TablesInv, TablesTypeOK, InSegment, PointedInUse,
                      InUsePointed, OpenOwned, Entry
  <2> QED
    BY <1>1, <2>1, <2>2
<1> QED
  BY <1>1, InvInit, PTL DEF Spec

(* The entry that a segment points to is its own and is open on its file   *)
(* (raw.h:45): a read of a segment never reads another segment's file.     *)
THEOREM OwnEntry == Spec => []PointsToOwnEntry
<1>1. ASSUME TablesInv PROVE PointsToOwnEntry
  <2> SUFFICES ASSUME NEW i \in Segs, cptr[i] # -1
               PROVE  cache[cptr[i]].image = i /\ file[cache[cptr[i]].fd] = i
    BY DEF PointsToOwnEntry
  <2>1. cptr[i] \in Slots /\ cache[cptr[i]].fd # 0 /\ cache[cptr[i]].image = i
    BY <1>1, ZenonT(30) DEF TablesInv, TablesTypeOK, PointedInUse
  <2> QED
    BY <1>1, <2>1 DEF TablesInv, InUsePointed
<1> QED
  BY <1>1, TablesInvariance, PTL

(* Every descriptor that raw_read_segment opened is owned by one entry, so *)
(* it is closed when that entry is used again (raw.c:65-75).               *)
THEOREM DescriptorsKept == Spec => []NoDescriptorLost
<1>1. ASSUME TablesInv PROVE NoDescriptorLost
  <2> SUFFICES ASSUME NEW fd \in Fds, file[fd] # -1
               PROVE  \E s \in Slots : /\ cache[s].fd = fd
                                       /\ \A s2 \in Slots : cache[s2].fd = fd => s2 = s
    BY DEF NoDescriptorLost
  <2>1. PICK s \in Slots : cache[s].fd = fd
    BY <1>1 DEF TablesInv, OpenOwned
  <2>2. cache[s].fd # 0
    BY <2>1, FdAssumption
  <2> QED
    BY <1>1, <2>1, <2>2, OneOwner
<1> QED
  BY <1>1, TablesInvariance, PTL

-----------------------------------------------------------------------------
(* The running total is defined by recursion.  That there is a function    *)
(* with this recursion is shown for the first segment for which there      *)
(* would be none.                                                          *)
TotalsTo(n, f) ==
  /\ f \in [0 .. n -> Nat]
  /\ \A i \in 0 .. n : f[i] = SegLens[i + 1] + (IF i = 0 THEN 0 ELSE f[i - 1])

LEMMA SegLenType == NumImg \in Nat \ {0} /\ \A i \in Segs : SegLens[i + 1] \in Nat
  BY SegAssumption DEF Segs, NumImg

LEMMA TotalsExist == \A n \in Segs : \E f : TotalsTo(n, f)
<1> DEFINE T == {n \in Segs : ~\E f : TotalsTo(n, f)}
<1>1. SUFFICES ASSUME T # {} PROVE FALSE
  OBVIOUS
<1>2. Segs \subseteq Nat
  BY DEF Segs
<1>3. PICK n \in T : \A m \in T : n <= m
  <2>1. T \subseteq Nat
    BY <1>2
  <2> HIDE DEF T
  <2> QED
    BY <1>1, <2>1, LeastNat
<1>4. CASE n = 0
  <2>1. TotalsTo(0, [i \in 0 .. 0 |-> SegLens[1]])
    BY SegLenType, <1>4 DEF TotalsTo
  <2> QED
    BY <1>4, <2>1
<1>5. CASE n # 0
  <2>1. n - 1 \in Segs /\ n - 1 \notin T
    BY <1>2, <1>3, <1>5, SegLenType DEF Segs
  <2>2. PICK f : TotalsTo(n - 1, f)
    BY <2>1
  <2> DEFINE g == [i \in 0 .. n |-> IF i < n THEN f[i] ELSE SegLens[n + 1] + f[n - 1]]
  <2>3. SegLens[n + 1] \in Nat /\ f[n - 1] \in Nat /\ n \in Nat
    BY <1>2, <2>1, <2>2, SegLenType DEF TotalsTo
  <2>4. g \in [0 .. n -> Nat]
    BY <2>2, <2>3 DEF TotalsTo
  <2>5. \A i \in 0 .. n : g[i] = SegLens[i + 1] + (IF i = 0 THEN 0 ELSE g[i - 1])
    BY <1>5, <2>2, <2>3 DEF TotalsTo
  <2>6. TotalsTo(n, g)
    BY <2>4, <2>5 DEF TotalsTo
  <2> QED
    BY <2>6
<1> QED
  BY <1>4, <1>5

LEMMA MaxOffDef ==
  /\ max_off \in [Segs -> Nat]
  /\ \A i \in Segs : max_off[i] = SegLens[i + 1] + (IF i = 0 THEN 0 ELSE max_off[i - 1])
<1> DEFINE IsTotal(f) ==
             f = [i \in Segs |-> SegLens[i + 1] + (IF i = 0 THEN 0 ELSE f[i - 1])]
<1>1. NumImg - 1 \in Segs /\ 0 .. NumImg - 1 = Segs
  BY SegLenType DEF Segs
<1>2. PICK f : TotalsTo(NumImg - 1, f)
  BY <1>1, TotalsExist
<1>3. IsTotal(f)
  BY <1>1, <1>2 DEF TotalsTo
<1>4. max_off = CHOOSE h : IsTotal(h)
  BY DEF max_off
<1>5. IsTotal(max_off)
  <2> HIDE DEF IsTotal
  <2> QED
    BY <1>3, <1>4
<1>6. \A i \in Segs : max_off[i] = SegLens[i + 1] + (IF i = 0 THEN 0 ELSE max_off[i - 1])
  BY <1>5
<1>7. \A i \in Segs : max_off[i] \in Nat
  <2> DEFINE T == {i \in Segs : max_off[i] \notin Nat}
  <2> SUFFICES ASSUME T # {} PROVE FALSE
    OBVIOUS
  <2>1. PICK i \in T : \A j \in T : i <= j
    <3>1. T \subseteq Nat
      BY DEF Segs
    <3> HIDE DEF T
    <3> QED
      BY <3>1, LeastNat
  <2>2. i # 0 => i - 1 \in Segs /\ i - 1 \notin T
    BY <2>1, SegLenType DEF Segs
  <2> QED
    BY <1>6, <2>1, <2>2, SegLenType
<1> QED
  BY <1>5, <1>6, <1>7

(* Where a segment starts and ends in the image *)
LEMMA SegmentBounds ==
  /\ Size \in Nat
  /\ \A i \in Segs : /\ Start(i) \in Nat
                     /\ max_off[i] = Start(i) + SegLens[i + 1]
                     /\ i = 0 => Start(i) = 0
                     /\ i # 0 => Start(i) = max_off[i - 1]
                     /\ i + 1 \in Segs => Start(i + 1) = max_off[i]
                     /\ i + 1 \notin Segs => max_off[i] = Size
                     /\ max_off[i] <= Size
<1>1. NumImg - 1 \in Segs /\ Segs \subseteq Nat
  BY SegLenType DEF Segs
<1>2. Size \in Nat
  BY <1>1, MaxOffDef DEF Size
<1>3. \A i \in Segs : i # 0 => i - 1 \in Segs
  BY SegLenType DEF Segs
<1>4. \A i \in Segs : i + 1 \in Segs \/ i = NumImg - 1
  BY SegLenType DEF Segs
<1>5. \A i \in Segs : /\ Start(i) \in Nat
                      /\ max_off[i] = Start(i) + SegLens[i + 1]
                      /\ i = 0 => Start(i) = 0
                      /\ i # 0 => Start(i) = max_off[i - 1]
                      /\ max_off[i] \in Nat
  BY <1>1, <1>3, MaxOffDef, SegLenType DEF Start
<1>6. \A i \in Segs : i + 1 \in Segs => Start(i + 1) = max_off[i]
  BY <1>1, <1>5
<1>7. \A i \in Segs : max_off[i] <= Size
  <2> DEFINE T == {n \in 0 .. NumImg - 1 : ~(max_off[NumImg - 1 - n] <= Size)}
  <2>1. SUFFICES ASSUME T # {} PROVE FALSE
    <3>1. \A i \in Segs : NumImg - 1 - i \in 0 .. NumImg - 1
                         /\ NumImg - 1 - (NumImg - 1 - i) = i
      BY SegLenType DEF Segs
    <3> QED
      BY <2>1, <3>1
  <2>2. PICK n \in T : \A m \in T : n <= m
    <3>1. T \subseteq Nat
      OBVIOUS
    <3> HIDE DEF T
    <3> QED
      BY <2>1, <3>1, LeastNat
  <2>3. n # 0
    BY <1>2, <2>2, SegLenType DEF Size
  <2>4. /\ n - 1 \in 0 .. NumImg - 1 /\ n - 1 \notin T
        /\ NumImg - 1 - (n - 1) = NumImg - 1 - n + 1
        /\ NumImg - 1 - n \in Segs /\ NumImg - 1 - n + 1 \in Segs
    BY <2>2, <2>3, SegLenType DEF Segs
  <2>5. max_off[NumImg - 1 - n + 1] <= Size
    BY <2>4
  <2>6. max_off[NumImg - 1 - n] <= max_off[NumImg - 1 - n + 1]
    <3> DEFINE i == NumImg - 1 - n
    <3>1. i \in Segs /\ i + 1 \in Segs
      BY <2>4
    <3> HIDE DEF i
    <3>2. max_off[i + 1] = max_off[i] + SegLens[i + 1 + 1]
      BY <3>1, <1>5, <1>6
    <3>3. max_off[i] <= max_off[i + 1]
      BY <3>1, <3>2, <1>5, SegLenType
    <3> QED
      BY <3>3 DEF i
  <2>7. max_off[NumImg - 1 - n] <= Size
    BY <1>2, <1>5, <2>4, <2>5, <2>6
  <2> QED
    BY <2>2, <2>7
<1>8. \A i \in Segs : i + 1 \notin Segs => max_off[i] = Size
  BY <1>4 DEF Size
<1> QED
  BY <1>2, <1>5, <1>6, <1>7, <1>8

-----------------------------------------------------------------------------
(* The types of the read under way, and what is known of it *)
Jobs == [off : Nat, len : Nat, i : Nat, rel : Nat, want : Nat, left : Nat, data : Seq(Int)]

(* An entry knows where its descriptor stands. *)
Standing ==
  /\ pos \in [Fds -> Nat]
  /\ \A s \in Slots : cache[s].seek_pos \in Nat
  /\ \A s \in Slots : cache[s].fd # 0 => pos[cache[s].fd] = cache[s].seek_pos

(* The bytes read so far are those from the offset on, ... *)
DataRight ==
  \A k \in 1 .. Len(job.data) : job.data[k] = job.off + k - 1

(* ... they end where the read goes on in its segment, ... *)
OnItsWay ==
  pc \in {"segment", "read"} =>
    /\ job.rel <= SegLens[job.i + 1]
    /\ Start(job.i) + job.rel = job.off + Len(job.data)
    /\ job.left + Len(job.data) = job.len
    /\ job.want = Least(job.left, SegLens[job.i + 1] - job.rel)

(* ... which is where the descriptor stands before it reads. *)
InPosition == pc = "read" => pos[cache[cptr[job.i]].fd] = job.rel

JobInv ==
  /\ job \in Jobs
  /\ pc \in {"idle", "segment", "read", "outside"}
  /\ Standing /\ DataRight /\ OnItsWay /\ InPosition
  /\ KeepsContract

LEMMA InitJobInv == Init => JobInv
<1> SUFFICES ASSUME Init PROVE JobInv
  OBVIOUS
<1>1. job = [off |-> 0, len |-> 0, i |-> 0, rel |-> 0, want |-> 0, left |-> 0, data |-> <<>>]
  BY DEF Init
<1>2. job \in Jobs /\ Len(job.data) = 0 /\ job.off = 0 /\ job.len = 0 /\ DOMAIN job.data = {}
  BY <1>1 DEF Jobs
<1>3. Standing
  BY DEF Init, Standing, Unused
<1>4. KeepsContract
  BY <1>2, SegmentBounds DEF Init, KeepsContract, Contract!Answers
<1> QED
  BY <1>2, <1>3, <1>4 DEF Init, JobInv, DataRight, OnItsWay, InPosition

(* A read begins where its offset lies in the segment that holds it. *)
LEMMA BeginJobInv == TablesInv /\ JobInv /\ Begin => JobInv'
<1> SUFFICES ASSUME TablesInv, JobInv, Begin PROVE JobInv'
  OBVIOUS
<1> USE DEF tables, kernel
<1>1. Standing'
  BY DEF JobInv, Standing, Begin
<1>2. PICK r \in Requests :
        \/ \E i \in Segs :
             /\ FirstSegment(r[1], i)
             /\ job' = [off |-> r[1], len |-> r[2], i |-> i, rel |-> r[1] - Start(i),
                        want |-> Least(r[2], max_off[i] - r[1]),
                        left |-> r[2], data |-> <<>>]
             /\ pc' = "segment"
        \/ /\ r[1] >= Size
           /\ job' = [job EXCEPT !.off = r[1], !.len = r[2], !.data = <<>>]
           /\ pc' = pc /\ ret' = -1
  BY DEF Begin
<1>3. r[1] \in Nat /\ r[2] \in Nat
  BY RequestAssumption
<1>4. pc = "idle"
  BY DEF Begin
<1>5. ASSUME NEW i \in Segs, FirstSegment(r[1], i),
             job' = [off |-> r[1], len |-> r[2], i |-> i, rel |-> r[1] - Start(i),
                     want |-> Least(r[2], max_off[i] - r[1]),
                     left |-> r[2], data |-> <<>>],
             pc' = "segment"
      PROVE  JobInv'
  <2>1. max_off[i] \in Nat /\ SegLens[i + 1] \in Nat /\ Start(i) \in Nat
        /\ max_off[i] = Start(i) + SegLens[i + 1] /\ i \in Nat
    BY MaxOffDef, SegLenType, SegmentBounds DEF Segs
  <2>2. r[1] < max_off[i] /\ Start(i) <= r[1]
    <3>1. i # 0 => i - 1 \in 0 .. i - 1
      BY <2>1
    <3>2. CASE i = 0
      BY <3>2, <1>3, <1>5, SegmentBounds DEF FirstSegment
    <3>3. CASE i # 0
      BY <3>1, <3>3, <1>5, SegmentBounds DEF FirstSegment
    <3> QED
      BY <3>2, <3>3
  <2>3. /\ job'.off = r[1] /\ job'.len = r[2] /\ job'.i = i /\ job'.left = r[2]
        /\ job'.rel = r[1] - Start(i) /\ job'.data = <<>>
        /\ job'.want = Least(r[2], max_off[i] - r[1])
    BY <1>5
  <2>4. job' \in Jobs
    BY <1>3, <1>5, <2>1, <2>2, SMTT(20) DEF Jobs, Least
  <2>5. max_off[i] - r[1] = SegLens[i + 1] - (r[1] - Start(i))
    BY <1>3, <2>1
  <2>6. OnItsWay'
    BY <1>3, <2>1, <2>2, <2>3, <2>5, SMTT(20) DEF OnItsWay
  <2>7. DataRight' /\ InPosition' /\ KeepsContract'
    BY <1>5, <2>3 DEF DataRight, InPosition, KeepsContract
  <2> QED
    BY <1>1, <1>5, <2>4, <2>6, <2>7 DEF JobInv
<1>6. ASSUME job' = [job EXCEPT !.off = r[1], !.len = r[2], !.data = <<>>],
             pc' = pc, ret' = -1
      PROVE  JobInv'
  <2> DEFINE none == <<>>
  <2>0. none \in Seq(Int) /\ job' = [job EXCEPT !.off = r[1], !.len = r[2], !.data = none]
    BY <1>6
  <2>1. job' \in Jobs /\ job'.data = <<>>
    <3>1. job' \in Jobs /\ job'.data = none
      <4> HIDE DEF none
      <4> QED
        BY <1>3, <2>0 DEF JobInv, Jobs
    <3> QED
      BY <3>1
  <2>2. DataRight' /\ OnItsWay' /\ InPosition' /\ KeepsContract'
    BY <1>4, <1>6, <2>1 DEF DataRight, OnItsWay, InPosition, KeepsContract, Contract!Answers
  <2> QED
    BY <1>1, <1>4, <1>6, <2>1, <2>2 DEF JobInv
<1> QED
  BY <1>2, <1>5, <1>6

(* A read that fails leaves the bytes it had read and answers -1. *)
LEMMA FailedJobInv ==
  ASSUME JobInv, pc # "idle", pc' = "idle", ret' = -1, UNCHANGED job, Standing'
  PROVE  JobInv'
  BY DEF JobInv, DataRight, OnItsWay, InPosition, KeepsContract, Contract!Answers

LEMMA ReadFailedJobInv == JobInv /\ ReadFailed => JobInv'
<1> SUFFICES ASSUME JobInv, ReadFailed PROVE JobInv'
  OBVIOUS
<1>1. Standing' /\ pc' = "idle" /\ ret' = -1 /\ pc # "idle" /\ UNCHANGED job
  BY DEF JobInv, ReadFailed, Finish, Standing, tables, kernel
<1> QED
  BY <1>1, FailedJobInv

(* A file that has just been opened stands at its start, and whoever lost  *)
(* its entry is not in use any more.                                       *)
LEMMA OpenSegmentJobInv == TablesInv /\ JobInv /\ OpenSegment => JobInv'
<1> SUFFICES ASSUME TablesInv, JobInv, OpenSegment PROVE JobInv'
  OBVIOUS
<1> DEFINE old == cache[next_slot]
<1>1. next_slot \in Slots /\ cache = [s \in Slots |-> Entry(cache[s])]
  BY DEF TablesInv, TablesTypeOK
<1>2. pos \in [Fds -> Nat] /\ \A s \in Slots : cache[s].seek_pos \in Nat
  BY DEF JobInv, Standing
<1>3. CASE \E fd \in Fds :
             /\ Closed(old)[fd] = -1
             /\ pos' = [pos EXCEPT ![fd] = 0]
             /\ cache' = [cache EXCEPT ![next_slot] =
                            [fd |-> fd, image |-> job.i, seek_pos |-> 0]]
             /\ UNCHANGED <<pc, ret>>
  <2>1. PICK fd \in Fds :
             /\ Closed(old)[fd] = -1
             /\ pos' = [pos EXCEPT ![fd] = 0]
             /\ cache' = [cache EXCEPT ![next_slot] =
                            [fd |-> fd, image |-> job.i, seek_pos |-> 0]]
             /\ UNCHANGED <<pc, ret>>
    BY <1>3
  <2>2. \A s \in Slots : cache'[s] = IF s = next_slot
                                     THEN [fd |-> fd, image |-> job.i, seek_pos |-> 0]
                                     ELSE cache[s]
    BY <2>1, <1>1
  <2>3. \A s \in Slots \ {next_slot} : cache[s].fd # 0 => cache[s].fd # fd
    <3> SUFFICES ASSUME NEW s \in Slots \ {next_slot}, cache[s].fd # 0, cache[s].fd = fd
                 PROVE  FALSE
      OBVIOUS
    <3>1. file[fd] # -1
      BY DEF TablesInv, InUsePointed, TablesTypeOK, Segs
    <3>2. fd = old.fd
      BY <2>1, <3>1, GiveUp
    <3> QED
      BY <1>1, <3>2, OneOwner
  <2>4. Standing'
    <3>1. pos' \in [Fds -> Nat]
      BY <2>1, <1>2
    <3>2. \A s \in Slots : cache'[s].seek_pos \in Nat
      BY <2>2, <1>2
    <3>3. \A s \in Slots : cache'[s].fd # 0 => pos'[cache'[s].fd] = cache'[s].seek_pos
      <4> SUFFICES ASSUME NEW s \in Slots, cache'[s].fd # 0
                   PROVE  pos'[cache'[s].fd] = cache'[s].seek_pos
        OBVIOUS
      <4>1. CASE s = next_slot
        BY <4>1, <2>1, <2>2, <1>2
      <4>2. CASE s # next_slot
        <5>1. cache'[s] = cache[s] /\ cache[s].fd # 0 /\ cache[s].fd # fd
          BY <4>2, <2>2, <2>3
        <5>2. cache[s].fd \in Fds
          BY <5>1 DEF TablesInv, TablesTypeOK
        <5>3. pos[cache[s].fd] = cache[s].seek_pos
          BY <5>1 DEF JobInv, Standing
        <5> QED
          BY <5>1, <5>2, <5>3, <2>1, <1>2
      <4> QED
        BY <4>1, <4>2
    <3> QED
      BY <3>1, <3>2, <3>3 DEF Standing
  <2> QED
    BY <2>1, <2>4 DEF OpenSegment, JobInv, DataRight, OnItsWay, InPosition, KeepsContract
<1>4. CASE /\ cache' = [cache EXCEPT ![next_slot].fd = 0]
           /\ UNCHANGED pos
           /\ pc' = "idle" /\ ret' = -1
  <2>1. \A s \in Slots : /\ cache'[s].fd = IF s = next_slot THEN 0 ELSE cache[s].fd
                         /\ cache'[s].seek_pos = cache[s].seek_pos
    BY <1>1, <1>4 DEF Entry
  <2>2. Standing'
    BY <1>4, <2>1 DEF JobInv, Standing
  <2> QED
    BY <1>4, <2>2, FailedJobInv DEF OpenSegment
<1> QED
  BY <1>3, <1>4 DEF OpenSegment, Finish

(* The entry in use for the segment of the read, and its descriptor *)
LEMMA InUse ==
  ASSUME TablesInv, job.i \in Segs, cptr[job.i] # -1
  PROVE  /\ cptr[job.i] \in Slots
         /\ cache[cptr[job.i]].fd \in Fds \ {0}
         /\ file[cache[cptr[job.i]].fd] = job.i
<1>1. cptr[job.i] \in Slots /\ cache[cptr[job.i]].fd # 0 /\ cache[cptr[job.i]].image = job.i
  BY DEF TablesInv, TablesTypeOK, PointedInUse
<1> QED
  BY <1>1 DEF TablesInv, TablesTypeOK, InUsePointed

(* Moving a descriptor, by lseek or by a read, moves that of one entry. *)
LEMMA Moves ==
  ASSUME TablesInv, JobInv, NEW s \in Slots, cache[s].fd \in Fds \ {0}, NEW p \in Nat,
         pos' = [pos EXCEPT ![cache[s].fd] = p],
         cache' = [cache EXCEPT ![s].seek_pos = p]
  PROVE  Standing'
<1>1. \A u \in Slots : /\ cache'[u].fd = cache[u].fd
                       /\ cache'[u].seek_pos = IF u = s THEN p ELSE cache[u].seek_pos
  BY DEF TablesInv, TablesTypeOK, Entry
<1>2. \A u \in Slots : cache[u].fd # 0 => cache[u].fd \in Fds
  BY DEF TablesInv, TablesTypeOK
<1>3. \A u \in Slots \ {s} : cache[u].fd # cache[s].fd
  BY OneOwner
<1> QED
  BY <1>1, <1>2, <1>3 DEF JobInv, Standing

LEMMA SeekJobInv == TablesInv /\ JobInv /\ Seek => JobInv'
<1> SUFFICES ASSUME TablesInv, JobInv, Seek PROVE JobInv'
  OBVIOUS
<1> DEFINE s == cptr[job.i]
<1>1. s \in Slots /\ cache[s].fd \in Fds \ {0} /\ pc = "segment"
  BY InUse DEF Seek, TablesInv, InSegment
<1>2. job.rel \in Nat
  BY DEF JobInv, Jobs
<1>3. CASE cache[s].seek_pos = job.rel /\ pc' = "read" /\ UNCHANGED <<pos, cache>>
  <2>1. Standing'
    BY <1>3 DEF JobInv, Standing
  <2>2. InPosition'
    BY <1>1, <1>3 DEF Seek, JobInv, Standing, InPosition
  <2> QED
    BY <1>1, <1>3, <2>1, <2>2 DEF Seek, JobInv, DataRight, OnItsWay, KeepsContract
<1>4. CASE /\ pos' = [pos EXCEPT ![cache[s].fd] = job.rel]
           /\ cache' = [cache EXCEPT ![s].seek_pos = job.rel]
           /\ pc' = "read"
  <2>1. Standing'
    BY <1>1, <1>2, <1>4, Moves
  <2>2. cache'[s].fd = cache[s].fd
    BY <1>1, <1>4 DEF TablesInv, TablesTypeOK, Entry
  <2>3. InPosition'
    BY <1>1, <1>4, <2>2 DEF Seek, InPosition, JobInv, Standing
  <2> QED
    BY <1>1, <1>4, <2>1, <2>3 DEF Seek, JobInv, DataRight, OnItsWay, KeepsContract
<1>5. CASE pc' = "idle" /\ ret' = -1 /\ UNCHANGED <<pos, cache>>
  <2>1. Standing'
    BY <1>5 DEF JobInv, Standing
  <2> QED
    BY <1>1, <1>5, <2>1, FailedJobInv DEF Seek
<1> QED
  BY <1>3, <1>4, <1>5 DEF Seek, Finish

(* What is read continues what was read before. *)
LEMMA ReadJobInv == TablesInv /\ JobInv /\ Read => JobInv'
<1> SUFFICES ASSUME TablesInv, JobInv, Read PROVE JobInv'
  OBVIOUS
<1> DEFINE s == cptr[job.i]
           fd == cache[s].fd
<1>1. /\ pc = "read" /\ job.i \in Segs /\ s \in Slots /\ fd \in Fds \ {0}
      /\ file[fd] = job.i
  BY InUse DEF Read, TablesInv, InSegment
<1>2. /\ job.off \in Nat /\ job.len \in Nat /\ job.rel \in Nat /\ job.want \in Nat
      /\ job.left \in Nat /\ job.data \in Seq(Int) /\ Len(job.data) \in Nat
  BY DEF JobInv, Jobs
<1>3. /\ job.rel <= SegLens[job.i + 1]
      /\ Start(job.i) + job.rel = job.off + Len(job.data)
      /\ job.left + Len(job.data) = job.len
      /\ job.want = Least(job.left, SegLens[job.i + 1] - job.rel)
      /\ pos[fd] = job.rel /\ cache[s].seek_pos = job.rel
  BY <1>1 DEF JobInv, OnItsWay, InPosition, Standing
<1>4. /\ SegLens[job.i + 1] \in Nat /\ Start(job.i) \in Nat
      /\ Start(job.i) + SegLens[job.i + 1] <= Size /\ Size \in Nat
  BY <1>1, SegLenType, SegmentBounds
<1>5. PICK c \in 0 .. job.want :
        /\ pos' = [pos EXCEPT ![fd] = pos[fd] + c]
        /\ cache' = [cache EXCEPT ![s].seek_pos = cache[s].seek_pos + c]
        /\ IF c = job.want /\ job.left > job.want
           THEN GoOn(job.data \o ReadBytes(fd, c)) /\ UNCHANGED ret
           ELSE /\ Finish(Len(job.data \o ReadBytes(fd, c)))
                /\ job' = [job EXCEPT !.data = job.data \o ReadBytes(fd, c)]
  BY DEF Read, Advanced
<1> DEFINE data == job.data \o ReadBytes(fd, c)
<1>6. Standing'
  <2>1. job.rel + c \in Nat
    BY <1>2, <1>5
  <2> QED
    BY <1>1, <1>3, <1>5, <2>1, Moves
<1>7. /\ data \in Seq(Int)
      /\ Len(data) = Len(job.data) + c
      /\ \A k \in 1 .. Len(data) : data[k] = job.off + k - 1
  <2> DEFINE b == ReadBytes(fd, c)
  <2>1. c \in Nat /\ Start(job.i) + pos[fd] \in Nat
    BY <1>2, <1>3, <1>4
  <2>2. b = [k \in 1 .. c |-> Start(job.i) + pos[fd] + k - 1]
    BY <1>1 DEF ReadBytes
  <2>3. b \in Seq(Int) /\ Len(b) = c
    BY <2>1, <2>2
  <2>4. \A k \in 1 .. c : b[k] = job.off + Len(job.data) + k - 1
    BY <1>2, <1>3, <1>4, <2>1, <2>2
  <2>5. data = job.data \o b
    OBVIOUS
  <2> HIDE DEF b, data
  <2>6. data \in Seq(Int) /\ Len(data) = Len(job.data) + c
    <3>1. ASSUME NEW u \in Seq(Int), NEW v \in Seq(Int)
          PROVE  u \o v \in Seq(Int) /\ Len(u \o v) = Len(u) + Len(v)
      OBVIOUS
    <3> QED
      BY <1>2, <2>3, <2>5, <3>1, Zenon
  <2>7. ASSUME NEW k \in 1 .. Len(data) PROVE data[k] = job.off + k - 1
    <3>1. CASE k <= Len(job.data)
      <4>1. data[k] = job.data[k]
        BY <1>2, <2>3, <2>5, <2>6, <3>1
      <4> QED
        BY <1>2, <3>1, <4>1 DEF JobInv, DataRight
    <3>2. CASE k > Len(job.data)
      <4> DEFINE n == Len(job.data)
                 m == k - Len(job.data)
      <4>1. data[k] = b[m] /\ m \in 1 .. c
        BY <1>2, <2>1, <2>3, <2>5, <2>6, <3>2
      <4>2. n \in Nat /\ k \in Int /\ m = k - n
        BY <1>2
      <4>3. b[m] = job.off + n + m - 1
        <5> HIDE DEF m
        <5> QED
          BY <2>4, <4>1
      <4>4. job.off \in Nat
        BY <1>2
      <4> HIDE DEF m, n
      <4> QED
        BY <4>1, <4>2, <4>3, <4>4
    <3> QED
      BY <1>2, <2>5, <2>6, <3>1, <3>2
  <2> QED
    BY <2>6, <2>7
<1> HIDE DEF data
<1>8. c \in Nat /\ Len(data) \in Nat /\ Len(data) = Len(job.data) + c
      /\ c <= job.left /\ c <= SegLens[job.i + 1] - job.rel
  <2>1. c \in Nat /\ c <= job.want
    BY <1>2, <1>5
  <2>2. job.want <= job.left /\ job.want <= SegLens[job.i + 1] - job.rel
    BY <1>2, <1>3, <1>4 DEF Least
  <2>3. Len(data) \in Nat /\ Len(data) = Len(job.data) + c
    BY <1>7
  <2>4. job.want \in Int /\ job.left \in Int /\ SegLens[job.i + 1] - job.rel \in Int
    BY <1>2, <1>4
  <2> QED
    BY <2>1, <2>2, <2>3, <2>4
<1>10. /\ job.left - c + Len(data) = job.len
       /\ Len(data) \in 0 .. job.len
       /\ job.off + Len(data) <= Size
       /\ c = SegLens[job.i + 1] - job.rel =>
            Start(job.i) + SegLens[job.i + 1] = job.off + Len(data)
  <2> DEFINE n == Len(job.data)
             m == Len(data)
             st == Start(job.i)
             seg == SegLens[job.i + 1]
             size == Size
             off == job.off
             len == job.len
             left == job.left
             rel == job.rel
  <2>1. /\ n \in Nat /\ m \in Nat /\ st \in Nat /\ seg \in Nat /\ size \in Nat
        /\ off \in Nat /\ len \in Nat /\ left \in Nat /\ rel \in Nat
        /\ st + rel = off + n /\ left + n = len /\ m = n + c
        /\ c <= left /\ c <= seg - rel /\ st + seg <= size
    BY <1>2, <1>3, <1>4, <1>8, Zenon
  <2>2. /\ left - c + m = len
        /\ m \in 0 .. len
        /\ off + m <= size
        /\ c = seg - rel => st + seg = off + m
    <3> HIDE DEF n, m, st, seg, size, off, len, left, rel
    <3> QED
      BY <1>8, <2>1
  <2> QED
    BY <2>2, Zenon
<1>9. CASE c = job.want /\ job.left > job.want
  <2>1. GoOn(data) /\ UNCHANGED ret
    BY <1>5, <1>9 DEF data
  <2>2. /\ c = SegLens[job.i + 1] - job.rel
        /\ Remaining = job.left - c /\ Remaining \in Nat
    BY <1>2, <1>3, <1>4, <1>9 DEF Least, Remaining
  <2>3. Start(job.i) + SegLens[job.i + 1] = job.off + Len(data)
    BY <1>10, <2>2
  <2>4. /\ pc' \in {"segment", "outside"} /\ job'.off = job.off /\ job'.len = job.len
        /\ job'.data = data /\ job'.i = job.i + 1 /\ job'.left = Remaining
    BY <2>1, <1>1 DEF GoOn, JobInv, Jobs
  <2>5. DataRight' /\ InPosition' /\ KeepsContract'
    BY <1>7, <2>4 DEF DataRight, InPosition, KeepsContract
  <2>6. CASE job.i + 1 \in Segs
    <3>1. /\ job' = [job EXCEPT !.i = job.i + 1, !.rel = 0, !.left = Remaining,
                       !.want = Least(Remaining, SegLens[job.i + 1 + 1]), !.data = data]
          /\ pc' = "segment"
      BY <2>1, <2>6 DEF GoOn
    <3>2. SegLens[job.i + 1 + 1] \in Nat /\ Start(job.i + 1) = job.off + Len(data)
      BY <1>1, <2>3, <2>6, SegLenType, SegmentBounds
    <3>3. job'.rel = 0 /\ job'.want = Least(Remaining, SegLens[job.i + 1 + 1])
      BY <3>1 DEF JobInv, Jobs
    <3>4. job' \in Jobs
      <4>1. Least(Remaining, SegLens[job.i + 1 + 1]) \in Nat /\ job.i + 1 \in Nat
        BY <1>1, <2>2, <3>2 DEF Least, Segs
      <4> QED
        BY <1>7, <2>2, <3>1, <4>1 DEF JobInv, Jobs
    <3>5. OnItsWay'
      <4>2. Remaining + Len(data) = job.len
        BY <1>10, <2>2
      <4>3. /\ 0 <= SegLens[job.i + 1 + 1]
            /\ Start(job.i + 1) + 0 = job.off + Len(data)
            /\ SegLens[job.i + 1 + 1] - 0 = SegLens[job.i + 1 + 1]
        <5>1. ASSUME NEW x \in Nat PROVE 0 <= x /\ x - 0 = x /\ x + 0 = x
          OBVIOUS
        <5>2. Start(job.i + 1) \in Nat
          BY <2>6, SegmentBounds
        <5> QED
          BY <3>2, <5>1, <5>2, Zenon
      <4> QED
        BY <2>4, <3>3, <4>2, <4>3 DEF OnItsWay
    <3> QED
      BY <1>6, <2>4, <2>5, <3>4, <3>5 DEF JobInv
  <2>7. CASE job.i + 1 \notin Segs
    <3>1. job' = [job EXCEPT !.i = job.i + 1, !.left = Remaining, !.data = data]
          /\ pc' = "outside"
      BY <2>1, <2>7 DEF GoOn
    <3>2. job' \in Jobs
      <4>1. job.i + 1 \in Nat
        BY <1>1 DEF Segs
      <4> QED
        BY <1>7, <2>2, <3>1, <4>1 DEF JobInv, Jobs
    <3> QED
      BY <1>6, <2>5, <3>1, <3>2 DEF JobInv, OnItsWay
  <2> QED
    BY <2>6, <2>7
<1>11. CASE ~(c = job.want /\ job.left > job.want)
  <2>1. pc' = "idle" /\ ret' = Len(data) /\ job' = [job EXCEPT !.data = data]
    BY <1>5, <1>11 DEF Finish, data
  <2>2. job' \in Jobs /\ job'.data = data /\ job'.off = job.off /\ job'.len = job.len
    BY <1>7, <2>1 DEF JobInv, Jobs
  <2>3. Len(data) \in 0 .. job.len /\ job.off + Len(data) <= Size
    BY <1>10
  <2>4. DataRight' /\ OnItsWay' /\ InPosition'
    BY <1>7, <2>1, <2>2 DEF DataRight, OnItsWay, InPosition
  <2>5. KeepsContract'
    <3>1. \A k \in DOMAIN data : data[k] = job.off + k - 1
      BY <1>7
    <3> QED
      BY <2>1, <2>2, <2>3, <3>1 DEF KeepsContract, Contract!Answers
  <2> QED
    BY <1>6, <2>1, <2>2, <2>4, <2>5 DEF JobInv
<1> QED
  BY <1>9, <1>11

(* Every step keeps what is known of the read. *)
LEMMA JobStep == TablesInv /\ JobInv /\ [Next]_vars => JobInv'
<1> SUFFICES ASSUME TablesInv, JobInv, [Next]_vars PROVE JobInv'
  OBVIOUS
<1>1. CASE Next
  BY <1>1, BeginJobInv, OpenSegmentJobInv, SeekJobInv, ReadJobInv, ReadFailedJobInv DEF Next
<1>2. CASE UNCHANGED vars
  BY <1>2 DEF vars, JobInv, Standing, DataRight, OnItsWay, InPosition, KeepsContract
<1> QED
  BY <1>1, <1>2

(* Whichever segments were open, evicted or could not be opened, a read    *)
(* answers -1 or the bytes of the image from its offset on, and never more *)
(* than are there (raw.c:210-323): what tsk_img_read takes for granted     *)
(* when it fills a cache entry.                                            *)
THEOREM ContractKept == Spec => []KeepsContract
<1>1. JobInv => KeepsContract
  BY DEF JobInv
<1> QED
  BY <1>1, InitJobInv, JobStep, TablesInvariance, PTL DEF Spec

(* A read that is under way starts inside the image, and one that has run  *)
(* past the last segment has delivered all that was left of the image.     *)
Inside ==
  /\ pc # "idle" => job.off < Size
  /\ OutsideOnlyPastEnd

LEMMA BeginInside == Inside /\ JobInv /\ Begin => Inside'
<1> SUFFICES ASSUME Inside, JobInv, Begin PROVE Inside'
  OBVIOUS
<1>1. PICK r \in Requests :
        \/ \E i \in Segs :
             /\ FirstSegment(r[1], i)
             /\ job'.off = r[1] /\ job'.len = r[2]
             /\ pc' = "segment"
        \/ pc' = pc
  BY DEF Begin
<1>2. CASE pc' = pc
  BY <1>2 DEF Begin, Inside, OutsideOnlyPastEnd
<1>3. ASSUME NEW i \in Segs, FirstSegment(r[1], i), job'.off = r[1], job'.len = r[2],
             pc' = "segment"
      PROVE  Inside'
  <2>1. r[1] < max_off[i] /\ max_off[i] <= Size /\ r[1] \in Nat /\ max_off[i] \in Nat
    BY <1>3, RequestAssumption, SegmentBounds, MaxOffDef DEF FirstSegment
  <2>2. r[1] < Size
    BY <2>1, SegmentBounds
  <2> QED
    BY <1>3, <2>2 DEF Inside, OutsideOnlyPastEnd
<1> QED
  BY <1>1, <1>2, <1>3

LEMMA BytesAre ==
  ASSUME TablesInv, JobInv, pc = "read", NEW c \in Nat
  PROVE  /\ ReadBytes(cache[cptr[job.i]].fd, c) \in Seq(Int)
         /\ Len(ReadBytes(cache[cptr[job.i]].fd, c)) = c
<1> DEFINE s == cptr[job.i]
           fd == cache[s].fd
<1>1. job.i \in Segs /\ s \in Slots /\ fd \in Fds \ {0} /\ file[fd] = job.i
  BY InUse DEF TablesInv, InSegment
<1>2. job.rel \in Nat /\ pos[fd] = job.rel
  BY <1>1 DEF JobInv, Jobs, InPosition
<1>3. Start(job.i) \in Nat
  BY <1>1, SegmentBounds
<1>4. ReadBytes(fd, c) = [k \in 1 .. c |-> Start(job.i) + pos[fd] + k - 1]
  BY <1>1 DEF ReadBytes
<1> QED
  BY <1>2, <1>3, <1>4

(* When a segment has been read to its end and no other one follows, what  *)
(* has been delivered ends where the image ends, and more was asked for.   *)
LEMMA ReadInside == TablesInv /\ JobInv /\ Inside /\ Read => Inside'
<1> SUFFICES ASSUME TablesInv, JobInv, Inside, Read PROVE Inside'
  OBVIOUS
<1>1. /\ job.i \in Segs /\ job.off < Size
      /\ job.off \in Nat /\ job.len \in Nat /\ job.rel \in Nat /\ job.want \in Nat
      /\ job.left \in Nat /\ Len(job.data) \in Nat
      /\ job.rel <= SegLens[job.i + 1]
      /\ Start(job.i) + job.rel = job.off + Len(job.data)
      /\ job.left + Len(job.data) = job.len
      /\ job.want = Least(job.left, SegLens[job.i + 1] - job.rel)
  <2>1. pc = "read" /\ pc \in {"segment", "read"}
    BY DEF Read
  <2>2. job.i \in Segs
    BY <2>1 DEF TablesInv, InSegment
  <2>3. job.off < Size
    BY <2>1 DEF Inside
  <2>4. /\ job.off \in Nat /\ job.len \in Nat /\ job.rel \in Nat /\ job.want \in Nat
        /\ job.left \in Nat /\ Len(job.data) \in Nat
    BY DEF JobInv, Jobs
  <2>5. OnItsWay
    BY DEF JobInv
  <2> QED
    BY <2>1, <2>2, <2>3, <2>4, <2>5, Zenon DEF OnItsWay
<1>2. /\ SegLens[job.i + 1] \in Nat /\ Start(job.i) \in Nat /\ Size \in Nat
      /\ max_off[job.i] = Start(job.i) + SegLens[job.i + 1]
      /\ job.i + 1 \notin Segs => max_off[job.i] = Size
  BY <1>1, SegLenType, SegmentBounds
<1>3. PICK data : \/ pc' = "idle"
                  \/ /\ job.left > job.want /\ GoOn(data)
                     /\ data \in Seq(Int) /\ Len(data) = Len(job.data) + job.want
  <2>1. PICK c \in 0 .. job.want :
          \/ pc' = "idle"
          \/ /\ c = job.want /\ job.left > job.want
             /\ GoOn(job.data \o ReadBytes(cache[cptr[job.i]].fd, c))
    BY DEF Read, Finish
  <2> DEFINE b == ReadBytes(cache[cptr[job.i]].fd, c)
  <2>2. CASE pc' = "idle"
    BY <2>2
  <2>3. CASE c = job.want /\ job.left > job.want /\ GoOn(job.data \o b)
    <3>1. b \in Seq(Int) /\ Len(b) = job.want
      <4>0. pc = "read"
        BY Zenon DEF Read
      <4>1. c \in Nat /\ pc = "read"
        <5> HIDE DEF b, Next, JobInv, TablesInv
        <5>1. \A w \in Nat : \A k \in 0 .. w : k \in Nat
          OBVIOUS
        <5> QED
          BY <1>1, <4>0, <5>1, Zenon
      <4>2. b \in Seq(Int) /\ Len(b) = c
        BY <4>1, BytesAre
      <4> QED
        BY <2>3, <4>2
    <3>2. job.data \in Seq(Int)
      BY DEF JobInv, Jobs
    <3>3. job.data \o b \in Seq(Int) /\ Len(job.data \o b) = Len(job.data) + job.want
      <4> HIDE DEF b
      <4>1. ASSUME NEW u \in Seq(Int), NEW v \in Seq(Int)
            PROVE  u \o v \in Seq(Int) /\ Len(u \o v) = Len(u) + Len(v)
        OBVIOUS
      <4> QED
        BY <3>1, <3>2, <4>1, Zenon
    <3> QED
      BY <2>3, <3>3, Zenon
  <2> QED
    BY <2>1, <2>2, <2>3
<1>4. CASE pc' = "idle"
  BY <1>4 DEF Inside, OutsideOnlyPastEnd
<1>5. CASE /\ job.left > job.want /\ GoOn(data)
           /\ data \in Seq(Int) /\ Len(data) = Len(job.data) + job.want
  <2>1. job'.off = job.off /\ job'.len = job.len /\ job'.data = data
    BY <1>5 DEF GoOn, JobInv, Jobs
  <2>2. CASE job.i + 1 \in Segs
    <3>1. pc' = "segment"
      BY <1>5, <2>2 DEF GoOn
    <3> QED
      BY <1>1, <2>1, <3>1 DEF Inside, OutsideOnlyPastEnd
  <2>3. CASE job.i + 1 \notin Segs
    <3> DEFINE n == Len(job.data)
               m == Len(data)
               st == Start(job.i)
               seg == SegLens[job.i + 1]
               size == Size
               off == job.off
               len == job.len
               left == job.left
               rel == job.rel
               want == job.want
    <3>1. want = seg - rel /\ left > want
      BY <1>1, <1>2, <1>5 DEF Least
    <3>2. /\ n \in Nat /\ st \in Nat /\ seg \in Nat /\ size \in Nat
          /\ off \in Nat /\ len \in Nat /\ left \in Nat /\ rel \in Nat /\ want \in Nat
          /\ st + rel = off + n /\ left + n = len /\ m = n + want
          /\ size = st + seg
      BY <1>1, <1>2, <1>5, <2>3, Zenon
    <3>3. size < off + len /\ m = size - off
      <4> HIDE DEF n, m, st, seg, size, off, len, left, rel, want
      <4> QED
        BY <3>1, <3>2
    <3> QED
      BY <1>1, <2>1, <3>3 DEF Inside, OutsideOnlyPastEnd
  <2> QED
    BY <2>2, <2>3
<1> QED
  BY <1>3, <1>4, <1>5

(* For every split image and every request: the loop that goes on with the *)
(* next segment (raw.c:261-271) goes past the last one only when a read is *)
(* longer than what is left of the image, and only after delivering that.  *)
(* So no read inside the image does.                                       *)
THEOREM OutsideIsPastEnd == Spec => []OutsideOnlyPastEnd
<1>1. Init => Inside
  BY DEF Init, Inside, OutsideOnlyPastEnd
<1>2. TablesInv /\ JobInv /\ Inside /\ [Next]_vars => Inside'
  <2> SUFFICES ASSUME TablesInv, JobInv, Inside, [Next]_vars PROVE Inside'
    OBVIOUS
  <2>1. CASE Begin
    BY <2>1, BeginInside
  <2>2. CASE Read
    BY <2>2, ReadInside
  <2>3. CASE OpenSegment
    BY <2>3 DEF OpenSegment, Finish, Inside, OutsideOnlyPastEnd
  <2>4. CASE Seek
    BY <2>4 DEF Seek, Finish, Inside, OutsideOnlyPastEnd
  <2>5. CASE ReadFailed
    BY <2>5 DEF ReadFailed, Finish, Inside, OutsideOnlyPastEnd
  <2>6. CASE UNCHANGED vars
    BY <2>6 DEF vars, Inside, OutsideOnlyPastEnd
  <2> QED
    BY <2>1, <2>2, <2>3, <2>4, <2>5, <2>6 DEF Next
<1>3. Inside => OutsideOnlyPastEnd
  BY DEF Inside
<1> QED
  BY <1>1, <1>2, <1>3, InitJobInv, JobStep, TablesInvariance, PTL DEF Spec
=============================================================================
