--------------------------- MODULE DirWalkProofs ---------------------------
(***************************************************************************)
(* For every file system whose walks come to every directory (DirWalk!     *)
(* Walkable) and every number of threads.  First what a walk covers, on    *)
(* its way and when it is over, whatever callbacks answer (WalksOk); then  *)
(* what the walks of the threads together put into the shared list of      *)
(* named inodes and into $OrphanFiles (ListsOk).                           *)
(***************************************************************************)
EXTENDS DirWalk, FiniteSetTheorems, WellFoundedInduction, SequenceTheorems, TLAPS

(* A set of natural numbers that is not empty has a least one: what stands *)
(* in for induction (what fails somewhere fails somewhere first).          *)
(* Of the intervals from 0 to the numbers of the set one has none of the   *)
(* others strictly inside it.                                              *)
LEMMA LeastNat ==
  ASSUME NEW T, T \subseteq Nat, T # {}
  PROVE  \E x \in T : \A y \in T : x <= y
<1> DEFINE D == {0 .. x : x \in T}
           R == StrictSubsetOrdering(Nat)
<1>1. IsWellFoundedOn(R, FiniteSubsetsOf(Nat))
  BY FS_StrictSubsetOrderingWellFounded
<1>2. \A x \in Nat : 0 .. x \in FiniteSubsetsOf(Nat)
  <2> TAKE x \in Nat
  <2>1. IsFiniteSet(0 .. x)
    BY FS_Interval
  <2>2. 0 .. x \subseteq Nat
    OBVIOUS
  <2> QED
    BY <2>1, <2>2 DEF FiniteSubsetsOf
<1>3. D \subseteq FiniteSubsetsOf(Nat) /\ D # {}
  BY <1>2
<1>4. PICK d \in D : \A e \in D : ~(<<e, d>> \in R)
  <2> HIDE DEF D, R
  <2> QED
    BY <1>1, <1>3, WFMin
<1>5. PICK x \in T : d = 0 .. x
  OBVIOUS
<1>6. ASSUME NEW y \in T, y < x PROVE FALSE
  <2>1. 0 .. y \subseteq d /\ 0 .. y # d
    BY <1>5, <1>6
  <2>2. <<0 .. y, d>> \in R
    BY <2>1, <1>5 DEF StrictSubsetOrdering
  <2> QED
    BY <1>4, <2>2
<1> QED
  BY <1>6


-----------------------------------------------------------------------------
(* Directories that can be reached, without a recursion: those that are in *)
(* every set that has the first one and is closed.  A walk that is in the  *)
(* directories of S does not enter them.                                   *)
Closed(v, X, S) ==
  \A d \in X : \A e \in NamesIn(v, d) : Enters(v, e) /\ e.addr \notin S => e.addr \in X

Reach(v, a, S) ==
  {y \in DOMAIN v.meta :
     \A X \in SUBSET DOMAIN v.meta : a \in X /\ Closed(v, X, S) => y \in X}

Beneath(v, a, S) == UNION {NamesIn(v, d) : d \in Reach(v, a, S)}

LEMMA ReachIs ==
  ASSUME NEW v, NEW a \in DOMAIN v.meta, NEW S
  PROVE  /\ Reach(v, a, S) \subseteq DOMAIN v.meta
         /\ a \in Reach(v, a, S)
         /\ Closed(v, Reach(v, a, S), S)
<1>1. Reach(v, a, S) \subseteq DOMAIN v.meta /\ a \in Reach(v, a, S)
  BY DEF Reach
<1>2. ASSUME NEW d \in Reach(v, a, S), NEW e \in NamesIn(v, d),
             Enters(v, e), e.addr \notin S
      PROVE  e.addr \in Reach(v, a, S)
  <2>1. e.addr \in DOMAIN v.meta
    BY <1>2 DEF Enters
  <2>2. ASSUME NEW X \in SUBSET DOMAIN v.meta, a \in X, Closed(v, X, S)
        PROVE  e.addr \in X
    <3>1. d \in X
      BY <2>2 DEF Reach
    <3> QED
      BY <1>2, <2>2, <3>1 DEF Closed
  <2> QED
    BY <2>1, <2>2 DEF Reach
<1> QED
  BY <1>1, <1>2 DEF Closed

LEMMA ReachLeast ==
  ASSUME NEW v, NEW a, NEW S, NEW X \in SUBSET DOMAIN v.meta, a \in X, Closed(v, X, S)
  PROVE  Reach(v, a, S) \subseteq X
  BY DEF Reach

(* What a walk is to leave behind in a directory: its names are in Y, and  *)
(* those below the directories that it may enter.                          *)
Cleared(v, e, T, Y) ==
  e \in Y /\ (Enters(v, e) /\ e.addr \notin T => Beneath(v, e.addr, T) \subseteq Y)

(* Then everything below is in Y.  A way back to the directory itself      *)
(* leads to nothing new.                                                   *)
LEMMA CoverStep ==
  ASSUME NEW v, NEW x \in DOMAIN v.meta, NEW S, NEW T, NEW Y,
         S \subseteq T, T \subseteq S \cup {x},
         \A e \in NamesIn(v, x) : Cleared(v, e, T, Y)
  PROVE  Beneath(v, x, S) \subseteq Y
<1> DEFINE C == {e.addr : e \in {n \in NamesIn(v, x) : Enters(v, n) /\ n.addr \notin T}}
           X == {x} \cup UNION {Reach(v, c, T) : c \in C}
<1>1. C \subseteq DOMAIN v.meta
  BY DEF Enters
<1>2. X \subseteq DOMAIN v.meta
  BY <1>1, ReachIs
<1>3. ASSUME NEW d \in X, NEW e \in NamesIn(v, d), Enters(v, e), e.addr \notin S
      PROVE  e.addr \in X
  <2>1. CASE e.addr \in T
    BY <1>3, <2>1
  <2>2. CASE e.addr \notin T /\ d = x
    <3>1. e.addr \in C
      BY <1>3, <2>2
    <3>2. e.addr \in Reach(v, e.addr, T)
      BY <1>1, <3>1, ReachIs
    <3> QED
      BY <3>1, <3>2
  <2>3. CASE e.addr \notin T /\ d # x
    <3>1. PICK c \in C : d \in Reach(v, c, T)
      BY <2>3
    <3>2. Closed(v, Reach(v, c, T), T)
      BY <1>1, ReachIs
    <3>3. e.addr \in Reach(v, c, T)
      BY <1>3, <2>3, <3>1, <3>2 DEF Closed
    <3> QED
      BY <3>3
  <2> QED
    BY <2>1, <2>2, <2>3
<1>4. Reach(v, x, S) \subseteq X
  <2>1. Closed(v, X, S)
    BY <1>3 DEF Closed
  <2>2. x \in X /\ X \in SUBSET DOMAIN v.meta
    BY <1>2
  <2> HIDE DEF X
  <2> QED
    BY <2>1, <2>2, ReachLeast
<1>5. ASSUME NEW d \in X PROVE NamesIn(v, d) \subseteq Y
  <2>1. CASE d = x
    BY <2>1 DEF Cleared
  <2>2. CASE d # x
    <3>1. PICK c \in C : d \in Reach(v, c, T)
      BY <2>2
    <3>2. Beneath(v, c, T) \subseteq Y
      BY <3>1 DEF Cleared
    <3> QED
      BY <3>1, <3>2 DEF Beneath
  <2> QED
    BY <2>1, <2>2
<1> QED
  <2> HIDE DEF X
  <2> QED
    BY <1>4, <1>5 DEF Beneath

-----------------------------------------------------------------------------
(* DirWalk!DirsBelow comes to the same directories, since there are not    *)
(* more of them than it takes steps.                                       *)
Grown(v, dirs) ==
  dirs \cup {e.addr : e \in {n \in UNION {NamesIn(v, d) : d \in dirs} : Enters(v, n)}}

Within(v, a, m, g) ==
  /\ g \in [0 .. m -> SUBSET DOMAIN v.meta] /\ g[0] = {a}
  /\ \A n \in 1 .. m : g[n] = Grown(v, g[n - 1])

LEMMA GrownType ==
  ASSUME NEW v, NEW dirs \in SUBSET DOMAIN v.meta
  PROVE  /\ Grown(v, dirs) \in SUBSET DOMAIN v.meta
         /\ dirs \subseteq Grown(v, dirs)
         /\ Grown(v, dirs) = dirs <=> Closed(v, dirs, {})
<1>1. Grown(v, dirs) \in SUBSET DOMAIN v.meta /\ dirs \subseteq Grown(v, dirs)
  BY DEF Grown, Enters
<1>2. ASSUME Closed(v, dirs, {}) PROVE Grown(v, dirs) \subseteq dirs
  BY <1>2 DEF Grown, Closed
<1>3. ASSUME Grown(v, dirs) = dirs PROVE Closed(v, dirs, {})
  <2> SUFFICES ASSUME NEW d \in dirs, NEW e \in NamesIn(v, d), Enters(v, e)
               PROVE  e.addr \in dirs
    BY DEF Closed
  <2>1. e \in {n \in UNION {NamesIn(v, c) : c \in dirs} : Enters(v, n)}
    OBVIOUS
  <2>2. e.addr \in Grown(v, dirs)
    BY <2>1 DEF Grown
  <2> QED
    BY <2>2, <1>3
<1> QED
  BY <1>1, <1>2, <1>3

LEMMA WithinExists ==
  ASSUME NEW v, NEW a \in DOMAIN v.meta, NEW m \in Nat
  PROVE  \E g : Within(v, a, m, g)
<1> DEFINE Bad == {k \in Nat : ~\E g : Within(v, a, k, g)}
<1>1. SUFFICES ASSUME Bad # {} PROVE FALSE
  OBVIOUS
<1>2. PICK n \in Bad : \A k \in Bad : n <= k
  <2>1. Bad \subseteq Nat
    OBVIOUS
  <2> HIDE DEF Bad
  <2> QED
    BY <1>1, <2>1, LeastNat
<1>3. CASE n = 0
  <2>1. Within(v, a, 0, [i \in 0 .. 0 |-> {a}])
    BY DEF Within
  <2> QED
    BY <1>3, <2>1
<1>4. CASE n # 0
  <2>1. n - 1 \in Nat /\ n - 1 \notin Bad
    BY <1>2, <1>4
  <2>2. PICK g : Within(v, a, n - 1, g)
    BY <2>1
  <2> DEFINE h == [i \in 0 .. n |-> IF i < n THEN g[i] ELSE Grown(v, g[n - 1])]
  <2>3. g[n - 1] \in SUBSET DOMAIN v.meta
    BY <2>1, <2>2 DEF Within
  <2>4. Grown(v, g[n - 1]) \in SUBSET DOMAIN v.meta
    BY <2>3, GrownType
  <2>5. h \in [0 .. n -> SUBSET DOMAIN v.meta]
    BY <2>1, <2>2, <2>4 DEF Within
  <2>6. h[0] = {a}
    BY <1>4, <2>1, <2>2 DEF Within
  <2>7. ASSUME NEW k \in 1 .. n PROVE h[k] = Grown(v, h[k - 1])
    <3>1. h[k - 1] = g[k - 1]
      BY <2>1
    <3>2. k < n => h[k] = g[k] /\ g[k] = Grown(v, g[k - 1])
      BY <2>1, <2>2 DEF Within
    <3>3. ~(k < n) => k = n /\ h[k] = Grown(v, g[n - 1])
      BY <2>1
    <3> HIDE DEF h
    <3> QED
      BY <3>1, <3>2, <3>3
  <2>8. Within(v, a, n, h)
    <3> HIDE DEF h
    <3> QED
      BY <2>5, <2>6, <2>7 DEF Within
  <2> QED
    BY <2>8
<1> QED
  BY <1>3, <1>4

LEMMA BelowIsWithin ==
  ASSUME NEW v, NEW a \in DOMAIN v.meta, IsFiniteSet(DOMAIN v.meta)
  PROVE  \E g : /\ Within(v, a, Cardinality(DOMAIN v.meta), g)
                /\ DirsBelow(v, a) = g[Cardinality(DOMAIN v.meta)]
<1> DEFINE size == Cardinality(DOMAIN v.meta)
           IsWithin(h) ==
             h = [n \in 0 .. size |-> IF n = 0 THEN {a} ELSE Grown(v, h[n - 1])]
           w == CHOOSE h : IsWithin(h)
<1>1. size \in Nat
  BY FS_CardinalityType
<1>2. PICK g : Within(v, a, size, g)
  BY <1>1, WithinExists
<1>3. IsWithin(g)
  BY <1>1, <1>2 DEF Within
<1>4. IsWithin(w)
  <2> HIDE DEF IsWithin
  <2> QED
    BY <1>3
<1>5. DirsBelow(v, a) = w[size]
  BY DEF DirsBelow, Grown
<1>6. Within(v, a, size, w)
  <2> HIDE DEF w, size
  <2>1. w[0] = {a} /\ DOMAIN w = 0 .. size
    BY <1>1, <1>4
  <2>2. \A n \in 1 .. size : w[n] = Grown(v, w[n - 1])
    <3>1. \A n \in 0 .. size : w[n] = IF n = 0 THEN {a} ELSE Grown(v, w[n - 1])
      BY <1>4, Zenon
    <3>2. \A n \in 1 .. size : n \in 0 .. size /\ n # 0
      BY <1>1
    <3> QED
      BY <3>1, <3>2, Zenon
  <2>3. \A n \in 0 .. size : w[n] \in SUBSET DOMAIN v.meta
    <3> DEFINE Bad == {n \in 0 .. size : w[n] \notin SUBSET DOMAIN v.meta}
    <3> SUFFICES ASSUME Bad # {} PROVE FALSE
      OBVIOUS
    <3>1. PICK n \in Bad : \A k \in Bad : n <= k
      <4>1. Bad \subseteq Nat
        BY <1>1
      <4> HIDE DEF Bad
      <4> QED
        BY <4>1, LeastNat
    <3>2. n # 0
      BY <2>1
    <3>3. n \in 1 .. size /\ n - 1 \in 0 .. size /\ n - 1 \notin Bad
      BY <1>1, <3>1, <3>2
    <3>4. w[n - 1] \in SUBSET DOMAIN v.meta /\ w[n] = Grown(v, w[n - 1])
      BY <2>2, <3>3
    <3> QED
      BY <3>4, GrownType
  <2>4. w = [n \in 0 .. size |-> w[n]]
    BY <1>4, <2>1
  <2> QED
    BY <2>1, <2>2, <2>3, <2>4 DEF Within
<1> QED
  BY <1>5, <1>6

LEMMA BelowIsReach ==
  ASSUME NEW v, NEW a \in DOMAIN v.meta, IsFiniteSet(DOMAIN v.meta)
  PROVE  DirsBelow(v, a) = Reach(v, a, {})
<1> DEFINE M == DOMAIN v.meta
           size == Cardinality(M)
<1>1. size \in Nat
  BY FS_CardinalityType
<1>2. PICK g : Within(v, a, size, g) /\ DirsBelow(v, a) = g[size]
  BY BelowIsWithin
<1>3. /\ g[0] = {a}
      /\ \A n \in 0 .. size : g[n] \in SUBSET M
      /\ \A n \in 1 .. size : g[n] = Grown(v, g[n - 1])
  BY <1>1, <1>2 DEF Within
<1>4. a \in g[size] /\ g[size] \subseteq Reach(v, a, {})
  <2> DEFINE Bad == {n \in 0 .. size : ~(a \in g[n] /\ g[n] \subseteq Reach(v, a, {}))}
  <2>1. SUFFICES ASSUME Bad # {} PROVE FALSE
    BY <1>1
  <2>2. PICK n \in Bad : \A k \in Bad : n <= k
    <3>1. Bad \subseteq Nat
      BY <1>1
    <3> HIDE DEF Bad
    <3> QED
      BY <2>1, <3>1, LeastNat
  <2>3. n # 0
    BY <1>3, ReachIs
  <2>4. n \in 1 .. size /\ n - 1 \in 0 .. size /\ n - 1 \notin Bad
    BY <1>1, <2>2, <2>3
  <2>5. a \in g[n - 1] /\ g[n - 1] \subseteq Reach(v, a, {})
    BY <2>4
  <2>6. g[n] = Grown(v, g[n - 1])
    BY <1>3, <2>4
  <2>7. Closed(v, Reach(v, a, {}), {})
    BY ReachIs
  <2>8. g[n] \subseteq Reach(v, a, {})
    BY <2>5, <2>6, <2>7 DEF Grown, Closed
  <2>9. a \in g[n]
    BY <2>5, <2>6 DEF Grown
  <2> QED
    BY <2>8, <2>9
<1>5. Closed(v, g[size], {})
  <2> DEFINE Full(n) == Closed(v, g[n], {}) \/ Cardinality(g[n]) >= n + 1
             Bad == {n \in 0 .. size : ~Full(n)}
  <2>1. \A n \in 0 .. size : IsFiniteSet(g[n]) /\ Cardinality(g[n]) \in Nat
    BY <1>3, FS_Subset, FS_CardinalityType
  <2>2. Bad = {}
    <3>1. SUFFICES ASSUME Bad # {} PROVE FALSE
      OBVIOUS
    <3>2. PICK n \in Bad : \A k \in Bad : n <= k
      <4>1. Bad \subseteq Nat
        BY <1>1
      <4> HIDE DEF Bad
      <4> QED
        BY <3>1, <4>1, LeastNat
    <3>3. n # 0
      <4>1. Cardinality(g[0]) = 1
        BY <1>3, FS_Singleton
      <4> QED
        BY <4>1, <3>2
    <3>4. n \in 1 .. size /\ n \in 0 .. size /\ n - 1 \in 0 .. size /\ n - 1 \notin Bad
      BY <1>1, <3>2, <3>3
    <3>5. g[n] = Grown(v, g[n - 1]) /\ g[n - 1] \in SUBSET M /\ g[n - 1] \subseteq g[n]
      BY <1>3, <3>4, GrownType
    <3>6. CASE Closed(v, g[n - 1], {})
      <4>1. g[n] = g[n - 1]
        BY <3>5, <3>6, GrownType
      <4> QED
        BY <3>2, <3>6, <4>1
    <3>7. CASE ~Closed(v, g[n - 1], {})
      <4>1. g[n] # g[n - 1]
        BY <3>5, <3>7, GrownType
      <4>2. /\ Cardinality(g[n - 1]) <= Cardinality(g[n])
            /\ Cardinality(g[n - 1]) # Cardinality(g[n])
        BY <2>1, <3>4, <3>5, <4>1, FS_Subset
      <4>3. Cardinality(g[n - 1]) >= n
        BY <3>4, <3>7
      <4> QED
        BY <1>1, <2>1, <3>2, <3>4, <4>2, <4>3
    <3> QED
      BY <3>6, <3>7
  <2>3. Cardinality(g[size]) <= size
    BY <1>1, <1>3, FS_Subset
  <2>4. Full(size)
    BY <1>1, <2>2
  <2> HIDE DEF size
  <2>5. Cardinality(g[size]) \in Nat
    BY <1>1, <2>1
  <2> QED
    BY <1>1, <2>3, <2>4, <2>5
<1>6. Reach(v, a, {}) \subseteq g[size]
  BY <1>1, <1>3, <1>4, <1>5, ReachLeast
<1> QED
  BY <1>2, <1>4, <1>6

(* So the names below a directory are those that it leads to. *)
LEMMA NamesBelowIs ==
  ASSUME NEW f \in DOMAIN FileSystems, NEW a \in DOMAIN FileSystems[f].meta
  PROVE  NamesBelow[f][a] = Beneath(FileSystems[f], a, {})
  BY BelowIsReach, VolumeAssumption DEF NamesBelow, Beneath

-----------------------------------------------------------------------------
(* The activation records.                                                 *)
FrameRec == [names : Seq(NameRec), i : Nat \ {0}, bak : BOOLEAN]

WalkResult ==
  [fn : {"walk"}, err : BOOLEAN, shown : SUBSET Nat, asked : {"cont", "stop", "error"},
   flags : Flags]
OpenResult == [fn : {"open"}, err : {FALSE}, names : Seq(Nat)] \cup {NotOpened}
Got == WalkResult \cup OpenResult \cup {NULL}

Rets == {"cont", "stop", "error"}

WalkRec ==
  [fn : {"walk"}, pc : {"begin", "open", "wait", "names", "end"},
   cb : {"user", "named", "orphan"}, flags : Flags, target : Nat \cup {NULL},
   saving : BOOLEAN, list : SUBSET Nat, seen : Seq(Nat), path : Seq(FrameRec),
   ret : Rets \cup {NULL}, got : Got, shown : SUBSET Nat, asked : Rets]

FindRec ==
  [fn : {"find_orphans"}, pc : {"lock", "load", "loading", "scan", "entering"},
   found : Seq(Nat), subdirs : SUBSET Nat, todo : SUBSET Nat, got : Got]

Records == WalkRec \cup FindRec

(* Sequences without their last element, with another, with two others.    *)
LEMMA FrontIs ==
  ASSUME NEW S, NEW s \in Seq(S), s # <<>>
  PROVE  /\ Len(s) \in Nat \ {0} /\ DOMAIN s = 1 .. Len(s)
         /\ Front(s) \in Seq(S) /\ Len(Front(s)) = Len(s) - 1
         /\ \A k \in 1 .. Len(s) - 1 : Front(s)[k] = s[k]
         /\ Front(s) = <<>> <=> Len(s) = 1
         /\ Last(s) = s[Len(s)] /\ Last(s) \in S
<1>1. Len(s) \in Nat \ {0} /\ DOMAIN s = 1 .. Len(s)
  BY EmptySeq, LenProperties
<1>2. \A k \in 1 .. Len(s) : s[k] \in S
  BY ElementOfSeq
<1>3. \A k \in 1 .. Len(s) - 1 : s[k] \in S
  BY <1>1, <1>2
<1>4. /\ SubSeq(s, 1, Len(s) - 1) \in Seq(S)
      /\ Len(SubSeq(s, 1, Len(s) - 1)) = IF 1 <= Len(s) - 1 THEN Len(s) - 1 - 1 + 1 ELSE 0
      /\ \A i \in 1 .. Len(s) - 1 - 1 + 1 : SubSeq(s, 1, Len(s) - 1)[i] = s[1 + i - 1]
  BY <1>1, <1>3, SubSeqProperties
<1>5. /\ Front(s) \in Seq(S) /\ Len(Front(s)) = Len(s) - 1
      /\ \A k \in 1 .. Len(s) - 1 : Front(s)[k] = s[k]
  BY <1>1, <1>4 DEF Front
<1>6. Front(s) = <<>> <=> Len(s) = 1
  BY <1>1, <1>5, EmptySeq
<1> QED
  BY <1>1, <1>2, <1>5, <1>6 DEF Last

LEMMA TwoIs ==
  ASSUME NEW S, NEW q \in Seq(S), NEW r \in S, NEW c \in S
  PROVE  /\ q \o <<r, c>> \in Seq(S) /\ Len(q \o <<r, c>>) = Len(q) + 2
         /\ \A k \in 1 .. Len(q) + 2 :
              (q \o <<r, c>>)[k] =
                IF k = Len(q) + 2 THEN c ELSE IF k = Len(q) + 1 THEN r ELSE q[k]
<1> DEFINE u == <<r, c>>
<1>1. u = Append(Append(<<>>, r), c)
  OBVIOUS
<1>5. u \in Seq(S) /\ Len(u) = 2 /\ u[1] = r /\ u[2] = c
  BY EmptySeq
<1> HIDE DEF u
<1>2. Len(q) \in Nat
  BY LenProperties
<1>6. /\ q \o u \in Seq(S) /\ Len(q \o u) = Len(q) + Len(u)
      /\ \A i \in 1 .. Len(q) + Len(u) :
           (q \o u)[i] = IF i <= Len(q) THEN q[i] ELSE u[i - Len(q)]
  BY <1>5, ConcatProperties
<1> DEFINE w == q \o u
<1> HIDE DEF w
<1>3. /\ w \in Seq(S) /\ Len(w) = Len(q) + 2
      /\ \A i \in 1 .. Len(q) + 2 : w[i] = IF i <= Len(q) THEN q[i] ELSE u[i - Len(q)]
  BY <1>5, <1>6 DEF w
<1>4. ASSUME NEW k \in 1 .. Len(q) + 2
      PROVE  w[k] = IF k = Len(q) + 2 THEN c ELSE IF k = Len(q) + 1 THEN r ELSE q[k]
  BY <1>5, <1>2, <1>3
<1> QED
  BY <1>3, <1>4 DEF u, w

(* The ways a stack changes: the running record, a call, a callback.       *)
LEMMA BecomeIs ==
  ASSUME NEW S, NEW s \in Seq(S), s # <<>>, NEW r \in S
  PROVE  /\ Append(Front(s), r) \in Seq(S) /\ Append(Front(s), r) # <<>>
         /\ Len(Append(Front(s), r)) = Len(s)
         /\ \A k \in 1 .. Len(s) : Append(Front(s), r)[k] = IF k = Len(s) THEN r ELSE s[k]
<1>1. /\ Len(s) \in Nat \ {0} /\ Front(s) \in Seq(S) /\ Len(Front(s)) = Len(s) - 1
      /\ \A k \in 1 .. Len(s) - 1 : Front(s)[k] = s[k]
  BY FrontIs
<1> QED
  BY <1>1, AppendProperties

LEMMA CallIs ==
  ASSUME NEW S, NEW s \in Seq(S), s # <<>>, NEW r \in S, NEW c \in S
  PROVE  /\ Front(s) \o <<r, c>> \in Seq(S) /\ Len(Front(s) \o <<r, c>>) = Len(s) + 1
         /\ \A k \in 1 .. Len(s) + 1 :
              (Front(s) \o <<r, c>>)[k] =
                IF k = Len(s) + 1 THEN c ELSE IF k = Len(s) THEN r ELSE s[k]
<1>1. /\ Len(s) \in Nat \ {0} /\ Front(s) \in Seq(S) /\ Len(Front(s)) = Len(s) - 1
      /\ \A k \in 1 .. Len(s) - 1 : Front(s)[k] = s[k]
  BY FrontIs
<1> QED
  BY <1>1, TwoIs

LEMMA CallbackIs ==
  ASSUME NEW S, NEW s \in Seq(S), Len(s) > 1, NEW r \in S, NEW c \in S
  PROVE  LET u == SubSeq(s, 1, Len(s) - 2) \o <<r, c>>
         IN  /\ u \in Seq(S) /\ Len(u) = Len(s)
             /\ \A k \in 1 .. Len(s) :
                  u[k] = IF k = Len(s) THEN c ELSE IF k = Len(s) - 1 THEN r ELSE s[k]
<1> DEFINE f == SubSeq(s, 1, Len(s) - 2)
<1>1. Len(s) \in Nat
  BY LenProperties
<1>2. \A k \in 1 .. Len(s) - 2 : s[k] \in S
  BY <1>1, ElementOfSeq
<1>3. /\ f \in Seq(S)
      /\ Len(f) = IF 1 <= Len(s) - 2 THEN Len(s) - 2 - 1 + 1 ELSE 0
      /\ \A i \in 1 .. Len(s) - 2 - 1 + 1 : f[i] = s[1 + i - 1]
  BY <1>1, <1>2, SubSeqProperties
<1> HIDE DEF f
<1>4. Len(f) = Len(s) - 2 /\ \A i \in 1 .. Len(s) - 2 : f[i] = s[i]
  <2>1. Len(f) = Len(s) - 2
    <3>1. PICK n \in Nat : n = Len(s)
      BY <1>1
    <3>2. n > 1 /\ Len(f) = IF 1 <= n - 2 THEN n - 2 - 1 + 1 ELSE 0
      BY <1>3, <3>1
    <3> QED
      BY <3>1, <3>2
  <2>2. ASSUME NEW i \in 1 .. Len(s) - 2 PROVE f[i] = s[i]
    <3>1. 1 + i - 1 = i /\ i \in 1 .. Len(s) - 2 - 1 + 1
      BY <1>1
    <3> QED
      BY <1>3, <3>1
  <2> QED
    BY <2>1, <2>2
<1>5. f \o <<r, c>> \in Seq(S) /\ Len(f \o <<r, c>>) = Len(s)
  BY <1>1, <1>3, <1>4, TwoIs
<1>6. \A k \in 1 .. Len(s) :
        (f \o <<r, c>>)[k] = IF k = Len(s) THEN c ELSE IF k = Len(s) - 1 THEN r ELSE s[k]
  BY <1>1, <1>3, <1>4, TwoIs, SMTT(30)
<1> QED
  BY <1>5, <1>6 DEF f

-----------------------------------------------------------------------------
(* The conditions of the model for a file system v.                        *)
Gone(v) == {a \in DOMAIN v.meta : ~v.meta[a].alloc}

Goes(v, flags, e) ==
  /\ flags.recurse
  /\ IF e.addr = OrphanDir THEN e.kind \in {"dir", "undef"} /\ e.alloc /\ ~flags.noorphan
     ELSE Enters(v, e)

Volumes == {FileSystems[f] : f \in DOMAIN FileSystems}

LEMMA VolumeIs ==
  ASSUME NEW v \in Volumes
  PROVE  /\ IsFiniteSet(DOMAIN v.meta) /\ DOMAIN v.meta \subseteq Nat
         /\ OrphanDir \notin DOMAIN v.meta
         /\ v.meta \in [DOMAIN v.meta -> MetaRec]
         /\ Root \in DOMAIN v.meta /\ v.meta[Root].alloc /\ v.meta[Root].dir
         /\ v.names \in [DOMAIN v.names -> Seq(NameRec)]
         /\ Root \in Nat /\ OrphanDir \in Nat /\ Root # OrphanDir
<1>1. PICK f \in DOMAIN FileSystems : v = FileSystems[f]
  BY DEF Volumes
<1>2. /\ IsFiniteSet(DOMAIN v.meta) /\ DOMAIN v.meta \subseteq 0 .. OrphanDir - 1
      /\ v.meta \in [DOMAIN v.meta -> MetaRec]
      /\ Root \in DOMAIN v.meta /\ v.meta[Root] = [alloc |-> TRUE, dir |-> TRUE]
      /\ v.names \in [DOMAIN v.names -> Seq(NameRec)]
  BY <1>1, VolumeAssumption
<1>3. Root \in Nat /\ OrphanDir \in Nat /\ Root < OrphanDir
  BY DirAssumption
<1> QED
  BY <1>2, <1>3

LEMMA DeletedIs ==
  ASSUME fs \in DOMAIN FileSystems, NEW a \in Nat
  PROVE  Deleted(a) <=> a \in Gone(FileSystems[fs])
<1>1. OrphanDir \notin DOMAIN FileSystems[fs].meta
  BY VolumeIs DEF Volumes
<1> QED
  BY <1>1 DEF Deleted, HasMeta, Meta, Inodes, Gone

LEMMA DescendsIs ==
  ASSUME fs \in DOMAIN FileSystems, NEW e \in NameRec, NEW flags \in Flags
  PROVE  Descends(flags, e) <=> Goes(FileSystems[fs], flags, e)
<1>1. OrphanDir \notin DOMAIN FileSystems[fs].meta
  BY VolumeIs DEF Volumes
<1>2. e.addr \in Nat /\ e.alloc \in BOOLEAN
  BY DEF NameRec
<1>3. flags.recurse \in BOOLEAN /\ flags.noorphan \in BOOLEAN
  BY DEF Flags
<1>4. CASE e.addr = OrphanDir
  BY <1>1, <1>2, <1>3, <1>4 DEF Descends, Goes, Deleted, HasMeta, Meta
<1>5. CASE e.addr # OrphanDir
  BY <1>1, <1>2, <1>3, <1>5 DEF Descends, Goes, Enters, Deleted, HasMeta, Meta, Inodes
<1> QED
  BY <1>4, <1>5

(* What stands in a directory as a walk finds it. *)
EntriesOf(v, d, f) ==
  IF d = OrphanDir
  THEN \A j \in 1 .. Len(f.names) : \E y \in Gone(v) : f.names[j] = OrphanEntry(y)
  ELSE /\ d \in DOMAIN v.names \ v.unreadable
       /\ f.names = v.names[d] \o (IF d = Root THEN <<OrphanName>> ELSE <<>>)

LEMMA NamesIs ==
  ASSUME NEW v \in Volumes, NEW d, d \in DOMAIN v.names \ v.unreadable
  PROVE  /\ OrphanName \in NameRec
         /\ v.names[d] \in Seq(NameRec) /\ Len(v.names[d]) \in Nat
         /\ \A j \in 1 .. Len(v.names[d]) : v.names[d][j] \in NamesIn(v, d)
         /\ \A e \in NamesIn(v, d) : \E j \in 1 .. Len(v.names[d]) : e = v.names[d][j]
         /\ NamesIn(v, d) \subseteq NameRec
<1>1. v.names[d] \in Seq(NameRec)
  BY VolumeIs
<1>2. /\ Len(v.names[d]) \in Nat /\ DOMAIN v.names[d] = 1 .. Len(v.names[d])
      /\ \A j \in 1 .. Len(v.names[d]) : v.names[d][j] \in NameRec
  BY <1>1, LenProperties, ElementOfSeq
<1>3. OrphanName \in NameRec
  BY VolumeIs DEF OrphanName, NameRec, Kinds
<1>4. NamesIn(v, d) = {v.names[d][j] : j \in 1 .. Len(v.names[d])}
  BY <1>2 DEF NamesIn, Range
<1> QED
  BY <1>1, <1>2, <1>3, <1>4

(* The names of a directory and, last in the root, that of $OrphanFiles.   *)
LEMMA EntriesAre ==
  ASSUME NEW v \in Volumes, NEW d, d # OrphanDir, NEW f, EntriesOf(v, d, f)
  PROVE  LET n == Len(v.names[d])
         IN  /\ n \in Nat /\ f.names \in Seq(NameRec)
             /\ Len(f.names) = IF d = Root THEN n + 1 ELSE n
             /\ \A j \in 1 .. n : f.names[j] = v.names[d][j] /\ f.names[j] \in NamesIn(v, d)
             /\ d = Root => f.names[n + 1] = OrphanName
             /\ \A e \in NamesIn(v, d) : \E j \in 1 .. n : e = f.names[j]
<1>1. /\ d \in DOMAIN v.names \ v.unreadable
      /\ f.names = v.names[d] \o (IF d = Root THEN <<OrphanName>> ELSE <<>>)
  BY DEF EntriesOf
<1> DEFINE q == v.names[d]
           x == IF d = Root THEN <<OrphanName>> ELSE <<>>
<1>2. q \in Seq(NameRec) /\ Len(q) \in Nat /\ OrphanName \in NameRec
  BY <1>1, NamesIs
<1>3. x \in Seq(NameRec) /\ Len(x) = (IF d = Root THEN 1 ELSE 0) /\ (d = Root => x[1] = OrphanName)
  BY <1>2
<1>4. /\ \A j \in 1 .. Len(q) : q[j] \in NamesIn(v, d)
      /\ \A e \in NamesIn(v, d) : \E j \in 1 .. Len(q) : e = q[j]
  BY <1>1, NamesIs
<1> HIDE DEF q, x
<1>5. /\ q \o x \in Seq(NameRec) /\ Len(q \o x) = Len(q) + Len(x)
      /\ \A i \in 1 .. Len(q) + Len(x) :
           (q \o x)[i] = IF i <= Len(q) THEN q[i] ELSE x[i - Len(q)]
  BY <1>2, <1>3, ConcatProperties
<1>6. f.names = q \o x
  BY <1>1 DEF q, x
<1>7. Len(f.names) = IF d = Root THEN Len(q) + 1 ELSE Len(q)
  BY <1>2, <1>3, <1>5, <1>6
<1>8. \A j \in 1 .. Len(q) : f.names[j] = q[j]
  BY <1>2, <1>3, <1>5, <1>6
<1>9. d = Root => f.names[Len(q) + 1] = OrphanName
  BY <1>2, <1>3, <1>5, <1>6
<1> QED
  BY <1>2, <1>4, <1>5, <1>6, <1>7, <1>8, <1>9 DEF q

LEMMA NameLeads ==
  ASSUME NEW v \in Volumes, NoWayBack(v), NEW d, NEW f \in FrameRec, EntriesOf(v, d, f),
         NEW j \in 1 .. Len(f.names)
  PROVE  LET e == f.names[j]
         IN  /\ e \in NameRec /\ e.addr \in Nat
             /\ e.addr = OrphanDir => d = Root /\ j = Len(f.names) /\ e = OrphanName
             /\ Enters(v, e) => e.addr \in Dirs(v) \ {Root, OrphanDir} /\ Leads(v, d, e.addr)
             /\ d # OrphanDir /\ e.addr # OrphanDir => e \in NamesIn(v, d)
             /\ d = OrphanDir => \E y \in Gone(v) : e = OrphanEntry(y)
<1> DEFINE e == f.names[j]
<1>1. e \in NameRec /\ e.addr \in Nat
  <2>1. f.names \in Seq(NameRec)
    BY DEF FrameRec
  <2>2. e \in NameRec
    BY <2>1, ElementOfSeq
  <2> QED
    BY <2>2 DEF NameRec
<1>2. OrphanDir \notin DOMAIN v.meta /\ Root # OrphanDir /\ Root \notin Gone(v)
  BY VolumeIs DEF Gone
<1>3. CASE d = OrphanDir
  <2>1. PICK y \in Gone(v) : e = OrphanEntry(y)
    BY <1>3 DEF EntriesOf
  <2>2. e.addr = y /\ y \in DOMAIN v.meta /\ ~v.meta[y].alloc
    BY <2>1 DEF OrphanEntry, Gone
  <2>3. Enters(v, e) => e.addr \in Dirs(v) \ {Root, OrphanDir} /\ Leads(v, d, e.addr)
    BY <1>2, <1>3, <2>1, <2>2 DEF Enters, Dirs, Leads
  <2>4. e.addr # OrphanDir
    BY <1>2, <2>2
  <2> HIDE DEF e
  <2>5. \E x \in Gone(v) : e = OrphanEntry(x)
    BY <2>1
  <2> QED
    BY <1>1, <1>3, <2>3, <2>4, <2>5 DEF e
<1>4. CASE d # OrphanDir
  <2> DEFINE n == Len(v.names[d])
  <2>1. /\ n \in Nat /\ Len(f.names) = IF d = Root THEN n + 1 ELSE n
        /\ \A k \in 1 .. n : f.names[k] = v.names[d][k] /\ f.names[k] \in NamesIn(v, d)
        /\ d = Root => f.names[n + 1] = OrphanName
    BY <1>4, EntriesAre
  <2> HIDE DEF n
  <2>2. CASE j \in 1 .. n
    <3>1. e \in NamesIn(v, d)
      BY <2>1, <2>2
    <3>2. d \in DOMAIN v.names
      BY <1>4 DEF EntriesOf
    <3>3. e.addr # OrphanDir /\ (Enters(v, e) => e.addr # Root)
      BY <3>1, <3>2 DEF NoWayBack
    <3>4. Enters(v, e) => e.addr \in Dirs(v) /\ Leads(v, d, e.addr)
      BY <1>4, <3>1, <3>3 DEF Enters, Dirs, Leads
    <3> HIDE DEF e
    <3> QED
      BY <1>1, <1>4, <3>1, <3>3, <3>4 DEF e
  <2>3. CASE j \notin 1 .. n
    <3>1. d = Root /\ j = n + 1 /\ j = Len(f.names)
      BY <2>1, <2>3
    <3>2. e = OrphanName
      BY <2>1, <3>1
    <3>3. e.addr = OrphanDir /\ ~Enters(v, e)
      BY <1>2, <3>2 DEF OrphanName, Enters
    <3> HIDE DEF e
    <3> QED
      BY <1>1, <1>4, <3>1, <3>2, <3>3 DEF e
  <2> QED
    BY <2>2, <2>3
<1> QED
  BY <1>3, <1>4

-----------------------------------------------------------------------------
(* Where a walk is: the directories of its path are named by those before  *)
(* them, and it is in none twice.                                          *)
DirAt(a, seen, k) == IF k = 1 THEN a ELSE seen[k - 1]

Current(f) == f.names[f.i]

Shape(v, a, flags, path, seen) ==
  /\ Len(seen) <= Len(path) /\ Len(path) <= Len(seen) + 1
  /\ \A k \in 1 .. Len(path) : EntriesOf(v, DirAt(a, seen, k), path[k])
  /\ \A k \in 1 .. Len(seen) :
       /\ path[k].i \in 1 .. Len(path[k].names)
       /\ seen[k] = Current(path[k]).addr
       /\ Goes(v, flags, Current(path[k]))
  /\ \A j, k \in 1 .. Len(seen) : seen[j] = seen[k] => j = k

LEMMA SeenLeads ==
  ASSUME NEW v \in Volumes, NoWayBack(v), NEW a, NEW flags, NEW path \in Seq(FrameRec),
         NEW seen \in Seq(Nat), Shape(v, a, flags, path, seen), NEW k \in 1 .. Len(path),
         path[k].i \in 1 .. Len(path[k].names), Goes(v, flags, Current(path[k]))
  PROVE  LET e == Current(path[k]) d == DirAt(a, seen, k)
         IN  /\ e \in NameRec /\ e.addr \in Dirs(v) /\ e.addr # Root
             /\ e.addr = OrphanDir =>
                  d = Root /\ path[k].i = Len(path[k].names) /\ ~flags.noorphan
             /\ e.addr # OrphanDir => Leads(v, d, e.addr) /\ Enters(v, e)
<1> DEFINE e == Current(path[k])
           d == DirAt(a, seen, k)
<1>1. path[k] \in FrameRec
  BY ElementOfSeq
<1>2. EntriesOf(v, d, path[k])
  BY DEF Shape
<1> DEFINE f == path[k]
           j == f.i
<1>3. e = f.names[j]
  BY DEF Current
<1> HIDE DEF f, j, d, e
<1>4. f \in FrameRec /\ EntriesOf(v, d, f) /\ j \in 1 .. Len(f.names)
  BY <1>1, <1>2 DEF f, j
<1>5. /\ e \in NameRec /\ e.addr \in Nat
      /\ e.addr = OrphanDir => d = Root /\ j = Len(f.names)
      /\ Enters(v, e) => e.addr \in Dirs(v) \ {Root, OrphanDir} /\ Leads(v, d, e.addr)
  BY <1>3, <1>4, NameLeads, SMTT(30)
<1>6. Goes(v, flags, e)
  BY DEF e
<1>7. e.addr = OrphanDir => ~flags.noorphan /\ e.addr \in Dirs(v) /\ e.addr # Root
  BY <1>6, VolumeIs DEF Goes, Dirs
<1>8. e.addr # OrphanDir => Enters(v, e)
  BY <1>6 DEF Goes
<1> QED
  BY <1>5, <1>7, <1>8 DEF e, d, f, j

(* $OrphanFiles is only below the root. *)
LEMMA SeenIs ==
  ASSUME NEW v \in Volumes, NoWayBack(v), NEW a, NEW flags, NEW path \in Seq(FrameRec),
         NEW seen \in Seq(Nat), Shape(v, a, flags, path, seen), NEW k \in 1 .. Len(seen)
  PROVE  /\ k \in 1 .. Len(path) /\ Current(path[k]) \in NameRec
         /\ seen[k] = Current(path[k]).addr /\ path[k].i \in 1 .. Len(path[k].names)
         /\ seen[k] \in Dirs(v) /\ seen[k] # Root
         /\ seen[k] = OrphanDir =>
              k = 1 /\ a = Root /\ path[1].i = Len(path[1].names) /\ ~flags.noorphan
         /\ seen[k] # OrphanDir =>
              Leads(v, DirAt(a, seen, k), seen[k]) /\ Enters(v, Current(path[k]))
<1>1. \A m \in 1 .. Len(seen) :
        /\ m \in 1 .. Len(path) /\ path[m].i \in 1 .. Len(path[m].names)
        /\ seen[m] = Current(path[m]).addr /\ Goes(v, flags, Current(path[m]))
  <2>1. Len(seen) \in Nat /\ Len(path) \in Nat /\ Len(seen) <= Len(path)
    BY LenProperties DEF Shape
  <2> QED
    BY <2>1 DEF Shape
<1>2. \A m \in 1 .. Len(seen) :
        /\ seen[m] \in Dirs(v) /\ seen[m] # Root /\ Current(path[m]) \in NameRec
        /\ seen[m] = OrphanDir => DirAt(a, seen, m) = Root
             /\ path[m].i = Len(path[m].names) /\ ~flags.noorphan
        /\ seen[m] # OrphanDir =>
             Leads(v, DirAt(a, seen, m), seen[m]) /\ Enters(v, Current(path[m]))
  <2> TAKE m \in 1 .. Len(seen)
  <2> DEFINE e == Current(path[m])
             d == DirAt(a, seen, m)
  <2>1. /\ e \in NameRec /\ e.addr \in Dirs(v) /\ e.addr # Root
        /\ e.addr = OrphanDir => d = Root /\ path[m].i = Len(path[m].names) /\ ~flags.noorphan
        /\ e.addr # OrphanDir => Leads(v, d, e.addr) /\ Enters(v, e)
    BY <1>1, SeenLeads
  <2>2. seen[m] = e.addr
    BY <1>1
  <2> HIDE DEF e, d
  <2> QED
    BY <2>1, <2>2 DEF e, d
<1>3. ASSUME seen[k] = OrphanDir, k # 1 PROVE FALSE
  <2>1. k - 1 \in 1 .. Len(seen) /\ DirAt(a, seen, k) = seen[k - 1]
    <3>1. Len(seen) \in Nat
      BY LenProperties
    <3> QED
      BY <3>1, <1>3 DEF DirAt
  <2> QED
    BY <1>2, <1>3, <2>1
<1>4. seen[k] = OrphanDir =>
        k = 1 /\ a = Root /\ path[1].i = Len(path[1].names) /\ ~flags.noorphan
  BY <1>2, <1>3 DEF DirAt
<1> QED
  BY <1>1, <1>2, <1>4

(* So no walk comes to the limit of its depth. *)
LEMMA DeepEnough ==
  ASSUME NEW v \in Volumes, Walkable(v), NEW a, NEW flags, NEW path \in Seq(FrameRec),
         NEW seen \in Seq(Nat), Shape(v, a, flags, path, seen), Len(path) = Len(seen) + 1,
         path[Len(path)].i \in 1 .. Len(path[Len(path)].names),
         Goes(v, flags, Current(path[Len(path)])),
         Current(path[Len(path)]).addr \notin Range(seen)
  PROVE  Len(seen) < MaxDepth
<1> DEFINE e == Current(path[Len(path)])
           M == MaxDepth
           p == [k \in 1 .. M + 1 |-> IF k <= Len(seen) THEN seen[k] ELSE e.addr]
<1>1. Len(seen) \in Nat /\ Len(path) \in 1 .. Len(path) /\ DOMAIN seen = 1 .. Len(seen)
  BY LenProperties
<1>2. M \in Nat \ {0}
  BY DirAssumption
<1>3. NoWayBack(v) /\ NotTooDeep(v)
  BY DEF Walkable
<1>4. /\ e.addr \in Dirs(v)
      /\ e.addr = OrphanDir => DirAt(a, seen, Len(path)) = Root
      /\ e.addr # OrphanDir => Leads(v, DirAt(a, seen, Len(path)), e.addr)
  BY <1>1, <1>3, SeenLeads, ZenonT(60)
<1>5. \A k \in 1 .. Len(seen) :
        /\ seen[k] \in Dirs(v) /\ seen[k] # Root /\ seen[k] # e.addr
        /\ seen[k] = OrphanDir => k = 1
        /\ seen[k] # OrphanDir => Leads(v, DirAt(a, seen, k), seen[k])
  <2> TAKE k \in 1 .. Len(seen)
  <2>1. seen[k] # e.addr
    BY <1>1 DEF Range
  <2> QED
    BY <1>3, <2>1, SeenIs
<1> HIDE DEF e
<1> SUFFICES ASSUME M <= Len(seen) PROVE FALSE
  BY <1>1, <1>2
<1>6. p \in [1 .. M + 1 -> Dirs(v)]
  BY <1>1, <1>2, <1>4, <1>5
<1>7. \A i, j \in 1 .. M + 1 : p[i] = p[j] => i = j
  <2> TAKE i, j \in 1 .. M + 1
  <2>1. \A x, y \in 1 .. Len(seen) : seen[x] = seen[y] => x = y
    BY DEF Shape
  <2>2. \A k \in 1 .. M + 1 :
          \/ k \in 1 .. Len(seen) /\ p[k] = seen[k]
          \/ k = M + 1 /\ k \notin 1 .. Len(seen) /\ p[k] = e.addr
    BY <1>1, <1>2
  <2> HIDE DEF p, M
  <2> QED
    BY <1>5, <2>1, <2>2
<1>8. ASSUME NEW i \in 1 .. M PROVE Leads(v, p[i], p[i + 1])
  <2>4. i \in 1 .. Len(seen) /\ i + 1 # 1 /\ (i + 1) - 1 = i /\ i \in 1 .. M + 1
    BY <1>1, <1>2
  <2>1. /\ i \in 1 .. Len(seen) /\ i + 1 # 1
        /\ p[i] = seen[i] /\ DirAt(a, seen, i + 1) = seen[i] /\ seen[i] # Root
    BY <1>5, <2>4 DEF DirAt
  <2>2. CASE i + 1 <= Len(seen)
    <3>1. i + 1 \in 1 .. Len(seen) /\ p[i + 1] = seen[i + 1]
      BY <1>1, <1>2, <2>2
    <3>2. seen[i + 1] # OrphanDir
      BY <1>5, <2>1, <3>1
    <3>3. Leads(v, DirAt(a, seen, i + 1), seen[i + 1])
      BY <1>5, <3>1, <3>2
    <3> QED
      BY <2>1, <3>1, <3>3
  <2>3. CASE ~(i + 1 <= Len(seen))
    <3>1. p[i + 1] = e.addr /\ Len(path) = i + 1
      BY <1>1, <1>2, <2>1, <2>3
    <3>2. e.addr # OrphanDir
      BY <1>4, <2>1, <3>1
    <3>3. Leads(v, DirAt(a, seen, i + 1), e.addr)
      BY <1>4, <3>1, <3>2
    <3> QED
      BY <2>1, <3>1, <3>3
  <2> QED
    BY <2>2, <2>3
<1> HIDE DEF p, M
<1>9. \E i \in 1 .. M : ~Leads(v, p[i], p[i + 1])
  BY <1>3, <1>6, <1>7 DEF NotTooDeep, M
<1> QED
  BY <1>8, <1>9

-----------------------------------------------------------------------------
(* What a walk has done.  In the directories of its path the names before  *)
(* the current one are cleared; the current ones, whose directories it is  *)
(* in, are noted themselves.                                               *)
Before(seen, k) == {seen[m] : m \in 1 .. k - 1}

Done(v, path, seen, X) ==
  \A k \in 1 .. Len(path) :
    /\ \A j \in 1 .. path[k].i - 1 : Cleared(v, path[k].names[j], Before(seen, k), X)
    /\ k <= Len(seen) => Current(path[k]) \in X

Carries(v, path, seen, q, s) == \A X : Done(v, path, seen, X) => Done(v, q, s, X)

\* What is below the current name is in X.
NameCleared(v, path, seen, X) ==
  LET e == Current(path[Len(path)])
  IN  Enters(v, e) => Beneath(v, e.addr, Before(seen, Len(path))) \subseteq X

CarriesBack(v, path, seen, q, s) ==
  \A X : Done(v, path, seen, X) /\ NameCleared(v, path, seen, X) => Done(v, q, s, X)

Alike(p, q) ==
  Len(q) = Len(p) /\ \A k \in 1 .. Len(p) : q[k].names = p[k].names /\ q[k].i = p[k].i

Stepped(p) ==
  [p EXCEPT ![Len(p)] = [names |-> p[Len(p)].names, i |-> p[Len(p)].i + 1, bak |-> p[Len(p)].bak]]

LEMMA EntriesAlike ==
  ASSUME NEW v, NEW d, NEW f, NEW g, f.names = g.names, EntriesOf(v, d, f)
  PROVE  EntriesOf(v, d, g)
  BY Zenon DEF EntriesOf

LEMMA ClearedGrows ==
  ASSUME NEW v, NEW e, NEW T, NEW X, NEW Y, X \subseteq Y, Cleared(v, e, T, X)
  PROVE  Cleared(v, e, T, Y)
  BY DEF Cleared

LEMMA SteppedIs ==
  ASSUME NEW p \in Seq(FrameRec), p # <<>>
  PROVE  /\ Stepped(p) \in Seq(FrameRec) /\ Len(Stepped(p)) = Len(p) /\ Stepped(p) # <<>>
         /\ \A k \in 1 .. Len(p) :
              /\ Stepped(p)[k].names = p[k].names /\ Stepped(p)[k].bak = p[k].bak
              /\ Stepped(p)[k].i = IF k = Len(p) THEN p[k].i + 1 ELSE p[k].i
<1>1. Len(p) \in Nat \ {0} /\ Last(p) \in FrameRec /\ Last(p) = p[Len(p)]
  BY FrontIs
<1> DEFINE n == Len(p)
           f == [names |-> p[n].names, i |-> p[n].i + 1, bak |-> p[n].bak]
<1>2. f \in FrameRec
  BY <1>1 DEF FrameRec
<1>3. /\ [p EXCEPT ![n] = f] \in Seq(FrameRec) /\ Len([p EXCEPT ![n] = f]) = n
      /\ \A j \in 1 .. n : [p EXCEPT ![n] = f][j] = IF j = n THEN f ELSE p[j]
  BY <1>1, <1>2, ExceptSeq
<1>4. Stepped(p) = [p EXCEPT ![n] = f]
  BY DEF Stepped
<1>5. f.names = p[n].names /\ f.i = p[n].i + 1 /\ f.bak = p[n].bak
  OBVIOUS
<1> HIDE DEF f, n
<1> QED
  BY <1>1, <1>3, <1>4, <1>5, EmptySeq, ZenonT(30) DEF n

LEMMA StepOk ==
  ASSUME NEW v, NEW a, NEW flags, NEW path \in Seq(FrameRec), NEW seen \in Seq(Nat),
         Shape(v, a, flags, path, seen), Len(path) = Len(seen) + 1
  PROVE  /\ Shape(v, a, flags, Stepped(path), seen)
         /\ \A X, Y : /\ Done(v, path, seen, X) /\ X \subseteq Y
                      /\ Cleared(v, Current(path[Len(path)]), Before(seen, Len(path)), Y)
                     => Done(v, Stepped(path), seen, Y)
<1> DEFINE q == Stepped(path)
           n == Len(path)
<1>1. Len(seen) \in Nat /\ n \in Nat \ {0} /\ path # <<>> /\ Last(path) \in FrameRec
      /\ Last(path) = path[n]
  BY LenProperties, EmptySeq, FrontIs
<1>2. /\ q \in Seq(FrameRec) /\ Len(q) = n
      /\ \A k \in 1 .. n : /\ q[k].names = path[k].names
                           /\ q[k].i = IF k = n THEN path[k].i + 1 ELSE path[k].i
  BY <1>1, SteppedIs
<1> HIDE DEF q
<1>3. Shape(v, a, flags, q, seen)
  <2>1. \A k \in 1 .. n : EntriesOf(v, DirAt(a, seen, k), q[k])
    BY <1>2, EntriesAlike DEF Shape
  <2>2. \A k \in 1 .. Len(seen) : k \in 1 .. n /\ k # n
    BY <1>1
  <2>3. \A k \in 1 .. Len(seen) : q[k].names = path[k].names /\ q[k].i = path[k].i
    BY <1>2, <2>2
  <2> QED
    BY <1>2, <2>1, <2>3 DEF Shape, Current
<1>4. ASSUME NEW X, NEW Y, Done(v, path, seen, X), X \subseteq Y,
             Cleared(v, Current(path[Len(path)]), Before(seen, Len(path)), Y)
      PROVE  Done(v, q, seen, Y)
  <2> SUFFICES ASSUME NEW k \in 1 .. n
               PROVE  /\ \A j \in 1 .. q[k].i - 1 :
                            Cleared(v, q[k].names[j], Before(seen, k), Y)
                      /\ k <= Len(seen) => Current(q[k]) \in Y
    BY <1>2 DEF Done
  <2>1. \A j \in 1 .. path[k].i - 1 : Cleared(v, path[k].names[j], Before(seen, k), Y)
    BY <1>4, ClearedGrows DEF Done
  <2>2. CASE k = n
    <3>1. path[n].i \in Nat
      BY <1>1 DEF FrameRec
    <3>2. \A j \in 1 .. q[k].i - 1 : j \in 1 .. path[k].i - 1 \/ j = path[n].i
      BY <1>2, <2>2, <3>1
    <3>3. \A j \in 1 .. q[k].i - 1 : Cleared(v, q[k].names[j], Before(seen, k), Y)
      BY <1>2, <1>4, <2>1, <2>2, <3>2 DEF Current
    <3> QED
      BY <1>1, <2>2, <3>3
  <2>3. CASE k # n
    <3>1. q[k].names = path[k].names /\ q[k].i = path[k].i
      BY <1>2, <2>3
    <3>2. k <= Len(seen) => Current(path[k]) \in Y
      BY <1>4 DEF Done
    <3> QED
      BY <2>1, <3>1, <3>2 DEF Current
  <2> QED
    BY <2>2, <2>3
<1>5. \A X, Y : /\ Done(v, path, seen, X) /\ X \subseteq Y
                /\ Cleared(v, Current(path[Len(path)]), Before(seen, Len(path)), Y)
               => Done(v, q, seen, Y)
  BY <1>4
<1> QED
  BY <1>3, <1>5 DEF q

LEMMA EnterOk ==
  ASSUME NEW v, NEW a, NEW flags, NEW path \in Seq(FrameRec), NEW seen \in Seq(Nat),
         Shape(v, a, flags, path, seen), Len(path) = Len(seen) + 1,
         NEW q \in Seq(FrameRec), Alike(path, q),
         path[Len(path)].i \in 1 .. Len(path[Len(path)].names),
         Goes(v, flags, Current(path[Len(path)])), Current(path[Len(path)]).addr \in Nat,
         Current(path[Len(path)]).addr \notin Range(seen)
  PROVE  LET e == Current(path[Len(path)])
             s == Append(seen, e.addr)
         IN  /\ s \in Seq(Nat) /\ Len(s) = Len(q)
             /\ Shape(v, a, flags, q, s)
             /\ DirAt(a, s, Len(q) + 1) = e.addr
             /\ \A X, Y : Done(v, path, seen, X) /\ X \subseteq Y /\ e \in Y => Done(v, q, s, Y)
<1> DEFINE e == Current(path[Len(path)])
           s == Append(seen, e.addr)
           n == Len(path)
<1>1. Len(seen) \in Nat /\ n \in Nat \ {0} /\ DOMAIN seen = 1 .. Len(seen)
  BY LenProperties
<1>8. /\ s \in Seq(Nat) /\ Len(s) = Len(seen) + 1 /\ s[Len(seen) + 1] = e.addr
      /\ \A k \in 1 .. Len(seen) : s[k] = seen[k]
  BY AppendProperties
<1>9. \A k \in 1 .. Len(seen) : seen[k] # e.addr
  BY <1>1 DEF Range
<1>2. /\ s \in Seq(Nat) /\ Len(s) = n /\ s[n] = e.addr
      /\ \A k \in 1 .. Len(seen) : s[k] = seen[k] /\ s[k] # e.addr
  BY <1>8, <1>9
<1>3. Len(q) = n /\ \A k \in 1 .. n : q[k].names = path[k].names /\ q[k].i = path[k].i
  BY DEF Alike
<1> HIDE DEF s
<1>4. \A k \in 1 .. n : DirAt(a, s, k) = DirAt(a, seen, k) /\ Before(s, k) = Before(seen, k)
  <2> TAKE k \in 1 .. n
  <2>1. \A m \in 1 .. Len(seen) : s[m] = seen[m]
    BY <1>2
  <2>2. n = Len(seen) + 1 /\ k \in Nat
    BY <1>1
  <2> HIDE DEF n, e
  <2>3. \A m \in 1 .. k - 1 : m \in 1 .. Len(seen)
    BY <1>1, <2>2
  <2>4. \A m \in 1 .. k - 1 : s[m] = seen[m]
    BY <2>1, <2>3
  <2>5. Before(s, k) = Before(seen, k)
    BY <2>4 DEF Before
  <2>6. k # 1 => k - 1 \in 1 .. Len(seen)
    BY <1>1, <2>2
  <2>7. k # 1 => s[k - 1] = seen[k - 1]
    BY <2>1, <2>6
  <2> QED
    BY <2>5, <2>7 DEF DirAt
<1>5. Shape(v, a, flags, q, s)
  <2>1. \A k \in 1 .. n : EntriesOf(v, DirAt(a, s, k), q[k])
    BY <1>3, <1>4, EntriesAlike DEF Shape
  <2>2. ASSUME NEW k \in 1 .. n
        PROVE  /\ q[k].i \in 1 .. Len(q[k].names) /\ s[k] = Current(q[k]).addr
               /\ Goes(v, flags, Current(q[k]))
    <3>1. Current(q[k]) = Current(path[k])
      BY <1>3 DEF Current
    <3>2. CASE k = n
      BY <1>2, <1>3, <3>1, <3>2
    <3>3. CASE k # n
      <4>1. k \in 1 .. Len(seen)
        BY <1>1, <3>3
      <4> QED
        BY <1>2, <1>3, <3>1, <4>1 DEF Shape
    <3> QED
      BY <3>2, <3>3
  <2>3. ASSUME NEW j \in 1 .. n, NEW k \in 1 .. n, s[j] = s[k] PROVE j = k
    <3>1. \A x \in 1 .. n : x = n \/ x \in 1 .. Len(seen)
      BY <1>1
    <3>2. \A x, y \in 1 .. Len(seen) : seen[x] = seen[y] => x = y
      BY DEF Shape
    <3> QED
      BY <1>2, <2>3, <3>1, <3>2
  <2>4. Len(s) <= Len(q) /\ Len(q) <= Len(s) + 1
    BY <1>1, <1>2, <1>3
  <2> QED
    BY <1>2, <1>3, <2>1, <2>2, <2>3, <2>4 DEF Shape
<1>6. ASSUME NEW X, NEW Y, Done(v, path, seen, X), X \subseteq Y, e \in Y
      PROVE  Done(v, q, s, Y)
  <2> SUFFICES ASSUME NEW k \in 1 .. n
               PROVE  /\ \A j \in 1 .. q[k].i - 1 : Cleared(v, q[k].names[j], Before(s, k), Y)
                      /\ k <= Len(s) => Current(q[k]) \in Y
    BY <1>3 DEF Done
  <2>1. \A j \in 1 .. path[k].i - 1 : Cleared(v, path[k].names[j], Before(seen, k), Y)
    BY <1>6, ClearedGrows DEF Done
  <2>2. Current(q[k]) = Current(path[k])
    BY <1>3 DEF Current
  <2>3. Current(path[k]) \in Y
    <3>1. CASE k = n
      BY <1>6, <3>1
    <3>2. CASE k # n
      <4>1. k <= Len(seen)
        BY <1>1, <3>2
      <4> QED
        BY <1>6, <4>1 DEF Done
    <3> QED
      BY <3>1, <3>2
  <2>4. q[k].i = path[k].i /\ q[k].names = path[k].names /\ Before(s, k) = Before(seen, k)
    BY <1>3, <1>4
  <2> QED
    BY <2>1, <2>2, <2>3, <2>4
<1>7. DirAt(a, s, Len(q) + 1) = e.addr
  BY <1>1, <1>2, <1>3 DEF DirAt
<1>10. \A X, Y : Done(v, path, seen, X) /\ X \subseteq Y /\ e \in Y => Done(v, q, s, Y)
  BY <1>6
<1> QED
  BY <1>2, <1>3, <1>5, <1>7, <1>10 DEF s

LEMMA OpenOk ==
  ASSUME NEW v, NEW a, NEW flags, NEW path \in Seq(FrameRec), NEW seen \in Seq(Nat),
         Shape(v, a, flags, path, seen), Len(path) = Len(seen),
         NEW f \in FrameRec, f.i = 1, EntriesOf(v, DirAt(a, seen, Len(path) + 1), f)
  PROVE  LET q == Append(path, f)
         IN  /\ q \in Seq(FrameRec) /\ Len(q) = Len(seen) + 1
             /\ Shape(v, a, flags, q, seen) /\ Carries(v, path, seen, q, seen)
<1> DEFINE q == Append(path, f)
           n == Len(path)
<1>1. n \in Nat /\ Len(seen) = n
  BY LenProperties
<1>2. q \in Seq(FrameRec) /\ Len(q) = n + 1 /\ q[n + 1] = f /\ \A k \in 1 .. n : q[k] = path[k]
  BY AppendProperties
<1> HIDE DEF q
<1>3. \A k \in 1 .. n + 1 : k \in 1 .. n \/ k = n + 1
  BY <1>1
<1>4. Shape(v, a, flags, q, seen)
  <2>1. \A k \in 1 .. n + 1 : EntriesOf(v, DirAt(a, seen, k), q[k])
    BY <1>2, <1>3 DEF Shape
  <2>2. Len(seen) <= Len(q) /\ Len(q) <= Len(seen) + 1
    BY <1>1, <1>2
  <2> QED
    BY <1>1, <1>2, <2>1, <2>2 DEF Shape
<1>5. ASSUME NEW X, Done(v, path, seen, X) PROVE Done(v, q, seen, X)
  <2> SUFFICES ASSUME NEW k \in 1 .. n + 1
               PROVE  /\ \A j \in 1 .. q[k].i - 1 : Cleared(v, q[k].names[j], Before(seen, k), X)
                      /\ k <= Len(seen) => Current(q[k]) \in X
    BY <1>2 DEF Done
  <2>1. CASE k = n + 1
    BY <1>1, <1>2, <2>1
  <2>2. CASE k \in 1 .. n
    BY <1>2, <1>5, <2>2 DEF Done
  <2> QED
    BY <1>3, <2>1, <2>2
<1> QED
  BY <1>1, <1>2, <1>4, <1>5 DEF q, Carries

LEMMA DropOk ==
  ASSUME NEW v, NEW a, NEW flags, NEW path \in Seq(FrameRec), NEW seen \in Seq(Nat),
         Shape(v, a, flags, path, seen), Len(path) = Len(seen) + 1
  PROVE  LET q == Front(path)
         IN  /\ q \in Seq(FrameRec) /\ Len(q) = Len(seen)
             /\ Shape(v, a, flags, q, seen) /\ Carries(v, path, seen, q, seen)
<1> DEFINE q == Front(path)
           n == Len(seen)
<1>1. n \in Nat /\ Len(path) = n + 1 /\ path # <<>>
  BY LenProperties, EmptySeq
<1>2. q \in Seq(FrameRec) /\ Len(q) = n /\ \A k \in 1 .. n : q[k] = path[k]
  <2>1. /\ q \in Seq(FrameRec) /\ Len(q) = Len(path) - 1
        /\ \A k \in 1 .. Len(path) - 1 : q[k] = path[k]
    BY <1>1, FrontIs
  <2>2. Len(path) - 1 = n
    BY <1>1
  <2> QED
    BY <2>1, <2>2
<1> HIDE DEF q
<1>3. \A k \in 1 .. n : k \in 1 .. Len(path)
  BY <1>1
<1>4. Shape(v, a, flags, q, seen)
  <2>1. Len(seen) <= Len(q) /\ Len(q) <= Len(seen) + 1
    BY <1>1, <1>2
  <2> QED
    BY <1>2, <1>3, <2>1 DEF Shape
<1>5. \A X : Done(v, path, seen, X) => Done(v, q, seen, X)
  BY <1>2, <1>3 DEF Done
<1> QED
  BY <1>2, <1>4, <1>5 DEF q, Carries

LEMMA BackOk ==
  ASSUME NEW v, NEW a, NEW flags, NEW path \in Seq(FrameRec), NEW seen \in Seq(Nat),
         Shape(v, a, flags, path, seen), Len(path) = Len(seen), path # <<>>
  PROVE  LET q == Stepped(path) s == Front(seen)
         IN  /\ q \in Seq(FrameRec) /\ Len(q) = Len(s) + 1 /\ s \in Seq(Nat)
             /\ Shape(v, a, flags, q, s) /\ CarriesBack(v, path, seen, q, s)
<1> DEFINE s == Front(seen)
           q == Stepped(path)
           n == Len(path)
           e == Current(path[n])
<1>1. n \in Nat \ {0} /\ seen # <<>>
  BY EmptySeq
<1>2. s \in Seq(Nat) /\ Len(s) = n - 1 /\ \A k \in 1 .. n - 1 : s[k] = seen[k]
  BY <1>1, FrontIs
<1> HIDE DEF s
<1>3. \A k \in 1 .. n : DirAt(a, s, k) = DirAt(a, seen, k) /\ Before(s, k) = Before(seen, k)
  <2> TAKE k \in 1 .. n
  <2>1. \A m \in 1 .. k - 1 : s[m] = seen[m]
    BY <1>1, <1>2
  <2>2. Before(s, k) = Before(seen, k)
    BY <2>1 DEF Before
  <2>3. k # 1 => s[k - 1] = seen[k - 1]
    BY <1>1, <1>2
  <2> QED
    BY <2>2, <2>3 DEF DirAt
<1>4. \A k \in 1 .. n - 1 : k \in 1 .. n
  BY <1>1
<1>5. Shape(v, a, flags, path, s)
  <2>1. \A k \in 1 .. n : EntriesOf(v, DirAt(a, s, k), path[k])
    BY <1>3 DEF Shape
  <2>2. Len(s) <= n /\ n <= Len(s) + 1
    BY <1>1, <1>2
  <2> QED
    BY <1>2, <1>4, <2>1, <2>2 DEF Shape
<1>6. ASSUME NEW X, Done(v, path, seen, X) PROVE Done(v, path, s, X) /\ e \in X
  <2>1. Done(v, path, s, X)
    BY <1>1, <1>2, <1>3, <1>6 DEF Done
  <2>2. e \in X
    BY <1>1, <1>6 DEF Done
  <2> QED
    BY <2>1, <2>2
<1>7. Len(path) = Len(s) + 1
  BY <1>1, <1>2
<1>8. q \in Seq(FrameRec) /\ Len(q) = Len(path)
  BY SteppedIs
<1>9. /\ Shape(v, a, flags, q, s)
      /\ \A X, Y : /\ Done(v, path, s, X) /\ X \subseteq Y
                   /\ Cleared(v, e, Before(s, n), Y)
                  => Done(v, q, s, Y)
  BY <1>2, <1>5, <1>7, StepOk
<1>10. ASSUME NEW X, Done(v, path, seen, X),
              Enters(v, e) => Beneath(v, e.addr, Before(seen, n)) \subseteq X
       PROVE  Done(v, q, s, X)
  <2>1. Cleared(v, e, Before(s, n), X)
    BY <1>1, <1>3, <1>6, <1>10 DEF Cleared
  <2> HIDE DEF q, e
  <2> QED
    BY <1>6, <1>9, <1>10, <2>1
<1>11. CarriesBack(v, path, seen, q, s)
  BY <1>10 DEF CarriesBack, NameCleared
<1> QED
  BY <1>2, <1>7, <1>8, <1>9, <1>11 DEF s

(* A directory whose names are all done is done itself, with everything     *)
(* below it that the walk is not in already.                               *)
LEMMA DirDone ==
  ASSUME NEW v \in Volumes, NEW a, NEW flags, NEW path \in Seq(FrameRec), NEW seen \in Seq(Nat),
         Shape(v, a, flags, path, seen), Len(path) = Len(seen) + 1,
         path[Len(path)].i > Len(path[Len(path)].names),
         DirAt(a, seen, Len(path)) \in DOMAIN v.meta,
         NEW X, Done(v, path, seen, X)
  PROVE  Beneath(v, DirAt(a, seen, Len(path)), Before(seen, Len(seen))) \subseteq X
<1> DEFINE n == Len(path)
           d == DirAt(a, seen, n)
           f == path[n]
<1>1. Len(seen) \in Nat /\ n \in Nat \ {0} /\ f \in FrameRec /\ n \in 1 .. Len(path)
  BY LenProperties, EmptySeq, ElementOfSeq
<1>2. d # OrphanDir /\ EntriesOf(v, d, f)
  BY <1>1, VolumeIs DEF Shape
<1>3. \A j \in 1 .. f.i - 1 : Cleared(v, f.names[j], Before(seen, n), X)
  BY <1>1 DEF Done
<1> HIDE DEF f
<1>4. \A e \in NamesIn(v, d) : \E j \in 1 .. Len(v.names[d]) : e = f.names[j]
  BY <1>2, EntriesAre
<1>5. Len(v.names[d]) \in Nat /\ Len(f.names) >= Len(v.names[d])
  <2>1. /\ Len(v.names[d]) \in Nat
        /\ Len(f.names) = IF d = Root THEN Len(v.names[d]) + 1 ELSE Len(v.names[d])
    BY <1>2, EntriesAre
  <2> QED
    BY <2>1
<1>6. f.i \in Nat /\ Len(f.names) \in Nat /\ f.i > Len(f.names)
  <2>1. f.i \in Nat /\ f.names \in Seq(NameRec)
    BY <1>1 DEF FrameRec
  <2> QED
    BY <2>1, LenProperties DEF f
<1>7. \A j \in 1 .. Len(v.names[d]) : j \in 1 .. f.i - 1
  BY <1>5, <1>6
<1>8. \A e \in NamesIn(v, d) : Cleared(v, e, Before(seen, n), X)
  <2> TAKE e \in NamesIn(v, d)
  <2>1. PICK j \in 1 .. Len(v.names[d]) : e = f.names[j]
    BY <1>4
  <2>2. Cleared(v, f.names[j], Before(seen, n), X)
    BY <1>3, <1>7
  <2> QED
    BY <2>1, <2>2
<1>9. Before(seen, n - 1) \subseteq Before(seen, n)
  <2>1. \A m \in 1 .. (n - 1) - 1 : m \in 1 .. n - 1
    BY <1>1
  <2> QED
    BY <2>1 DEF Before
<1>10. Before(seen, n) \subseteq Before(seen, n - 1) \cup {d}
  <2> SUFFICES ASSUME NEW m \in 1 .. n - 1 PROVE m \in 1 .. (n - 1) - 1 \/ seen[m] = d
    BY DEF Before
  <2>1. m = n - 1 => seen[m] = d
    BY <1>1 DEF DirAt
  <2> QED
    BY <1>1, <2>1
<1>11. Beneath(v, d, Before(seen, n - 1)) \subseteq X
  BY <1>8, <1>9, <1>10, CoverStep
<1>12. n - 1 = Len(seen)
  BY <1>1
<1> QED
  BY <1>11, <1>12

-----------------------------------------------------------------------------
(* What the steps of a walk do to its record.                              *)
Kept(w, r) ==
  /\ r.fn = w.fn /\ r.cb = w.cb /\ r.flags = w.flags
  /\ r.shown = w.shown /\ r.asked = w.asked /\ r.got = w.got

LEMMA AdvanceIs ==
  ASSUME NEW w \in WalkRec, w.path # <<>>
  PROVE  LET r == Advance(w)
         IN  /\ r \in WalkRec /\ Kept(w, r) /\ r.path = Stepped(w.path)
             /\ r.pc = w.pc /\ r.target = w.target /\ r.saving = w.saving /\ r.list = w.list
             /\ r.seen = w.seen /\ r.ret = w.ret
<1> DEFINE n == Len(w.path)
           q == [w.path EXCEPT ![n] = [w.path[n] EXCEPT !.i = w.path[n].i + 1]]
           r == [w EXCEPT !.path = q]
<1>1. w.path \in Seq(FrameRec)
  BY DEF WalkRec
<1>2. Advance(w) = r
  BY DEF Advance
<1>3. n \in 1 .. Len(w.path) /\ w.path[n] \in FrameRec
  BY <1>1, FrontIs
<1>4. [w.path[n] EXCEPT !.i = w.path[n].i + 1]
        = [names |-> w.path[n].names, i |-> w.path[n].i + 1, bak |-> w.path[n].bak]
  BY <1>3 DEF FrameRec
<1>5. q = Stepped(w.path)
  BY <1>4 DEF Stepped
<1>6. q \in Seq(FrameRec)
  BY <1>1, <1>5, SteppedIs
<1> HIDE DEF q
<1>7. r \in WalkRec
  BY <1>6 DEF WalkRec
<1>8. /\ Kept(w, r) /\ r.path = q
      /\ r.pc = w.pc /\ r.target = w.target /\ r.saving = w.saving /\ r.list = w.list
      /\ r.seen = w.seen /\ r.ret = w.ret
  BY DEF Kept, WalkRec
<1> QED
  BY <1>2, <1>5, <1>7, <1>8

LEMMA LeaveIs ==
  ASSUME NEW w \in WalkRec, NEW path \in Seq(FrameRec), NEW ret \in Rets,
         path # <<>> => w.seen # <<>>
  PROVE  LET r == Leave(w, path, ret)
         IN  /\ r \in WalkRec /\ Kept(w, r) /\ r.list = w.list
             /\ path = <<>> => /\ r.pc = "end" /\ r.ret = ret /\ r.path = <<>>
                               /\ r.saving = w.saving
             /\ path # <<>> =>
                  /\ r.pc = "names" /\ r.path = Stepped(path) /\ r.seen = Front(w.seen)
                  /\ r.saving = IF Current(path[Len(path)]).addr = OrphanDir
                                THEN path[Len(path)].bak ELSE w.saving
<1>1. CASE path = <<>>
  <2> DEFINE r == [w EXCEPT !.pc = "end", !.path = <<>>, !.ret = ret]
  <2>1. Leave(w, path, ret) = r
    BY <1>1 DEF Leave
  <2>2. <<>> \in Seq(FrameRec)
    OBVIOUS
  <2>3. r \in WalkRec /\ Kept(w, r) /\ r.list = w.list
    BY <2>2 DEF WalkRec, Kept
  <2>4. r.pc = "end" /\ r.ret = ret /\ r.path = <<>> /\ r.saving = w.saving
    BY DEF WalkRec
  <2> QED
    BY <1>1, <2>1, <2>3, <2>4
<1>2. CASE path # <<>>
  <2> DEFINE u == [w EXCEPT !.path = path]
             n == Len(path)
             saving == IF Current(path[n]).addr = OrphanDir THEN path[n].bak ELSE w.saving
             back == [w EXCEPT !.path = path, !.pc = "names", !.target = NULL,
                               !.seen = Front(w.seen), !.saving = saving]
  <2>1. n \in 1 .. Len(path) /\ path[n] \in FrameRec /\ Last(path) = path[n]
    <3>1. /\ Len(path) \in Nat \ {0} /\ Last(path) = path[Len(path)]
          /\ Last(path) \in FrameRec
      BY <1>2, FrontIs
    <3> QED
      BY <3>1
  <2>2. w.seen \in Seq(Nat) /\ w.saving \in BOOLEAN /\ w \in WalkRec
    BY DEF WalkRec
  <2>3. Front(w.seen) \in Seq(Nat)
    BY <1>2, <2>2, FrontIs
  <2>4. saving \in BOOLEAN
    BY <2>1, <2>2 DEF FrameRec
  <2>5. u.path = path /\ Here(u).addr = Current(path[n]).addr
    <3>1. u.path = path
      BY DEF WalkRec
    <3> HIDE DEF u
    <3> QED
      BY <2>1, <3>1 DEF Here, Current
  <2>6. Leave(w, path, ret) = Advance(back)
    <3>1. [u EXCEPT !.pc = "names", !.target = NULL, !.seen = Front(@),
                    !.saving = IF Here(u).addr = OrphanDir THEN Last(path).bak ELSE @] = back
      <4>1. u \in WalkRec /\ u.seen = w.seen /\ u.saving = w.saving
        BY DEF WalkRec
      <4>2. (IF Here(u).addr = OrphanDir THEN Last(path).bak ELSE u.saving) = saving
        BY <2>1, <2>5, <4>1
      <4>3. [u EXCEPT !.pc = "names", !.target = NULL, !.seen = Front(w.seen), !.saving = saving]
              = back
        BY DEF WalkRec
      <4> HIDE DEF u, saving
      <4> QED
        BY <4>1, <4>2, <4>3
    <3> HIDE DEF back
    <3> QED
      BY <1>2, <3>1 DEF Leave
  <2>7. back \in WalkRec /\ Kept(w, back) /\ back.list = w.list
    <3> HIDE DEF saving
    <3> QED
      BY <2>3, <2>4 DEF WalkRec, Kept
  <2>8. back.pc = "names" /\ back.path = path /\ back.seen = Front(w.seen) /\ back.saving = saving
    <3> HIDE DEF saving
    <3> QED
      BY <2>2 DEF WalkRec
  <2> HIDE DEF back, saving
  <2>9. LET r == Advance(back)
        IN  /\ r \in WalkRec /\ Kept(back, r) /\ r.path = Stepped(back.path)
            /\ r.pc = back.pc /\ r.saving = back.saving /\ r.list = back.list
            /\ r.seen = back.seen
    BY <1>2, <2>7, <2>8, AdvanceIs
  <2> QED
    BY <1>2, <2>6, <2>7, <2>8, <2>9 DEF Kept, saving
<1> QED
  BY <1>1, <1>2

LEMMA DescendIs ==
  ASSUME NEW w \in WalkRec, w.path # <<>>, Here(w).addr \in Nat,
         Here(w).addr \notin Range(w.seen), ~NoRoom(w)
  PROVE  LET r == Descend(w) e == Here(w) n == Len(w.path)
         IN  /\ r \in WalkRec /\ Kept(w, r) /\ r.list = w.list
             /\ r.pc = "open" /\ r.target = e.addr /\ r.seen = Append(w.seen, e.addr)
             /\ r.saving = (IF e.addr = OrphanDir THEN FALSE ELSE w.saving)
             /\ Alike(w.path, r.path)
             /\ \A k \in 1 .. n :
                  r.path[k].bak = IF k = n THEN w.saving ELSE w.path[k].bak
<1> DEFINE e == Here(w)
           n == Len(w.path)
           f == [w.path[n] EXCEPT !.bak = w.saving]
           q == [w.path EXCEPT ![n] = f]
           saving == IF e.addr = OrphanDir THEN FALSE ELSE w.saving
           r == [w EXCEPT !.seen = Append(w.seen, e.addr), !.pc = "open", !.target = e.addr,
                          !.path = q, !.saving = saving]
<1>1. w.path \in Seq(FrameRec) /\ w.seen \in Seq(Nat) /\ w.saving \in BOOLEAN
  BY DEF WalkRec
<1>2. n \in Nat \ {0} /\ n \in 1 .. n /\ w.path[n] \in FrameRec
  <2>1. /\ Len(w.path) \in Nat \ {0} /\ Last(w.path) = w.path[Len(w.path)]
        /\ Last(w.path) \in FrameRec
    BY <1>1, FrontIs
  <2> QED
    BY <2>1
<1>3. f \in FrameRec /\ f.names = w.path[n].names /\ f.i = w.path[n].i /\ f.bak = w.saving
  BY <1>1, <1>2 DEF FrameRec
<1> HIDE DEF f
<1>4. /\ q \in Seq(FrameRec) /\ Len(q) = n
      /\ \A k \in 1 .. n : q[k] = IF k = n THEN f ELSE w.path[k]
  BY <1>1, <1>2, <1>3, ExceptSeq
<1>5. Append(w.seen, e.addr) \in Seq(Nat)
  BY <1>1, AppendProperties
<1>7. Descend(w) = r
  <2> DEFINE pushed == [w EXCEPT !.seen = Append(w.seen, e.addr)]
  <2>1. /\ pushed.path = w.path /\ pushed.saving = w.saving
        /\ r = [pushed EXCEPT !.pc = "open", !.target = e.addr, !.path = q, !.saving = saving]
    BY DEF WalkRec
  <2> HIDE DEF pushed, r
  <2>2. Descend(w) = [pushed EXCEPT !.pc = "open", !.target = e.addr,
                        !.path = [pushed.path EXCEPT ![n] = [pushed.path[n] EXCEPT !.bak = w.saving]],
                        !.saving = IF e.addr = OrphanDir THEN FALSE ELSE pushed.saving]
    BY DEF Descend, pushed
  <2> QED
    BY <2>1, <2>2 DEF f
<1> HIDE DEF q, e
<1>8. r \in WalkRec /\ Kept(w, r) /\ r.list = w.list
  BY <1>1, <1>4, <1>5 DEF WalkRec, Kept, e
<1>9. /\ r.pc = "open" /\ r.target = e.addr /\ r.seen = Append(w.seen, e.addr)
      /\ r.saving = saving /\ r.path = q
  BY DEF WalkRec
<1>10. Alike(w.path, q)
  BY <1>3, <1>4 DEF Alike
<1>11. \A k \in 1 .. n : q[k].bak = IF k = n THEN w.saving ELSE w.path[k].bak
  BY <1>3, <1>4
<1> HIDE DEF r
<1> QED
  BY <1>7, <1>8, <1>9, <1>10, <1>11 DEF e

(* The record in the same place, with another list. *)
Still(w, d) ==
  /\ d \in WalkRec /\ Kept(w, d)
  /\ d.pc = w.pc /\ d.target = w.target /\ d.seen = w.seen /\ d.path = w.path /\ d.ret = w.ret

\* What Processed does to the record before it goes on.
Noted(w) ==
  LET c == Collect(w)
  IN  IF SavesEarly(c) THEN [c EXCEPT !.saving = FALSE, !.list = {}] ELSE c

LEMMA CollectIs ==
  ASSUME NEW w \in WalkRec, Here(w).addr \in Nat
  PROVE  LET c == Collect(w)
         IN  /\ Still(w, c) /\ c.saving = w.saving
             /\ c.list = IF w.saving /\ Deleted(Here(w).addr) THEN w.list \cup {Here(w).addr}
                         ELSE w.list
             /\ Here(c) = Here(w) /\ AtLastName(c) = AtLastName(w)
<1> DEFINE c == IF w.saving /\ Deleted(Here(w).addr)
                THEN [w EXCEPT !.list = w.list \cup {Here(w).addr}] ELSE w
<1>1. Collect(w) = c
  BY DEF Collect
<1>2. w.list \cup {Here(w).addr} \in SUBSET Nat
  BY DEF WalkRec
<1>3. /\ Still(w, c) /\ c.saving = w.saving
      /\ c.list = IF w.saving /\ Deleted(Here(w).addr) THEN w.list \cup {Here(w).addr}
                  ELSE w.list
  BY <1>2 DEF WalkRec, Still, Kept
<1> HIDE DEF c
<1>4. Here(c) = Here(w) /\ AtLastName(c) = AtLastName(w)
  BY <1>3 DEF Still, Here, AtLastName
<1> QED
  BY <1>1, <1>3, <1>4

LEMMA NotedIs ==
  ASSUME NEW w \in WalkRec, Here(w).addr \in Nat
  PROVE  LET d == Noted(w)
             early == w.saving /\ Here(w).addr = OrphanDir /\ AtLastName(w)
         IN  /\ Still(w, d) /\ Here(d) = Here(w)
             /\ early => ~d.saving /\ SharedAfter(w) = SavedNames(Collect(w))
             /\ ~early => /\ d.saving = w.saving /\ d.list = Collect(w).list
                          /\ SharedAfter(w) = list_inum_named
<1> DEFINE c == Collect(w)
           d == Noted(w)
           early == w.saving /\ Here(w).addr = OrphanDir /\ AtLastName(w)
<1>1. /\ Still(w, c) /\ c.saving = w.saving
      /\ Here(c) = Here(w) /\ AtLastName(c) = AtLastName(w)
  BY CollectIs
<1> HIDE DEF c
<1>2. SavesEarly(c) <=> early
  <2>1. c.saving = w.saving /\ Here(c) = Here(w) /\ AtLastName(c) = AtLastName(w)
    BY <1>1
  <2> QED
    BY <2>1 DEF SavesEarly
<1>3. CASE early
  <2>1. d = [c EXCEPT !.saving = FALSE, !.list = {}]
    BY <1>2, <1>3 DEF Noted, c
  <2> HIDE DEF d
  <2>a. c \in WalkRec /\ {} \in SUBSET Nat /\ FALSE \in BOOLEAN
    BY <1>1 DEF Still
  <2>b. d \in WalkRec
    BY <2>1, <2>a DEF WalkRec
  <2>c. /\ Kept(c, d) /\ ~d.saving
        /\ d.pc = c.pc /\ d.target = c.target /\ d.seen = c.seen /\ d.path = c.path /\ d.ret = c.ret
    BY <2>1, <2>a DEF WalkRec, Kept
  <2>2. Still(w, d) /\ ~d.saving
    BY <1>1, <2>b, <2>c DEF Still, Kept
  <2>3. Here(d) = Here(w)
    BY <2>2 DEF Still, Here
  <2>4. SharedAfter(w) = SavedNames(c)
    BY <1>2, <1>3 DEF SharedAfter, c
  <2> QED
    BY <1>3, <2>2, <2>3, <2>4 DEF c, d
<1>4. CASE ~early
  <2>1. d = c
    BY <1>2, <1>4 DEF Noted, c
  <2>2. SharedAfter(w) = list_inum_named
    BY <1>2, <1>4 DEF SharedAfter, c
  <2> QED
    BY <1>1, <1>4, <2>1, <2>2 DEF c
<1> QED
  BY <1>3, <1>4

-----------------------------------------------------------------------------
(* Where a walk from directory a is, step by step.                         *)
Walking(v, a, w) ==
  /\ w.pc = "begin" => w.path = <<>> /\ w.seen = <<>>
  /\ w.pc \in {"begin", "open", "wait"} =>
       Len(w.path) = Len(w.seen) /\ w.target = DirAt(a, w.seen, Len(w.path) + 1)
  /\ w.pc = "names" => Len(w.path) = Len(w.seen) + 1
  /\ w.pc # "end" => Shape(v, a, w.flags, w.path, w.seen)

(* What it has covered: when it is over, everything below a, unless it     *)
(* ended early.                                                            *)
Covered(v, a, w, X) ==
  IF w.pc = "end" THEN w.ret = "cont" => Beneath(v, a, {}) \subseteq X
  ELSE Done(v, w.path, w.seen, X)

AtName(w) == w.pc = "names" /\ Last(w.path).i <= Len(Last(w.path).names)

LEMMA HereIs ==
  ASSUME NEW v \in Volumes, Walkable(v), NEW a, NEW w \in WalkRec, Walking(v, a, w), AtName(w)
  PROVE  LET n == Len(w.path) f == w.path[n]
         IN  /\ w.path \in Seq(FrameRec) /\ w.seen \in Seq(Nat) /\ w.path # <<>>
             /\ n \in Nat \ {0} /\ Len(w.seen) \in Nat /\ n = Len(w.seen) + 1 /\ n \in 1 .. n
             /\ Last(w.path) = f /\ f \in FrameRec /\ f.i \in 1 .. Len(f.names)
             /\ Here(w) = Current(f) /\ Here(w) \in NameRec /\ Here(w).addr \in Nat
             /\ AtLastName(w) <=> f.i = Len(f.names)
             /\ Shape(v, a, w.flags, w.path, w.seen)
             /\ EntriesOf(v, DirAt(a, w.seen, n), f)
             /\ Range(w.seen) = Before(w.seen, n)
<1> DEFINE n == Len(w.path)
           f == w.path[n]
<1>1. w.path \in Seq(FrameRec) /\ w.seen \in Seq(Nat)
  BY DEF WalkRec
<1>2. n = Len(w.seen) + 1 /\ Shape(v, a, w.flags, w.path, w.seen)
  BY DEF Walking, AtName
<1>3. Len(w.seen) \in Nat /\ DOMAIN w.seen = 1 .. Len(w.seen) /\ n \in Nat \ {0} /\ n \in 1 .. n
  BY <1>1, <1>2, LenProperties
<1>4. w.path # <<>>
  BY <1>3, EmptySeq
<1>5. Last(w.path) = f /\ f \in FrameRec
  BY <1>1, <1>4, FrontIs
<1>6. f.names \in Seq(NameRec) /\ f.i \in Nat \ {0} /\ Len(f.names) \in Nat
  BY <1>5, LenProperties DEF FrameRec
<1>7. f.i \in 1 .. Len(f.names)
  <2>1. f.i <= Len(f.names)
    BY <1>5 DEF AtName
  <2> QED
    BY <1>6, <2>1
<1>8. Here(w) = Current(f) /\ (AtLastName(w) <=> f.i = Len(f.names))
  BY <1>5 DEF Here, Current, AtLastName
<1>9. Current(f) \in NameRec
  BY <1>6, <1>7, ElementOfSeq DEF Current
<1>10. Here(w) \in NameRec /\ Here(w).addr \in Nat
  BY <1>8, <1>9 DEF NameRec
<1>11. EntriesOf(v, DirAt(a, w.seen, n), f)
  BY <1>2, <1>3 DEF Shape
<1>12. Range(w.seen) = Before(w.seen, n)
  <2>1. n - 1 = Len(w.seen)
    BY <1>2, <1>3
  <2> QED
    BY <1>3, <2>1 DEF Range, Before
<1> HIDE DEF n, f
<1> QED
  BY <1>1, <1>2, <1>3, <1>4, <1>5, <1>7, <1>8, <1>10, <1>11, <1>12 DEF n, f

(* A name that the callback did not stop at.  The walk goes on behind it   *)
(* or in its directory.                                                    *)
Passed(w, d, r) ==
  /\ r.pc = "names" /\ r.path = Stepped(w.path) /\ r.seen = w.seen /\ r.saving = d.saving

Entered(w, d, r) ==
  /\ r.pc = "open" /\ r.target = Here(w).addr /\ r.seen = Append(w.seen, Here(w).addr)
  /\ r.saving = (IF Here(w).addr = OrphanDir THEN FALSE ELSE d.saving)
  /\ Alike(w.path, r.path)
  /\ \A k \in 1 .. Len(w.path) :
       r.path[k].bak = IF k = Len(w.path) THEN d.saving ELSE w.path[k].bak

LEMMA ProcessedIs ==
  ASSUME fs \in DOMAIN FileSystems, NEW v, v = FileSystems[fs], Walkable(v), NEW a,
         NEW w \in WalkRec, Walking(v, a, w), AtName(w)
  PROVE  LET r == Processed(w) d == Noted(w)
         IN  /\ r \in WalkRec /\ Kept(w, r) /\ r.list = d.list
             /\ IF Goes(v, w.flags, Here(w)) /\ Here(w).addr \notin Range(w.seen)
                THEN Entered(w, d, r) ELSE Passed(w, d, r)
             /\ r.pc \in {"names", "open"} /\ Walking(v, a, r)
             /\ \A X, Y : /\ w.flags.recurse /\ Covered(v, a, w, X) /\ X \subseteq Y /\ Here(w) \in Y
                         => Covered(v, a, r, Y)
<1> DEFINE e == Here(w)
           d == Noted(w)
           n == Len(w.path)
           r == Processed(w)
<1>1. v \in Volumes
  BY DEF Volumes
<1>2. /\ w.path \in Seq(FrameRec) /\ w.seen \in Seq(Nat) /\ w.path # <<>>
      /\ n \in Nat \ {0} /\ Len(w.seen) \in Nat /\ n = Len(w.seen) + 1
      /\ w.path[n].i \in 1 .. Len(w.path[n].names)
      /\ e = Current(w.path[n]) /\ e \in NameRec /\ e.addr \in Nat
      /\ Shape(v, a, w.flags, w.path, w.seen)
      /\ Range(w.seen) = Before(w.seen, n)
  BY <1>1, HereIs
<1>3. Still(w, d) /\ Here(d) = e
  BY <1>2, NotedIs
<1>4. w.flags \in Flags /\ w.pc = "names"
  BY DEF WalkRec, AtName
<1>5. Descends(w.flags, e) <=> Goes(v, w.flags, e)
  BY <1>2, <1>4, DescendsIs
<1>6. r = IF Goes(v, w.flags, e) THEN Descend(d) ELSE Advance(d)
  BY <1>5 DEF Processed, Noted
<1> HIDE DEF r, d, e
<1>7. /\ d \in WalkRec /\ d.path = w.path /\ d.seen = w.seen /\ d.pc = "names" /\ Kept(w, d)
  BY <1>3, <1>4 DEF Still
<1>8. CASE ~Goes(v, w.flags, e) \/ e.addr \in Range(w.seen)
  <2>1. r = Advance(d)
    BY <1>3, <1>6, <1>7, <1>8 DEF Descend
  <2>2. /\ r \in WalkRec /\ Kept(d, r) /\ r.path = Stepped(w.path) /\ r.pc = "names"
        /\ r.saving = d.saving /\ r.list = d.list /\ r.seen = w.seen
    BY <1>2, <1>7, <2>1, AdvanceIs
  <2>3. Kept(w, r) /\ Passed(w, d, r)
    BY <1>7, <2>2 DEF Kept, Passed
  <2>4. /\ Shape(v, a, w.flags, r.path, r.seen)
        /\ \A X, Y : /\ Done(v, w.path, w.seen, X) /\ X \subseteq Y
                     /\ Cleared(v, e, Before(w.seen, n), Y)
                    => Done(v, r.path, r.seen, Y)
    BY <1>2, <2>2, StepOk, ZenonT(40)
  <2>5. Len(r.path) = Len(r.seen) + 1
    BY <1>2, <2>2, SteppedIs
  <2>6. Walking(v, a, r)
    BY <2>2, <2>3, <2>4, <2>5 DEF Walking, Kept
  <2>7. ASSUME NEW X, NEW Y, w.flags.recurse, Covered(v, a, w, X), X \subseteq Y, e \in Y
        PROVE  Covered(v, a, r, Y)
    <3>1. Enters(v, e) => e.addr \in Before(w.seen, n)
      <4>1. OrphanDir \notin DOMAIN v.meta
        BY <1>1, VolumeIs
      <4>2. Enters(v, e) => Goes(v, w.flags, e)
        BY <2>7, <4>1 DEF Goes, Enters
      <4> QED
        BY <1>2, <1>8, <4>2
    <3>2. Cleared(v, e, Before(w.seen, n), Y)
      BY <2>7, <3>1 DEF Cleared
    <3>3. Done(v, w.path, w.seen, X)
      BY <1>4, <2>7 DEF Covered
    <3>4. Done(v, r.path, r.seen, Y)
      BY <2>4, <2>7, <3>2, <3>3
    <3> QED
      BY <2>2, <3>4 DEF Covered
  <2> QED
    BY <1>8, <2>2, <2>3, <2>6, <2>7 DEF r, d, e
<1>9. CASE Goes(v, w.flags, e) /\ e.addr \notin Range(w.seen)
  <2>1. Len(w.seen) < MaxDepth
    BY <1>1, <1>2, <1>9, DeepEnough
  <2>2. n - 1 < MaxDepth /\ v.long = {}
    BY <1>2, <2>1 DEF Walkable, NotTooDeep
  <2>3. r = Descend(d)
    BY <1>6, <1>9
  <2>4. /\ r \in WalkRec /\ Kept(d, r) /\ r.list = d.list
        /\ r.pc = "open" /\ r.target = e.addr /\ r.seen = Append(w.seen, e.addr)
        /\ r.saving = (IF e.addr = OrphanDir THEN FALSE ELSE d.saving)
        /\ Alike(w.path, r.path)
        /\ \A k \in 1 .. n : r.path[k].bak = IF k = n THEN d.saving ELSE w.path[k].bak
    <3>1. d.path # <<>> /\ Here(d).addr \in Nat /\ Here(d).addr \notin Range(d.seen)
      BY <1>2, <1>3, <1>7, <1>9
    <3>2. ~NoRoom(d)
      <4>1. ~(Len(d.path) - 1 >= MaxDepth)
        BY <1>2, <1>7, <2>2, DirAssumption
      <4> QED
        BY <2>2, <4>1 DEF NoRoom
    <3>3. LET x == Descend(d) IN
          /\ x \in WalkRec /\ Kept(d, x) /\ x.list = d.list
          /\ x.pc = "open" /\ x.target = Here(d).addr /\ x.seen = Append(d.seen, Here(d).addr)
          /\ x.saving = (IF Here(d).addr = OrphanDir THEN FALSE ELSE d.saving)
          /\ Alike(d.path, x.path)
          /\ \A k \in 1 .. Len(d.path) :
               x.path[k].bak = IF k = Len(d.path) THEN d.saving ELSE d.path[k].bak
      BY <1>7, <3>1, <3>2, DescendIs
    <3> HIDE DEF n
    <3> QED
      BY <1>3, <1>7, <2>3, <3>3 DEF n
  <2>5. Kept(w, r) /\ Entered(w, d, r)
    BY <1>7, <2>4 DEF Kept, Entered, e
  <2>6. r.path \in Seq(FrameRec)
    BY <2>4 DEF WalkRec
  <2>7. /\ Len(r.seen) = Len(r.path)
        /\ Shape(v, a, w.flags, r.path, r.seen)
        /\ DirAt(a, r.seen, Len(r.path) + 1) = e.addr
        /\ \A X, Y : Done(v, w.path, w.seen, X) /\ X \subseteq Y /\ e \in Y
                       => Done(v, r.path, r.seen, Y)
    <3> DEFINE s == Append(w.seen, e.addr)
               q == r.path
    <3>1. q \in Seq(FrameRec) /\ Alike(w.path, q) /\ r.seen = s
      BY <2>4, <2>6
    <3> DEFINE p == w.path
               z == w.seen
    <3>2. /\ p \in Seq(FrameRec) /\ z \in Seq(Nat) /\ Shape(v, a, w.flags, p, z)
          /\ Len(p) = Len(z) + 1 /\ Alike(p, q) /\ e = Current(p[Len(p)])
          /\ p[Len(p)].i \in 1 .. Len(p[Len(p)].names)
          /\ Goes(v, w.flags, e) /\ e.addr \in Nat /\ e.addr \notin Range(z)
      BY <1>2, <1>9, <3>1
    <3> HIDE DEF q, p, z
    <3>3. LET x == Append(z, e.addr)
          IN  /\ x \in Seq(Nat) /\ Len(x) = Len(q) /\ Shape(v, a, w.flags, q, x)
              /\ DirAt(a, x, Len(q) + 1) = e.addr
              /\ \A X, Y : Done(v, p, z, X) /\ X \subseteq Y /\ e \in Y => Done(v, q, x, Y)
      <4>6. /\ Len(z) \in Nat /\ Len(Append(z, e.addr)) = Len(z) + 1 /\ Len(q) = Len(z) + 1
            /\ Append(z, e.addr)[Len(z) + 1] = e.addr
        BY <3>1, <3>2, LenProperties, AppendProperties DEF Alike
      <4>1. Len(Append(z, e.addr)) = Len(q)
        BY <4>6
      <4>2. Append(z, e.addr) \in Seq(Nat)
        BY <3>1, <3>2, EnterOk
      <4>3. Shape(v, a, w.flags, q, Append(z, e.addr))
        BY <3>1, <3>2, EnterOk
      <4>4. DirAt(a, Append(z, e.addr), Len(q) + 1) = e.addr
        BY <4>6 DEF DirAt
      <4>5. \A X, Y : Done(v, p, z, X) /\ X \subseteq Y /\ e \in Y => Done(v, q, Append(z, e.addr), Y)
        BY <3>1, <3>2, EnterOk
      <4> QED
        BY <4>1, <4>2, <4>3, <4>4, <4>5
    <3> QED
      BY <3>1, <3>3 DEF q, p, z
  <2>8. Walking(v, a, r)
    BY <2>4, <2>5, <2>7 DEF Walking, Kept
  <2>9. ASSUME NEW X, NEW Y, w.flags.recurse, Covered(v, a, w, X), X \subseteq Y, e \in Y
        PROVE  Covered(v, a, r, Y)
    BY <1>4, <2>4, <2>7, <2>9 DEF Covered
  <2> QED
    BY <1>9, <2>4, <2>5, <2>8, <2>9 DEF r, d, e
<1> QED
  BY <1>8, <1>9

(* The directory opens ... *)
Into(w, names) == [w EXCEPT !.pc = "names", !.path = Append(@, Frame(names))]

LEMMA OpenedIs ==
  ASSUME NEW v, NEW a, NEW w \in WalkRec, w.pc \in {"open", "wait"}, Walking(v, a, w),
         NEW names \in Seq(NameRec), EntriesOf(v, w.target, Frame(names))
  PROVE  LET r == Into(w, names)
         IN  /\ r \in WalkRec /\ Kept(w, r) /\ r.pc = "names"
             /\ r.path = Append(w.path, Frame(names))
             /\ r.seen = w.seen /\ r.saving = w.saving /\ r.list = w.list
             /\ Walking(v, a, r) /\ \A X : Covered(v, a, w, X) => Covered(v, a, r, X)
<1> DEFINE f == Frame(names)
           q == Append(w.path, f)
           r == [w EXCEPT !.pc = "names", !.path = q]
<1>1. w.path \in Seq(FrameRec) /\ w.seen \in Seq(Nat)
  BY DEF WalkRec
<1>2. f \in FrameRec /\ f.i = 1
  BY DEF Frame, FrameRec
<1>3. /\ Len(w.path) = Len(w.seen) /\ w.target = DirAt(a, w.seen, Len(w.path) + 1)
      /\ Shape(v, a, w.flags, w.path, w.seen)
  BY DEF Walking
<1> HIDE DEF f
<1>4. EntriesOf(v, DirAt(a, w.seen, Len(w.path) + 1), f)
  BY <1>3 DEF f
<1>5. q \in Seq(FrameRec) /\ Shape(v, a, w.flags, q, w.seen)
  BY <1>1, <1>2, <1>3, <1>4, OpenOk
<1>6. Carries(v, w.path, w.seen, q, w.seen)
  BY <1>1, <1>2, <1>3, <1>4, OpenOk
<1>7. Len(q) = Len(w.seen) + 1
  BY <1>1, <1>2, <1>3, AppendProperties
<1> HIDE DEF q
<1>8. /\ r \in WalkRec /\ Kept(w, r) /\ r.pc = "names" /\ r.path = q
      /\ r.seen = w.seen /\ r.saving = w.saving /\ r.list = w.list /\ r.flags = w.flags
  BY <1>5 DEF WalkRec, Kept
<1> HIDE DEF r
<1>9. Walking(v, a, r)
  BY <1>5, <1>7, <1>8 DEF Walking
<1>10. \A X : Covered(v, a, w, X) => Covered(v, a, r, X)
  BY <1>6, <1>8 DEF Covered, Carries
<1> QED
  BY <1>8, <1>9, <1>10 DEF Into, r, q, f

(* ... or the walk goes on behind its name. *)
Left(w, path, ret, r) ==
  /\ Kept(w, r) /\ r.list = w.list /\ r.pc \in {"names", "end"}
  /\ r.pc = "end" => path = <<>> /\ r.ret = ret /\ r.saving = w.saving
  /\ r.pc = "names" =>
       /\ path # <<>> /\ r.path = Stepped(path) /\ r.seen = Front(w.seen)
       /\ r.saving = IF Current(path[Len(path)]).addr = OrphanDir THEN path[Len(path)].bak
                     ELSE w.saving

\* What is below the directory that was left is in X.
ClearedBelow(v, a, path, seen, ret, X) ==
  /\ path = <<>> /\ ret = "cont" => Beneath(v, a, {}) \subseteq X
  /\ path # <<>> => NameCleared(v, path, seen, X)

LEMMA LeftIs ==
  ASSUME NEW v, NEW a, NEW w \in WalkRec, NEW path \in Seq(FrameRec), NEW ret \in Rets,
         Shape(v, a, w.flags, path, w.seen), Len(path) = Len(w.seen)
  PROVE  /\ Leave(w, path, ret) \in WalkRec
         /\ Left(w, path, ret, Leave(w, path, ret))
         /\ Walking(v, a, Leave(w, path, ret))
         /\ \A X : Done(v, path, w.seen, X) /\ ClearedBelow(v, a, path, w.seen, ret, X)
                    => Covered(v, a, Leave(w, path, ret), X)
<1> DEFINE r == Leave(w, path, ret)
           e == Current(path[Len(path)])
<1>1. w.seen \in Seq(Nat)
  BY DEF WalkRec
<1>2. path # <<>> => w.seen # <<>>
  BY <1>1, EmptySeq
<1>3. /\ r \in WalkRec /\ Kept(w, r) /\ r.list = w.list
      /\ path = <<>> => /\ r.pc = "end" /\ r.ret = ret /\ r.path = <<>> /\ r.saving = w.saving
      /\ path # <<>> =>
           /\ r.pc = "names" /\ r.path = Stepped(path) /\ r.seen = Front(w.seen)
           /\ r.saving = IF e.addr = OrphanDir THEN path[Len(path)].bak ELSE w.saving
  BY <1>2, LeaveIs
<1> HIDE DEF r
<1>4. Left(w, path, ret, r)
  BY <1>3 DEF Left
<1> HIDE DEF e
<1>5. CASE path = <<>>
  <2>1. Walking(v, a, r)
    BY <1>3, <1>5 DEF Walking
  <2>2. \A X : ClearedBelow(v, a, path, w.seen, ret, X) => Covered(v, a, r, X)
    BY <1>3, <1>5 DEF Covered, ClearedBelow
  <2> QED
    BY <1>3, <1>4, <2>1, <2>2 DEF r
<1>6. CASE path # <<>>
  <2> DEFINE z == w.seen
             q == Stepped(path)
             u == Front(z)
  <2>1. z \in Seq(Nat) /\ Shape(v, a, w.flags, path, z) /\ Len(path) = Len(z)
    BY <1>1
  <2> HIDE DEF z
  <2>2. /\ Len(q) = Len(u) + 1 /\ Shape(v, a, w.flags, q, u)
        /\ CarriesBack(v, path, z, q, u)
    <3>1. Len(q) = Len(u) + 1
      <4>1. z # <<>> /\ Len(z) \in Nat \ {0}
        BY <1>6, <2>1, EmptySeq
      <4>2. Len(Front(z)) = Len(z) - 1 /\ Len(Stepped(path)) = Len(path)
        BY <1>6, <2>1, <4>1, FrontIs, SteppedIs
      <4> QED
        BY <2>1, <4>1, <4>2
    <3>2. Shape(v, a, w.flags, q, u)
      BY <1>6, <2>1, BackOk
    <3>3. CarriesBack(v, path, z, q, u)
      BY <1>6, <2>1, BackOk
    <3> QED
      BY <3>1, <3>2, <3>3
  <2>3. r.pc = "names" /\ r.path = q /\ r.seen = u /\ r.flags = w.flags
    BY <1>3, <1>6 DEF Kept, z
  <2> HIDE DEF q, u
  <2>4. Walking(v, a, r)
    BY <2>2, <2>3 DEF Walking
  <2>5. ASSUME NEW X, Done(v, path, z, X), ClearedBelow(v, a, path, z, ret, X)
        PROVE  Covered(v, a, r, X)
    <3>1. NameCleared(v, path, z, X)
      BY <1>6, <2>5 DEF ClearedBelow
    <3>2. Done(v, q, u, X)
      BY <2>2, <2>5, <3>1 DEF CarriesBack
    <3> QED
      BY <2>3, <3>2 DEF Covered
  <2> QED
    BY <1>3, <1>4, <2>4, <2>5 DEF r, z
<1> QED
  BY <1>5, <1>6

LEMMA NothingBelow ==
  ASSUME NEW v, NEW d \in DOMAIN v.meta, NEW S, NEW X, d \notin DOMAIN v.names \ v.unreadable
  PROVE  Beneath(v, d, S) \subseteq X
<1>1. NamesIn(v, d) = {}
  BY DEF NamesIn
<1> QED
  BY <1>1, CoverStep

LEMMA UnreadIs ==
  ASSUME NEW v \in Volumes, NEW a, NEW w \in WalkRec, w.pc \in {"open", "wait"},
         Walking(v, a, w), w.target = OrphanDir \/ w.target \notin DOMAIN v.names \ v.unreadable
  PROVE  LET r == Leave(w, w.path, "error")
         IN  /\ r \in WalkRec /\ Left(w, w.path, "error", r)
             /\ Walking(v, a, r) /\ \A X : Covered(v, a, w, X) => Covered(v, a, r, X)
<1> DEFINE p == w.path
           z == w.seen
           n == Len(p)
           e == Current(p[n])
           x == "error"
           r == Leave(w, p, x)
<1>1. /\ p \in Seq(FrameRec) /\ z \in Seq(Nat) /\ n = Len(z)
      /\ Shape(v, a, w.flags, p, z) /\ w.target = DirAt(a, z, n + 1)
      /\ x \in Rets /\ n \in Nat
  BY LenProperties DEF WalkRec, Walking, Rets
<1>2. ASSUME p # <<>>, Enters(v, e), NEW X
      PROVE  Beneath(v, e.addr, Before(z, n)) \subseteq X
  <2>1. n \in 1 .. Len(z)
    BY <1>1, <1>2, EmptySeq
  <2>2. z[n] = e.addr
    BY <1>1, <2>1 DEF Shape
  <2>3. w.target = e.addr
    BY <1>1, <2>1, <2>2 DEF DirAt
  <2>4. e.addr \in DOMAIN v.meta /\ e.addr # OrphanDir
    BY <1>2, VolumeIs DEF Enters
  <2> QED
    BY <2>3, <2>4, NothingBelow
<1>3. \A X : ClearedBelow(v, a, p, z, x, X)
  BY <1>2 DEF ClearedBelow, NameCleared
<1>4. \A X : Covered(v, a, w, X) => Done(v, p, z, X)
  BY DEF Covered
<1> HIDE DEF x, r
<1>5. /\ r \in WalkRec /\ Left(w, p, x, r) /\ Walking(v, a, r)
      /\ \A X : Done(v, p, z, X) /\ ClearedBelow(v, a, p, z, x, X) => Covered(v, a, r, X)
  BY <1>1, LeftIs DEF r
<1> QED
  BY <1>3, <1>4, <1>5 DEF x, r

(* All names of a directory are done. *)
LEMMA EndedIs ==
  ASSUME NEW v \in Volumes, NoWayBack(v), NEW a \in DOMAIN v.meta, NEW w \in WalkRec,
         Walking(v, a, w), w.pc = "names", Last(w.path).i > Len(Last(w.path).names)
  PROVE  LET r == Leave(w, Front(w.path), "cont")
         IN  /\ r \in WalkRec /\ Left(w, Front(w.path), "cont", r)
             /\ Walking(v, a, r) /\ \A X : Covered(v, a, w, X) => Covered(v, a, r, X)
<1> DEFINE p == w.path
           z == w.seen
           q == Front(p)
           n == Len(q)
           x == "cont"
           r == Leave(w, q, x)
<1>1. /\ p \in Seq(FrameRec) /\ z \in Seq(Nat) /\ Len(p) = Len(z) + 1 /\ Len(z) \in Nat
      /\ Shape(v, a, w.flags, p, z) /\ x \in Rets
  BY LenProperties DEF WalkRec, Walking, Rets
<1>2. p # <<>> /\ Last(p) = p[Len(p)]
  BY <1>1, EmptySeq DEF Last
<1> HIDE DEF x, r
<1>3. /\ q \in Seq(FrameRec) /\ n = Len(z) /\ Shape(v, a, w.flags, q, z)
      /\ Carries(v, p, z, q, z)
  <2>1. q \in Seq(FrameRec)
    BY <1>1, DropOk
  <2>2. Len(q) = Len(z)
    <3>1. Len(z) \in Nat /\ p # <<>>
      BY <1>1, LenProperties, EmptySeq
    <3>2. Len(Front(p)) = Len(p) - 1
      BY <1>1, <3>1, FrontIs
    <3> QED
      BY <1>1, <3>1, <3>2
  <2>3. Shape(v, a, w.flags, q, z)
    BY <1>1, DropOk
  <2>4. Carries(v, p, z, q, z)
    BY <1>1, DropOk
  <2> QED
    BY <2>1, <2>2, <2>3, <2>4
<1>4. /\ r \in WalkRec /\ Left(w, q, x, r) /\ Walking(v, a, r)
      /\ \A X : Done(v, q, z, X) /\ ClearedBelow(v, a, q, z, x, X) => Covered(v, a, r, X)
  BY <1>1, <1>3, LeftIs DEF r
<1>5. ASSUME NEW X, Done(v, p, z, X) PROVE ClearedBelow(v, a, q, z, x, X)
  <2> DEFINE d == DirAt(a, z, Len(p))
  <2>1. d \in DOMAIN v.meta => Beneath(v, d, Before(z, Len(z))) \subseteq X
    BY <1>1, <1>2, <1>5, DirDone
  <2>2. CASE q = <<>>
    <3>1. Len(p) = 1 /\ d = a /\ Before(z, Len(z)) = {}
      BY <1>1, <1>3, <2>2, EmptySeq DEF DirAt, Before
    <3> QED
      BY <2>1, <2>2, <3>1 DEF ClearedBelow
  <2>3. CASE q # <<>>
    <3> DEFINE e == Current(q[n])
    <3>1. n \in 1 .. Len(z)
      BY <1>1, <1>3, <2>3, EmptySeq
    <3>2. z[n] = e.addr
      BY <1>3, <3>1 DEF Shape
    <3>3. d = e.addr
      BY <1>1, <1>3, <3>1, <3>2 DEF DirAt
    <3>4. Enters(v, e) => Beneath(v, e.addr, Before(z, n)) \subseteq X
      BY <1>3, <2>1, <3>3 DEF Enters
    <3> QED
      BY <2>3, <3>4 DEF ClearedBelow, NameCleared
  <2> QED
    BY <2>2, <2>3
<1>6. \A X : Covered(v, a, w, X) => Done(v, p, z, X)
  BY DEF Covered
<1> QED
  BY <1>3, <1>4, <1>5, <1>6 DEF x, r, Carries

(* The callback gave the directory up. *)
LEMMA GivenUpIs ==
  ASSUME NEW v, NEW a, NEW w \in WalkRec, Walking(v, a, w), w.pc = "names"
  PROVE  LET r == Leave(w, Front(w.path), "error")
         IN  r \in WalkRec /\ Left(w, Front(w.path), "error", r) /\ Walking(v, a, r)
<1> DEFINE p == w.path
           z == w.seen
           q == Front(p)
           x == "error"
<1>1. /\ p \in Seq(FrameRec) /\ z \in Seq(Nat) /\ Len(p) = Len(z) + 1
      /\ Shape(v, a, w.flags, p, z) /\ x \in Rets
  BY DEF WalkRec, Walking, Rets
<1> HIDE DEF x
<1>2. q \in Seq(FrameRec) /\ Len(q) = Len(z) /\ Shape(v, a, w.flags, q, z)
  <2>1. q \in Seq(FrameRec)
    BY <1>1, DropOk
  <2>2. Len(q) = Len(z)
    <3>1. Len(z) \in Nat /\ p # <<>>
      BY <1>1, LenProperties, EmptySeq
    <3>2. Len(Front(p)) = Len(p) - 1
      BY <1>1, <3>1, FrontIs
    <3> QED
      BY <1>1, <3>1, <3>2
  <2>3. Shape(v, a, w.flags, q, z)
    BY <1>1, DropOk
  <2> QED
    BY <2>1, <2>2, <2>3
<1>3. /\ Leave(w, q, x) \in WalkRec /\ Left(w, q, x, Leave(w, q, x))
      /\ Walking(v, a, Leave(w, q, x))
  BY <1>1, <1>2, LeftIs
<1> QED
  BY <1>3 DEF x

LEMMA StoppedIs ==
  ASSUME NEW v, NEW a, NEW w \in WalkRec
  PROVE  LET r == Stopped(w)
         IN  /\ r \in WalkRec /\ Kept(w, r) /\ Walking(v, a, r)
             /\ r.pc = "end" /\ r.ret = "stop" /\ ~r.saving
<1> DEFINE r == [w EXCEPT !.pc = "end", !.ret = "stop", !.path = <<>>, !.list = {},
                          !.saving = FALSE]
<1>1. <<>> \in Seq(FrameRec)
  OBVIOUS
<1>2. r \in WalkRec /\ Kept(w, r) /\ r.pc = "end" /\ r.ret = "stop" /\ ~r.saving
  BY <1>1 DEF WalkRec, Kept, Rets
<1>3. Stopped(w) = r
  BY DEF Stopped
<1> HIDE DEF r
<1>4. Walking(v, a, r)
  BY <1>2 DEF Walking
<1> QED
  BY <1>2, <1>3, <1>4

(* Whatever the callback answers. *)
LEMMA AnsweredIs ==
  ASSUME fs \in DOMAIN FileSystems, NEW v, v = FileSystems[fs], Walkable(v), NEW a,
         NEW w \in WalkRec, Walking(v, a, w), AtName(w), NEW answer \in Rets
  PROVE  LET r == Answered(w, answer)
         IN  /\ r \in WalkRec /\ Kept(w, r) /\ Walking(v, a, r)
             /\ r.pc \in {"names", "open", "end"}
             /\ r.pc = "end" => r.ret = answer /\ answer # "cont"
<1> DEFINE r == Answered(w, answer)
<1>1. CASE answer = "cont"
  <2>1. r = Processed(w)
    BY <1>1 DEF Answered
  <2>2. /\ Processed(w) \in WalkRec /\ Kept(w, Processed(w)) /\ Walking(v, a, Processed(w))
        /\ Processed(w).pc \in {"names", "open"}
    BY ProcessedIs
  <2> QED
    BY <2>1, <2>2
<1>2. CASE answer = "stop"
  <2>1. r = Stopped(w)
    BY <1>2 DEF Answered
  <2>2. /\ Stopped(w) \in WalkRec /\ Kept(w, Stopped(w)) /\ Walking(v, a, Stopped(w))
        /\ Stopped(w).pc = "end" /\ Stopped(w).ret = "stop"
    BY StoppedIs
  <2> QED
    BY <1>2, <2>1, <2>2
<1>3. CASE answer = "error"
  <2> DEFINE u == Leave(w, Front(w.path), "error")
  <2>1. r = u
    BY <1>3 DEF Answered
  <2>2. w.pc = "names"
    BY DEF AtName
  <2>3. u \in WalkRec /\ Left(w, Front(w.path), "error", u) /\ Walking(v, a, u)
    BY <2>2, GivenUpIs
  <2> HIDE DEF u
  <2>4. Kept(w, u) /\ u.pc \in {"names", "end"} /\ (u.pc = "end" => u.ret = "error")
    BY <2>3 DEF Left
  <2> QED
    BY <1>3, <2>1, <2>3, <2>4
<1> QED
  BY <1>1, <1>2, <1>3 DEF Rets

-----------------------------------------------------------------------------
(* The stacks of the threads.  A walk for a caller is at the bottom; above *)
(* it, if it waits for $OrphanFiles, is the search, and above that a walk  *)
(* on its behalf, which does not come to $OrphanFiles.                     *)
Start(w, b) == IF w.cb = "orphan" THEN Last(b.found) ELSE Root

\* The names that a walk has shown or was not to show.
Shown(flags, shown) == {e \in NameRec : e.alloc \in Shows(flags) => e.addr \in shown}

Tells(v, w) ==
  w.cb = "user" /\ w.asked = "cont" /\ w.flags.recurse =>
    /\ w.pc = "end" => w.ret # "stop"
    /\ Covered(v, Root, w, Shown(w.flags, w.shown))

GoneNames(v, got) == got \in OpenResult /\ (~got.err => got.names \in Seq(Gone(v)))

WalkOk(v, w, b, k, top) ==
  /\ w.cb = "user" <=> k = 1
  /\ w.cb # "user" => b \in FindRec /\ w.flags = CollectOnly
  /\ w.cb = "named" => b.pc = "loading"
  /\ w.cb = "orphan" => b.pc = "entering" /\ b.found # <<>>
  /\ Walking(v, Start(w, b), w)
  /\ w.pc = "wait" => w.target = OrphanDir
  /\ ~top => w.pc = "wait"
  /\ top /\ w.pc = "wait" => GoneNames(v, w.got)
  /\ w.pc = "end" => w.ret \in Rets
  /\ Tells(v, w)

FindOk(v, r, b, k, top) ==
  /\ k # 1 => b \in WalkRec /\ b.pc = "wait"
  /\ ~top => r.pc \in {"loading", "entering"}
  /\ top /\ r.pc \in {"loading", "entering"} => r.got \in WalkResult
  /\ r.found \in Seq(Gone(v)) /\ r.todo \subseteq Gone(v)

RecOk(v, r, b, k, top) ==
  \/ r \in WalkRec /\ WalkOk(v, r, b, k, top)
  \/ r \in FindRec /\ FindOk(v, r, b, k, top)

Below(s, k) == IF k = 1 THEN NULL ELSE s[k - 1]

StackOk(v, s) ==
  s \in Seq(Records) /\ \A k \in 1 .. Len(s) : RecOk(v, s[k], Below(s, k), k, k = Len(s))

LEMMA RecIs ==
  ASSUME NEW v, NEW r, NEW b, NEW k, NEW top, RecOk(v, r, b, k, top)
  PROVE  /\ r \in Records
         /\ r.fn = "walk" => r \in WalkRec /\ WalkOk(v, r, b, k, top)
         /\ r.fn = "find_orphans" => r \in FindRec /\ FindOk(v, r, b, k, top)
<1>1. \A x \in WalkRec : x.fn = "walk"
  BY DEF WalkRec
<1>2. \A x \in FindRec : x.fn = "find_orphans"
  BY DEF FindRec
<1> QED
  BY <1>1, <1>2 DEF RecOk, Records

LEMMA StackBecomes ==
  ASSUME NEW v, NEW s, StackOk(v, s), s # <<>>, NEW r,
         RecOk(v, r, Below(s, Len(s)), Len(s), TRUE)
  PROVE  StackOk(v, Append(Front(s), r))
<1> DEFINE u == Append(Front(s), r)
<1>1. s \in Seq(Records) /\ r \in Records
  BY RecIs DEF StackOk
<1>2. Len(s) \in Nat \ {0}
  BY <1>1, FrontIs
<1>3. u \in Seq(Records) /\ Len(u) = Len(s)
  BY <1>1, BecomeIs
<1>4. \A k \in 1 .. Len(s) : u[k] = IF k = Len(s) THEN r ELSE s[k]
  BY <1>1, BecomeIs
<1> HIDE DEF u
<1>5. \A k \in 1 .. Len(s) : Below(u, k) = Below(s, k)
  BY <1>2, <1>4 DEF Below
<1>6. \A k \in 1 .. Len(s) : RecOk(v, s[k], Below(s, k), k, k = Len(s))
  BY DEF StackOk
<1>7. ASSUME NEW k \in 1 .. Len(s) PROVE RecOk(v, u[k], Below(u, k), k, k = Len(s))
  <2>1. CASE k = Len(s)
    BY <1>4, <1>5, <2>1
  <2>2. CASE k # Len(s)
    BY <1>4, <1>5, <1>6, <2>2
  <2> QED
    BY <2>1, <2>2
<1> QED
  BY <1>3, <1>7 DEF StackOk, u

LEMMA StackCalls ==
  ASSUME NEW v, NEW s, StackOk(v, s), s # <<>>, NEW r, NEW c,
         RecOk(v, r, Below(s, Len(s)), Len(s), FALSE), RecOk(v, c, r, Len(s) + 1, TRUE)
  PROVE  StackOk(v, Front(s) \o <<r, c>>)
<1> DEFINE u == Front(s) \o <<r, c>>
<1>1. s \in Seq(Records) /\ r \in Records /\ c \in Records
  BY RecIs DEF StackOk
<1>2. PICK n \in Nat : n = Len(s) /\ n # 0
  BY <1>1, FrontIs
<1>3. u \in Seq(Records) /\ Len(u) = n + 1
  <2> DEFINE f == Front(s)
  <2>1. f \in Seq(Records) /\ Len(f) = n - 1
    BY <1>1, <1>2, FrontIs
  <2> HIDE DEF f
  <2>2. f \o <<r, c>> \in Seq(Records) /\ Len(f \o <<r, c>>) = Len(f) + 2
    BY <1>1, <2>1, TwoIs
  <2> QED
    BY <1>2, <2>1, <2>2 DEF f
<1>4. \A k \in 1 .. n + 1 : u[k] = IF k = n + 1 THEN c ELSE IF k = n THEN r ELSE s[k]
  BY <1>1, <1>2, CallIs
<1> HIDE DEF u
<1>5. \A k \in 1 .. n : Below(u, k) = Below(s, k)
  BY <1>2, <1>4 DEF Below
<1>6. Below(u, n + 1) = r
  BY <1>2, <1>4 DEF Below
<1>7. \A k \in 1 .. n : RecOk(v, s[k], Below(s, k), k, k = n)
  BY <1>2 DEF StackOk
<1>8. ASSUME NEW k \in 1 .. n + 1 PROVE RecOk(v, u[k], Below(u, k), k, k = n + 1)
  <2>1. CASE k = n + 1
    BY <1>2, <1>4, <1>6, <2>1
  <2>2. CASE k = n
    <3>1. u[k] = r /\ k \in 1 .. n /\ (k = n + 1) = FALSE
      BY <1>2, <1>4, <2>2
    <3> QED
      BY <1>2, <1>5, <2>2, <3>1
  <2>3. CASE k # n + 1 /\ k # n
    <3>1. k \in 1 .. n /\ u[k] = s[k] /\ (k = n + 1) = (k = n)
      BY <1>2, <1>4, <2>3
    <3> QED
      BY <1>5, <1>7, <3>1
  <2> QED
    BY <2>1, <2>2, <2>3
<1> QED
  BY <1>3, <1>8 DEF StackOk, u

LEMMA StackReturns ==
  ASSUME NEW v, NEW s, StackOk(v, s), Len(s) > 1, NEW r,
         RecOk(v, r, Below(s, Len(s) - 1), Len(s) - 1, TRUE)
  PROVE  StackOk(v, Append(Front(Front(s)), r))
<1> DEFINE f == Front(s)
           u == Append(Front(f), r)
<1>1. s \in Seq(Records) /\ r \in Records
  BY RecIs DEF StackOk
<1>2. PICK n \in Nat \ {0} : n = Len(s) - 1
  BY <1>1, LenProperties
<1>3. s # <<>> /\ Len(s) = n + 1
  BY <1>1, <1>2, LenProperties, EmptySeq
<1>4. f \in Seq(Records) /\ Len(f) = n /\ \A k \in 1 .. n : f[k] = s[k]
  BY <1>1, <1>2, <1>3, FrontIs
<1>5. f # <<>>
  BY <1>2, <1>4, EmptySeq
<1>6. u \in Seq(Records) /\ Len(u) = n
  BY <1>1, <1>4, <1>5, BecomeIs
<1>7. \A k \in 1 .. n : u[k] = IF k = n THEN r ELSE f[k]
  BY <1>1, <1>4, <1>5, BecomeIs
<1> HIDE DEF u, f
<1>8. \A k \in 1 .. n : Below(u, k) = Below(s, k)
  BY <1>2, <1>4, <1>7 DEF Below
<1>9. \A k \in 1 .. n + 1 : RecOk(v, s[k], Below(s, k), k, k = n + 1)
  BY <1>3 DEF StackOk
<1>10. RecOk(v, r, Below(s, n), n, TRUE)
  BY <1>2, <1>3
<1>11. ASSUME NEW k \in 1 .. n PROVE RecOk(v, u[k], Below(u, k), k, k = n)
  <2>1. CASE k = n
    BY <1>7, <1>8, <1>10, <2>1
  <2>2. CASE k # n
    <3>1. u[k] = s[k] /\ k \in 1 .. n + 1 /\ (k = n + 1) = (k = n)
      BY <1>2, <1>4, <1>7, <2>2
    <3> QED
      BY <1>8, <1>9, <3>1
  <2> QED
    BY <2>1, <2>2
<1> QED
  BY <1>6, <1>11 DEF StackOk, u, f

LEMMA StackCallback ==
  ASSUME NEW v, NEW s, StackOk(v, s), Len(s) > 1, NEW r, NEW c,
         RecOk(v, r, Below(s, Len(s) - 1), Len(s) - 1, FALSE), RecOk(v, c, r, Len(s), TRUE)
  PROVE  StackOk(v, SubSeq(s, 1, Len(s) - 2) \o <<r, c>>)
<1> DEFINE u == SubSeq(s, 1, Len(s) - 2) \o <<r, c>>
<1>1. s \in Seq(Records) /\ r \in Records /\ c \in Records
  BY RecIs DEF StackOk
<1>2. PICK n \in Nat \ {0} : n = Len(s) - 1
  BY <1>1, LenProperties
<1>3. Len(s) = n + 1
  BY <1>1, <1>2, LenProperties
<1>4. u \in Seq(Records) /\ Len(u) = n + 1
  BY <1>1, <1>3, CallbackIs
<1>5. \A k \in 1 .. n + 1 : u[k] = IF k = n + 1 THEN c ELSE IF k = n THEN r ELSE s[k]
  <2>1. \A k \in 1 .. Len(s) : u[k] = IF k = Len(s) THEN c ELSE IF k = Len(s) - 1 THEN r ELSE s[k]
    BY <1>1, CallbackIs
  <2> HIDE DEF u
  <2> QED
    BY <1>2, <1>3, <2>1
<1> HIDE DEF u
<1>6. \A k \in 1 .. n : Below(u, k) = Below(s, k)
  BY <1>2, <1>5 DEF Below
<1>7. Below(u, n + 1) = r
  BY <1>2, <1>5 DEF Below
<1>8. \A k \in 1 .. n + 1 : RecOk(v, s[k], Below(s, k), k, k = n + 1)
  BY <1>3 DEF StackOk
<1>9. RecOk(v, r, Below(s, n), n, FALSE) /\ RecOk(v, c, r, n + 1, TRUE)
  BY <1>2, <1>3
<1>10. ASSUME NEW k \in 1 .. n + 1 PROVE RecOk(v, u[k], Below(u, k), k, k = n + 1)
  <2>1. CASE k = n + 1
    BY <1>5, <1>7, <1>9, <2>1
  <2>2. CASE k = n
    <3>1. u[k] = r /\ k \in 1 .. n /\ (k = n + 1) = FALSE
      BY <1>2, <1>5, <2>2
    <3> QED
      BY <1>6, <1>9, <2>2, <3>1
  <2>3. CASE k # n + 1 /\ k # n
    <3>1. k \in 1 .. n /\ u[k] = s[k] /\ (k = n + 1) = FALSE /\ k # n + 1
      BY <1>2, <1>5, <2>3
    <3> QED
      BY <1>6, <1>8, <3>1
  <2> QED
    BY <2>1, <2>2, <2>3
<1> QED
  BY <1>4, <1>10 DEF StackOk, u

-----------------------------------------------------------------------------
(* Taking out of $OrphanFiles what one of its directories leads to.        *)
DedupAt(s, i, subdirs) == IF i <= Len(s) /\ s[i] \in subdirs THEN Without(s, i) ELSE s

\* What is left is of the same inodes, and has all but those of subdirs.
Keeps(S, found, subdirs, s) == s \in Seq(S) /\ Range(found) \ subdirs \subseteq Range(s)

LEMMA WithoutIs ==
  ASSUME NEW S, NEW s \in Seq(S), NEW i \in 1 .. Len(s)
  PROVE  Without(s, i) \in Seq(S) /\ Range(s) \ {s[i]} \subseteq Range(Without(s, i))
<1>1. /\ Len(s) \in Nat \ {0} /\ s # <<>> /\ DOMAIN s = 1 .. Len(s)
      /\ \A k \in 1 .. Len(s) : s[k] \in S
  BY LenProperties, EmptySeq, ElementOfSeq
<1> DEFINE n == Len(s)
           x == Last(s)
           q == [s EXCEPT ![i] = x]
           u == Front(q)
<1>2. x \in S /\ x = s[n]
  BY <1>1, FrontIs
<1> HIDE DEF x
<1>3. /\ q \in Seq(S) /\ Len(q) = n
      /\ \A k \in 1 .. n : q[k] = IF k = i THEN x ELSE s[k]
  BY <1>1, <1>2, ExceptSeq
<1> HIDE DEF q
<1>4. q # <<>>
  BY <1>1, <1>3, EmptySeq
<1>5. u \in Seq(S) /\ Len(u) = n - 1 /\ \A k \in 1 .. n - 1 : u[k] = q[k]
  BY <1>3, <1>4, FrontIs
<1> HIDE DEF u
<1>6. DOMAIN u = 1 .. n - 1
  BY <1>5, LenProperties
<1>7. Range(s) = {s[k] : k \in 1 .. n} /\ n \in Nat \ {0} /\ i \in 1 .. n
  BY <1>1 DEF Range
<1> HIDE DEF n
<1>8. ASSUME NEW k \in 1 .. n, s[k] # s[i] PROVE s[k] \in Range(u)
  <2>1. CASE k # n
    <3>1. k \in 1 .. n - 1
      BY <1>7, <2>1
    <3>2. q[k] = s[k]
      BY <1>3, <1>8
    <3>3. u[k] = s[k]
      BY <1>5, <3>1, <3>2
    <3> QED
      BY <1>6, <3>1, <3>3 DEF Range
  <2>2. CASE k = n
    <3>1. i \in 1 .. n - 1
      BY <1>7, <1>8, <2>2
    <3>2. u[i] = s[k]
      BY <1>2, <1>3, <1>5, <2>2, <3>1
    <3> QED
      BY <1>6, <3>1, <3>2 DEF Range
  <2> QED
    BY <2>1, <2>2
<1>9. Without(s, i) = u
  BY DEF Without, u, q, x
<1> QED
  BY <1>5, <1>8, <1>7, <1>9

LEMMA DedupAtIs ==
  ASSUME NEW S, NEW found, NEW subdirs, NEW s, Keeps(S, found, subdirs, s), NEW i \in Nat \ {0}
  PROVE  Keeps(S, found, subdirs, DedupAt(s, i, subdirs))
<1>1. s \in Seq(S) /\ Len(s) \in Nat
  BY LenProperties DEF Keeps
<1>2. CASE i <= Len(s) /\ s[i] \in subdirs
  <2>1. i \in 1 .. Len(s)
    BY <1>1, <1>2
  <2>2. Without(s, i) \in Seq(S) /\ Range(s) \ {s[i]} \subseteq Range(Without(s, i))
    BY <1>1, <2>1, WithoutIs
  <2> QED
    BY <1>2, <2>2 DEF Keeps, DedupAt
<1>3. CASE ~(i <= Len(s) /\ s[i] \in subdirs)
  BY <1>3 DEF DedupAt
<1> QED
  BY <1>2, <1>3

\* The first m rounds of the loop.
Rounds(found, subdirs, m, g) ==
  g = [i \in 0 .. m |-> IF i = 0 THEN found ELSE DedupAt(g[i - 1], i, subdirs)]

LEMMA RoundsExist ==
  ASSUME NEW found, NEW subdirs, NEW m \in Nat
  PROVE  \E g : Rounds(found, subdirs, m, g)
<1> DEFINE Bad == {k \in Nat : ~\E g : Rounds(found, subdirs, k, g)}
<1>1. SUFFICES ASSUME Bad # {} PROVE FALSE
  OBVIOUS
<1>2. PICK n \in Bad : \A k \in Bad : n <= k
  <2>1. Bad \subseteq Nat
    OBVIOUS
  <2> HIDE DEF Bad
  <2> QED
    BY <1>1, <2>1, LeastNat
<1>3. CASE n = 0
  <2> DEFINE h == [i \in 0 .. 0 |-> found]
  <2>1. h = [i \in 0 .. 0 |-> IF i = 0 THEN found ELSE DedupAt(h[i - 1], i, subdirs)]
    OBVIOUS
  <2>2. Rounds(found, subdirs, 0, h)
    BY <2>1 DEF Rounds
  <2> QED
    BY <1>3, <2>2
<1>4. CASE n # 0
  <2>1. n - 1 \in Nat /\ n - 1 \notin Bad
    BY <1>2, <1>4
  <2>2. PICK g : Rounds(found, subdirs, n - 1, g)
    BY <2>1
  <2> DEFINE Next1(i, f) == IF i = 0 THEN found ELSE DedupAt(f[i - 1], i, subdirs)
             h == [i \in 0 .. n |-> IF i < n THEN g[i] ELSE DedupAt(g[n - 1], n, subdirs)]
  <2>3. \A i \in 0 .. n - 1 : g[i] = Next1(i, g)
    BY <2>2, Zenon DEF Rounds
  <2>4. \A i \in 0 .. n : h[i] = Next1(i, h)
    <3> TAKE i \in 0 .. n
    <3>1. CASE i < n
      <4>1. i \in 0 .. n - 1 /\ h[i] = g[i] /\ (i # 0 => h[i - 1] = g[i - 1])
        BY <1>2, <3>1
      <4>2. g[i] = Next1(i, g)
        BY <2>3, <4>1
      <4> HIDE DEF h
      <4> QED
        BY <4>1, <4>2
    <3>2. CASE i = n
      <4>1. h[i] = DedupAt(g[n - 1], n, subdirs) /\ h[i - 1] = g[n - 1]
        BY <1>2, <1>4, <3>2
      <4> HIDE DEF h
      <4> QED
        BY <1>4, <3>2, <4>1
    <3> QED
      BY <1>2, <3>1, <3>2
  <2>5. h = [i \in 0 .. n |-> h[i]]
    OBVIOUS
  <2> HIDE DEF h
  <2>6. Rounds(found, subdirs, n, h)
    BY <2>4, <2>5, Zenon DEF Rounds
  <2> QED
    BY <2>6
<1> QED
  BY <1>3, <1>4

LEMMA DedupIs ==
  ASSUME NEW S, NEW found \in Seq(S), NEW subdirs
  PROVE  Keeps(S, found, subdirs, Dedup(found, subdirs))
<1> DEFINE n == Len(found)
           w == CHOOSE g : Rounds(found, subdirs, n, g)
<1>1. n \in Nat
  BY LenProperties
<1>2. Rounds(found, subdirs, n, w)
  <2> HIDE DEF n
  <2> QED
    BY <1>1, RoundsExist
<1>3. Dedup(found, subdirs) = w[n]
  BY DEF Dedup, Rounds, DedupAt
<1> HIDE DEF w, n
<1>4. \A i \in 0 .. n : w[i] = IF i = 0 THEN found ELSE DedupAt(w[i - 1], i, subdirs)
  BY <1>2, Zenon DEF Rounds
<1> DEFINE Bad == {i \in 0 .. n : ~Keeps(S, found, subdirs, w[i])}
<1>5. Bad = {}
  <2>1. SUFFICES ASSUME Bad # {} PROVE FALSE
    OBVIOUS
  <2>2. PICK i \in Bad : \A k \in Bad : i <= k
    <3>1. Bad \subseteq Nat
      BY <1>1
    <3> HIDE DEF Bad
    <3> QED
      BY <2>1, <3>1, LeastNat
  <2>3. CASE i = 0
    <3>1. w[i] = found
      BY <1>1, <1>4, <2>3
    <3> QED
      BY <2>2, <3>1 DEF Keeps
  <2>4. CASE i # 0
    <3>1. i \in 0 .. n /\ i - 1 \in 0 .. n /\ i - 1 \notin Bad /\ i \in Nat \ {0}
      BY <1>1, <2>2, <2>4
    <3>2. w[i] = DedupAt(w[i - 1], i, subdirs) /\ Keeps(S, found, subdirs, w[i - 1])
      BY <1>4, <2>4, <3>1
    <3> QED
      BY <2>2, <3>1, <3>2, DedupAtIs
  <2> QED
    BY <2>3, <2>4
<1>6. n \in 0 .. n
  BY <1>1
<1> QED
  BY <1>3, <1>5, <1>6

-----------------------------------------------------------------------------
(* What holds in every state.  AllWalkable is the condition on the file    *)
(* systems, which the code does not enforce: no name below the root leads  *)
(* back to it (fs_dir.c:638) and no path comes to the limits of a walk     *)
(* (682).  Each of the theorems has it as its hypothesis;                  *)
(* DirWalk_back_to_root.cfg and DirWalk_long_path.cfg show that they need  *)
(* it.                                                                     *)
AllWalkable == \A v \in Volumes : Walkable(v)

Vol == FileSystems[fs]

ResultOk(v, x) ==
  \/ x = NoResult
  \/ x \in OpenResult
  \/ /\ x \in WalkResult
     /\ ~x.err /\ x.asked = "cont" /\ x.flags.recurse =>
          Beneath(v, Root, {}) \subseteq Shown(x.flags, x.shown)

WalksOk ==
  /\ fs \in DOMAIN FileSystems
  /\ stack \in [Threads -> Seq(Records)] /\ \A t \in Threads : StackOk(Vol, stack[t])
  /\ DOMAIN result = Threads /\ result = [t \in Threads |-> result[t]]
  /\ \A t \in Threads : ResultOk(Vol, result[t])
  /\ orphan_dir # NULL => orphan_dir \in Seq(Gone(Vol))

(* The running record. *)
LEMMA TopIs ==
  ASSUME WalksOk, AllWalkable, NEW t \in Threads, NEW fn, NEW pc, Running(t, fn, pc)
  PROVE  /\ Vol \in Volumes /\ Vol = FileSystems[fs] /\ fs \in DOMAIN FileSystems
         /\ Walkable(Vol) /\ NoWayBack(Vol)
         /\ stack[t] # <<>> /\ StackOk(Vol, stack[t]) /\ stack[t] \in Seq(Records)
         /\ Len(stack[t]) \in Nat /\ Len(stack[t]) # 0
         /\ Me(t) = stack[t][Len(stack[t])] /\ Me(t).fn = fn /\ Me(t).pc = pc
         /\ RecOk(Vol, Me(t), Below(stack[t], Len(stack[t])), Len(stack[t]), TRUE)
<1>1. Vol \in Volumes /\ Vol = FileSystems[fs] /\ fs \in DOMAIN FileSystems
  BY DEF WalksOk, Vol, Volumes
<1>2. Walkable(Vol) /\ NoWayBack(Vol)
  BY <1>1 DEF AllWalkable, Walkable
<1>3. stack[t] # <<>> /\ StackOk(Vol, stack[t]) /\ Me(t).fn = fn /\ Me(t).pc = pc
  BY DEF WalksOk, Running, Me
<1> DEFINE s == stack[t]
<1>4. s \in Seq(Records)
  BY <1>3 DEF StackOk
<1>5. Me(t) = Last(s)
  BY DEF Me
<1> HIDE DEF s
<1>6. Len(s) \in Nat /\ Len(s) # 0 /\ Me(t) = s[Len(s)]
  BY <1>3, <1>4, <1>5, FrontIs DEF s
<1>7. Len(s) \in 1 .. Len(s)
  BY <1>6
<1>8. RecOk(Vol, s[Len(s)], Below(s, Len(s)), Len(s), TRUE)
  <2>1. RecOk(Vol, s[Len(s)], Below(s, Len(s)), Len(s), Len(s) = Len(s))
    BY <1>3, <1>7 DEF StackOk, s
  <2>2. (Len(s) = Len(s)) = TRUE
    OBVIOUS
  <2> QED
    BY <2>1, <2>2
<1> QED
  BY <1>1, <1>2, <1>3, <1>4, <1>6, <1>8 DEF s

(* The record below it. *)
LEMMA CallerIs ==
  ASSUME WalksOk, NEW t \in Threads, stack[t] # <<>>, Len(stack[t]) # 1
  PROVE  LET s == stack[t] n == Len(s) - 1
         IN  /\ Len(s) > 1 /\ n \in Nat /\ n # 0 /\ Below(s, Len(s)) = s[n]
             /\ RecOk(Vol, s[n], Below(s, n), n, FALSE)
<1> DEFINE s == stack[t]
<1>1. StackOk(Vol, s) /\ s \in Seq(Records)
  BY DEF WalksOk, StackOk
<1> HIDE DEF s
<1>2. Len(s) \in Nat /\ Len(s) # 0 /\ Len(s) # 1
  BY <1>1, EmptySeq, LenProperties DEF s
<1>3. PICK m \in Nat : m = Len(s)
  BY <1>2
<1> DEFINE n == m - 1
<1>4. m > 1 /\ n \in Nat /\ n # 0 /\ n \in 1 .. m /\ (n = m) = FALSE
  BY <1>2, <1>3
<1>5. RecOk(Vol, s[n], Below(s, n), n, n = m)
  BY <1>1, <1>3, <1>4 DEF StackOk
<1>6. Below(s, Len(s)) = s[n]
  BY <1>3, <1>4 DEF Below
<1> QED
  BY <1>3, <1>4, <1>5, <1>6 DEF s

(* A step of a thread within its stack. *)
LEMMA StackKept ==
  ASSUME WalksOk, NEW t \in Threads, NEW s, StackOk(Vol, s),
         stack' = [stack EXCEPT ![t] = s], UNCHANGED <<fs, orphan_dir, result>>
  PROVE  WalksOk'
<1>1. s \in Seq(Records)
  BY DEF StackOk
<1>2. stack' \in [Threads -> Seq(Records)]
  BY <1>1 DEF WalksOk
<1>3. \A u \in Threads : stack'[u] = IF u = t THEN s ELSE stack[u]
  BY DEF WalksOk
<1>4. Vol' = Vol
  BY DEF Vol
<1>5. \A u \in Threads : StackOk(Vol, stack'[u])
  BY <1>3 DEF WalksOk
<1>6. \A u \in Threads : ResultOk(Vol, result'[u])
  BY DEF WalksOk
<1> QED
  BY <1>2, <1>4, <1>5, <1>6 DEF WalksOk

LEMMA BecomeKept ==
  ASSUME WalksOk, NEW t \in Threads, stack[t] # <<>>, NEW r, Become(t, r),
         RecOk(Vol, r, Below(stack[t], Len(stack[t])), Len(stack[t]), TRUE),
         UNCHANGED <<fs, orphan_dir, result>>
  PROVE  WalksOk'
<1> DEFINE s == stack[t]
<1>1. StackOk(Vol, s)
  BY DEF WalksOk
<1>2. StackOk(Vol, Append(Front(s), r))
  BY <1>1, StackBecomes
<1>3. stack' = [stack EXCEPT ![t] = Append(Front(s), r)]
  BY DEF Become
<1> QED
  BY <1>2, <1>3, StackKept

LEMMA CallKept ==
  ASSUME WalksOk, NEW t \in Threads, stack[t] # <<>>, NEW r, NEW c, Call(t, r, c),
         RecOk(Vol, r, Below(stack[t], Len(stack[t])), Len(stack[t]), FALSE),
         RecOk(Vol, c, r, Len(stack[t]) + 1, TRUE),
         UNCHANGED <<fs, orphan_dir, result>>
  PROVE  WalksOk'
<1> DEFINE s == stack[t]
<1>1. StackOk(Vol, s)
  BY DEF WalksOk
<1>2. StackOk(Vol, Front(s) \o <<r, c>>)
  BY <1>1, StackCalls
<1>3. stack' = [stack EXCEPT ![t] = Front(s) \o <<r, c>>]
  BY DEF Call
<1> QED
  BY <1>2, <1>3, StackKept

LEMMA ReturnKept ==
  ASSUME WalksOk, NEW t \in Threads, stack[t] # <<>>, NEW value, Return(t, value),
         Len(stack[t]) = 1 => ResultOk(Vol, value),
         Len(stack[t]) # 1 =>
           RecOk(Vol, [stack[t][Len(stack[t]) - 1] EXCEPT !.got = value],
                 Below(stack[t], Len(stack[t]) - 1), Len(stack[t]) - 1, TRUE),
         fs' = fs, orphan_dir' # NULL => orphan_dir' \in Seq(Gone(Vol))
  PROVE  WalksOk'
<1> DEFINE s == stack[t]
           f == Front(s)
<1>1. StackOk(Vol, s) /\ s \in Seq(Records)
  BY DEF WalksOk, StackOk
<1>2. f \in Seq(Records) /\ (f = <<>> <=> Len(s) = 1)
  BY <1>1, FrontIs
<1>3. PICK u, x : /\ StackOk(Vol, u) /\ stack' = [stack EXCEPT ![t] = u]
                  /\ ResultOk(Vol, x) /\ result' = [result EXCEPT ![t] = x]
  <2>1. CASE f = <<>>
    <3>1. stack' = [stack EXCEPT ![t] = <<>>] /\ result' = [result EXCEPT ![t] = value]
      BY <2>1 DEF Return
    <3>2. StackOk(Vol, <<>>)
      BY DEF StackOk
    <3>3. ResultOk(Vol, value)
      BY <1>2, <2>1
    <3> QED
      BY <3>1, <3>2, <3>3
  <2>2. CASE f # <<>>
    <3> DEFINE r == [Last(f) EXCEPT !.got = value]
    <3>1. stack' = [stack EXCEPT ![t] = Append(Front(f), r)] /\ result' = result
      BY <2>2 DEF Return
    <3>2. Len(s) # 1 /\ s # <<>>
      BY <1>2, <2>2
    <3>3. Last(f) = s[Len(s) - 1] /\ Len(s) > 1
      <4>1. PICK n \in Nat : n = Len(s) /\ n # 0 /\ n # 1
        BY <1>1, <3>2, FrontIs
      <4>2. Len(f) = n - 1 /\ \A k \in 1 .. n - 1 : f[k] = s[k]
        BY <1>1, <4>1, FrontIs
      <4> HIDE DEF s, f
      <4>3. Last(f) = f[n - 1]
        BY <4>2, Zenon DEF Last
      <4>4. n - 1 \in 1 .. n - 1 /\ n > 1
        BY <4>1
      <4>5. Last(f) = s[n - 1]
        BY <4>2, <4>3, <4>4
      <4> QED
        BY <4>1, <4>5, <4>4
    <3>4. RecOk(Vol, r, Below(s, Len(s) - 1), Len(s) - 1, TRUE)
      BY <3>2, <3>3
    <3>5. StackOk(Vol, Append(Front(f), r))
      BY <1>1, <3>3, <3>4, StackReturns
    <3>6. result' = [result EXCEPT ![t] = result[t]] /\ ResultOk(Vol, result[t])
      BY <3>1 DEF WalksOk
    <3> HIDE DEF r
    <3> QED
      BY <3>1, <3>5, <3>6
  <2> QED
    BY <2>1, <2>2
<1>4. u \in Seq(Records) /\ Vol' = Vol
  BY <1>3 DEF StackOk, Vol
<1>5. stack' \in [Threads -> Seq(Records)]
  BY <1>3, <1>4 DEF WalksOk
<1>6. \A v \in Threads : stack'[v] = IF v = t THEN u ELSE stack[v]
  BY <1>3 DEF WalksOk
<1>7. \A v \in Threads : StackOk(Vol, stack'[v])
  BY <1>3, <1>6 DEF WalksOk
<1>8. \A v \in Threads : result'[v] = IF v = t THEN x ELSE result[v]
  BY <1>3 DEF WalksOk
<1>9. \A v \in Threads : ResultOk(Vol, result'[v])
  BY <1>3, <1>8 DEF WalksOk
<1>10. DOMAIN result' = Threads /\ result' = [v \in Threads |-> result'[v]]
  BY <1>3 DEF WalksOk
<1> QED
  BY <1>4, <1>5, <1>7, <1>9, <1>10 DEF WalksOk

-----------------------------------------------------------------------------
(* The steps of the walks.                                                 *)
Depth(t) == Len(stack[t])

Caller(t) == Below(stack[t], Len(stack[t]))

LEMMA WalkIs ==
  ASSUME WalksOk, AllWalkable, NEW t \in Threads, NEW pc, Running(t, "walk", pc)
  PROVE  /\ Me(t) \in WalkRec /\ Me(t).pc = pc
         /\ WalkOk(Vol, Me(t), Caller(t), Depth(t), TRUE)
         /\ Walking(Vol, Start(Me(t), Caller(t)), Me(t))
         /\ Start(Me(t), Caller(t)) \in DOMAIN Vol.meta
         /\ stack[t] # <<>> /\ Vol \in Volumes /\ Walkable(Vol) /\ NoWayBack(Vol)
         /\ Vol = FileSystems[fs] /\ fs \in DOMAIN FileSystems
         /\ Depth(t) \in Nat /\ Depth(t) # 0
<1> DEFINE w == Me(t)
           b == Caller(t)
<1>1. /\ stack[t] # <<>> /\ Vol \in Volumes /\ Walkable(Vol) /\ NoWayBack(Vol)
      /\ w.fn = "walk" /\ w.pc = pc /\ RecOk(Vol, w, b, Depth(t), TRUE)
      /\ Vol = FileSystems[fs] /\ fs \in DOMAIN FileSystems
      /\ Depth(t) \in Nat /\ Depth(t) # 0
  BY TopIs DEF Caller, Depth
<1> HIDE DEF w, b
<1>2. w \in WalkRec /\ WalkOk(Vol, w, b, Depth(t), TRUE)
  BY <1>1, RecIs
<1>3. Walking(Vol, Start(w, b), w)
  BY <1>2 DEF WalkOk
<1>4. Start(w, b) \in DOMAIN Vol.meta
  <2>1. CASE w.cb = "orphan"
    <3>1. Depth(t) # 1 /\ b.found # <<>>
      BY <1>2, <2>1 DEF WalkOk
    <3>2. RecOk(Vol, b, Below(stack[t], Depth(t) - 1), Depth(t) - 1, FALSE)
      BY <1>1, <3>1, CallerIs DEF b, Caller, Depth
    <3>3. b \in FindRec
      BY <1>2, <2>1 DEF WalkOk
    <3>4. b.found \in Seq(Gone(Vol))
      <4>1. b.fn = "find_orphans"
        BY <3>3 DEF FindRec
      <4>2. FindOk(Vol, b, Below(stack[t], Depth(t) - 1), Depth(t) - 1, FALSE)
        BY <3>2, <4>1, RecIs
      <4> QED
        BY <4>2 DEF FindOk
    <3>5. Last(b.found) \in Gone(Vol)
      BY <3>1, <3>4, FrontIs
    <3> QED
      BY <2>1, <3>5 DEF Start, Gone
  <2>2. CASE w.cb # "orphan"
    BY <1>1, <2>2, VolumeIs DEF Start
  <2> QED
    BY <2>1, <2>2
<1> QED
  BY <1>1, <1>2, <1>3, <1>4 DEF w, b

LEMMA WalkMoves ==
  ASSUME NEW v, NEW w \in WalkRec, NEW b, NEW k, WalkOk(v, w, b, k, TRUE), w.pc # "end",
         NEW r \in WalkRec, r.cb = w.cb, r.flags = w.flags, r.shown = w.shown,
         r.asked = w.asked, r.pc \in {"open", "names", "end"},
         r.pc = "end" => r.ret \in {"cont", "error"}, Walking(v, Start(w, b), r),
         \A X : Covered(v, Start(w, b), w, X) => Covered(v, Start(w, b), r, X)
  PROVE  RecOk(v, r, b, k, TRUE)
<1>1. Start(r, b) = Start(w, b)
  BY DEF Start
<1>2. Tells(v, r)
  <2> SUFFICES ASSUME r.cb = "user", r.asked = "cont", r.flags.recurse
               PROVE  /\ r.pc = "end" => r.ret # "stop"
                      /\ Covered(v, Root, r, Shown(r.flags, r.shown))
    BY DEF Tells
  <2>1. Start(w, b) = Root
    BY DEF Start
  <2>2. Covered(v, Root, w, Shown(w.flags, w.shown))
    BY DEF WalkOk, Tells
  <2> QED
    BY <2>1, <2>2
<1> QED
  BY <1>1, <1>2 DEF RecOk, WalkOk, Rets

LEMMA BeginWalkOk ==
  ASSUME WalksOk, AllWalkable, NEW t \in Threads, BeginWalk(t)
  PROVE  WalksOk'
<1> DEFINE w == Me(t)
           b == Caller(t)
           saving == list_inum_named = {} /\ w.target = Root /\ w.flags.recurse
           r == [w EXCEPT !.pc = "open", !.saving = saving]
<1>1. Running(t, "walk", "begin") /\ Become(t, r) /\ UNCHANGED <<fs, orphan_dir, result>>
  BY DEF BeginWalk
<1>2. /\ w \in WalkRec /\ w.pc = "begin" /\ WalkOk(Vol, w, b, Depth(t), TRUE)
      /\ Walking(Vol, Start(w, b), w) /\ stack[t] # <<>>
  BY <1>1, WalkIs
<1> HIDE DEF w, b
<1>3. saving \in BOOLEAN
  <2>1. w.flags.recurse \in BOOLEAN
    BY <1>2 DEF WalkRec, Flags
  <2> QED
    BY <2>1
<1> HIDE DEF saving
<1>4. /\ r \in WalkRec /\ r.cb = w.cb /\ r.flags = w.flags /\ r.shown = w.shown
      /\ r.asked = w.asked /\ r.pc = "open" /\ r.path = w.path /\ r.seen = w.seen
      /\ r.target = w.target
  BY <1>2, <1>3 DEF WalkRec
<1> HIDE DEF r
<1>5. Walking(Vol, Start(w, b), r)
  BY <1>2, <1>4 DEF Walking
<1>6. \A X : Covered(Vol, Start(w, b), w, X) => Covered(Vol, Start(w, b), r, X)
  BY <1>2, <1>4 DEF Covered
<1>7. RecOk(Vol, r, b, Depth(t), TRUE)
  BY <1>2, <1>4, <1>5, <1>6, WalkMoves
<1> QED
  BY <1>1, <1>2, <1>7, BecomeKept DEF b, Caller, Depth

\* A directory that does not open, or is left.
LEMMA LeftMoves ==
  ASSUME NEW v, NEW w \in WalkRec, NEW b, NEW k, WalkOk(v, w, b, k, TRUE), w.pc # "end",
         NEW path, NEW ret \in {"cont", "error"}, NEW r \in WalkRec,
         Left(w, path, ret, r), Walking(v, Start(w, b), r),
         \A X : Covered(v, Start(w, b), w, X) => Covered(v, Start(w, b), r, X)
  PROVE  RecOk(v, r, b, k, TRUE)
<1>1. Kept(w, r) /\ r.pc \in {"names", "end"} /\ (r.pc = "end" => r.ret = ret)
  BY DEF Left
<1>2. r.cb = w.cb /\ r.flags = w.flags /\ r.shown = w.shown /\ r.asked = w.asked
  BY <1>1 DEF Kept
<1> QED
  BY <1>1, <1>2, WalkMoves

LEMMA OpenDirOk ==
  ASSUME WalksOk, AllWalkable, NEW t \in Threads, OpenDir(t)
  PROVE  WalksOk'
<1> DEFINE w == Me(t)
           b == Caller(t)
           a == Start(w, b)
           opened == Into(w, Names(w.target))
           r == IF Readable(w.target) THEN opened ELSE Leave(w, w.path, "error")
<1>1. /\ Running(t, "walk", "open") /\ w.target # OrphanDir /\ Become(t, r)
      /\ UNCHANGED <<fs, orphan_dir, result>>
  BY DEF OpenDir, Into
<1>2. /\ w \in WalkRec /\ w.pc = "open" /\ WalkOk(Vol, w, b, Depth(t), TRUE)
      /\ Walking(Vol, a, w) /\ stack[t] # <<>> /\ Vol \in Volumes /\ Vol = FileSystems[fs]
  BY <1>1, WalkIs
<1> HIDE DEF w, b
<1>3. RecOk(Vol, r, b, Depth(t), TRUE)
  <2>1. CASE Readable(w.target)
    <3> DEFINE d == w.target
    <3>1. d \in DOMAIN Vol.names \ Vol.unreadable
      BY <1>2, <2>1 DEF Readable
    <3>2. Vol.names[d] \in Seq(NameRec) /\ OrphanName \in NameRec
      BY <1>2, <3>1, NamesIs
    <3>3. Names(d) = Vol.names[d] \o (IF d = Root THEN <<OrphanName>> ELSE <<>>)
      BY <1>2 DEF Names
    <3>4. Names(d) \in Seq(NameRec)
      <4>1. (IF d = Root THEN <<OrphanName>> ELSE <<>>) \in Seq(NameRec)
        BY <3>2
      <4> QED
        BY <3>2, <3>3, <4>1, ConcatProperties
    <3>5. EntriesOf(Vol, d, Frame(Names(d)))
      BY <1>1, <3>1, <3>3 DEF EntriesOf, Frame
    <3>6. /\ opened \in WalkRec /\ Kept(w, opened) /\ opened.pc = "names"
          /\ Walking(Vol, a, opened)
          /\ \A X : Covered(Vol, a, w, X) => Covered(Vol, a, opened, X)
      <4> HIDE DEF d, a
      <4> QED
        BY <1>2, <3>4, <3>5, OpenedIs DEF d, a
    <3> HIDE DEF opened, a
    <3>7. /\ opened.cb = w.cb /\ opened.flags = w.flags /\ opened.shown = w.shown
          /\ opened.asked = w.asked
      BY <3>6 DEF Kept
    <3> QED
      BY <1>2, <2>1, <3>6, <3>7, WalkMoves DEF a
  <2>2. CASE ~Readable(w.target)
    <3> DEFINE u == Leave(w, w.path, "error")
    <3>1. w.target \notin DOMAIN Vol.names \ Vol.unreadable
      BY <1>2, <2>2 DEF Readable
    <3>2. /\ u \in WalkRec /\ Left(w, w.path, "error", u) /\ Walking(Vol, a, u)
          /\ \A X : Covered(Vol, a, w, X) => Covered(Vol, a, u, X)
      BY <1>2, <3>1, UnreadIs
    <3> HIDE DEF u
    <3>3. RecOk(Vol, u, b, Depth(t), TRUE)
      BY <1>2, <3>2, LeftMoves
    <3> QED
      BY <2>2, <3>3 DEF u
  <2> QED
    BY <2>1, <2>2
<1> HIDE DEF r
<1> QED
  BY <1>1, <1>2, <1>3, BecomeKept DEF b, Caller, Depth

LEMMA OpenOrphanDirOk ==
  ASSUME WalksOk, AllWalkable, NEW t \in Threads, OpenOrphanDir(t)
  PROVE  WalksOk'
<1> DEFINE w == Me(t)
           b == Caller(t)
           r == [w EXCEPT !.pc = "wait"]
<1>1. /\ Running(t, "walk", "open") /\ w.target = OrphanDir /\ Call(t, r, FindOrphans)
      /\ UNCHANGED <<fs, orphan_dir, result>>
  BY DEF OpenOrphanDir
<1>2. /\ w \in WalkRec /\ w.pc = "open" /\ WalkOk(Vol, w, b, Depth(t), TRUE)
      /\ Walking(Vol, Start(w, b), w) /\ stack[t] # <<>> /\ Depth(t) \in Nat /\ Depth(t) # 0
  BY <1>1, WalkIs
<1> HIDE DEF w, b
<1>3. /\ r \in WalkRec /\ r.cb = w.cb /\ r.flags = w.flags /\ r.shown = w.shown
      /\ r.asked = w.asked /\ r.pc = "wait" /\ r.path = w.path /\ r.seen = w.seen
      /\ r.target = w.target
  BY <1>2 DEF WalkRec
<1> HIDE DEF r
<1>4. Start(r, b) = Start(w, b)
  BY <1>3 DEF Start
<1>5. Walking(Vol, Start(r, b), r)
  BY <1>2, <1>3, <1>4 DEF Walking
<1>6. Tells(Vol, r)
  BY <1>2, <1>3 DEF WalkOk, Tells, Covered
<1>7. RecOk(Vol, r, b, Depth(t), FALSE)
  BY <1>1, <1>2, <1>3, <1>5, <1>6 DEF RecOk, WalkOk
<1>8. RecOk(Vol, FindOrphans, r, Depth(t) + 1, TRUE)
  <2>1. NULL \in Got /\ <<>> \in Seq(Nat) /\ <<>> \in Seq(Gone(Vol))
    BY DEF Got
  <2>2. FindOrphans \in FindRec
    BY <2>1 DEF FindOrphans, FindRec
  <2>3. /\ FindOrphans.pc = "lock" /\ FindOrphans.found = <<>> /\ FindOrphans.todo = {}
    BY DEF FindOrphans
  <2> HIDE DEF FindOrphans
  <2> QED
    BY <1>3, <2>1, <2>2, <2>3 DEF RecOk, FindOk
<1> QED
  BY <1>1, <1>2, <1>7, <1>8, CallKept DEF b, Caller, Depth

LEMMA OrphanDirOpenedOk ==
  ASSUME WalksOk, AllWalkable, NEW t \in Threads, OrphanDirOpened(t)
  PROVE  WalksOk'
<1> DEFINE m == Me(t)
           b == Caller(t)
           got == m.got
           w == [m EXCEPT !.got = NULL]
           a == Start(w, b)
           names == [i \in DOMAIN got.names |-> OrphanEntry(got.names[i])]
           opened == Into(w, names)
           r == IF got.err THEN Leave(w, w.path, "error") ELSE opened
<1>1. /\ Running(t, "walk", "wait") /\ Become(t, r) /\ UNCHANGED <<fs, orphan_dir, result>>
  BY DEF OrphanDirOpened, Into
<1>2. /\ m \in WalkRec /\ m.pc = "wait" /\ WalkOk(Vol, m, b, Depth(t), TRUE)
      /\ Walking(Vol, Start(m, b), m) /\ stack[t] # <<>> /\ Vol \in Volumes
  BY <1>1, WalkIs
<1> HIDE DEF m, b
<1>3. m.target = OrphanDir /\ GoneNames(Vol, got)
  BY <1>2 DEF WalkOk
<1> HIDE DEF got
<1>4. /\ w \in WalkRec /\ w.cb = m.cb /\ w.flags = m.flags /\ w.shown = m.shown
      /\ w.asked = m.asked /\ w.pc = "wait" /\ w.path = m.path /\ w.seen = m.seen
      /\ w.target = OrphanDir
  BY <1>2, <1>3 DEF WalkRec, Got
<1> HIDE DEF w
<1>5. a = Start(m, b)
  BY <1>4 DEF Start
<1> HIDE DEF a
<1>6. Walking(Vol, a, w)
  BY <1>2, <1>3, <1>4, <1>5 DEF Walking
<1>7. \A X : Covered(Vol, a, m, X) => Covered(Vol, a, w, X)
  BY <1>2, <1>4 DEF Covered
<1>8. RecOk(Vol, r, b, Depth(t), TRUE)
  <2>1. CASE got.err
    <3> DEFINE u == Leave(w, w.path, "error")
    <3>2. /\ u \in WalkRec /\ Left(w, w.path, "error", u) /\ Walking(Vol, a, u)
          /\ \A X : Covered(Vol, a, w, X) => Covered(Vol, a, u, X)
      BY <1>2, <1>4, <1>6, UnreadIs
    <3> HIDE DEF u
    <3>3. /\ u.cb = m.cb /\ u.flags = m.flags /\ u.shown = m.shown /\ u.asked = m.asked
          /\ u.pc \in {"names", "end"} /\ (u.pc = "end" => u.ret = "error")
      BY <1>4, <3>2 DEF Left, Kept
    <3>4. \A X : Covered(Vol, a, m, X) => Covered(Vol, a, u, X)
      BY <1>7, <3>2
    <3>5. RecOk(Vol, u, b, Depth(t), TRUE)
      BY <1>2, <1>5, <3>2, <3>3, <3>4, WalkMoves
    <3> QED
      BY <2>1, <3>5 DEF u
  <2>2. CASE ~got.err
    <3>1. got.names \in Seq(Gone(Vol))
      BY <1>3, <2>2 DEF GoneNames
    <3>2. /\ names \in Seq(NameRec) /\ Len(names) \in Nat
          /\ \A j \in 1 .. Len(names) : \E y \in Gone(Vol) : names[j] = OrphanEntry(y)
      <4> DEFINE q == got.names
                 n == Len(q)
      <4>1. q \in Seq(Gone(Vol)) /\ n \in Nat /\ DOMAIN q = 1 .. n
        BY <3>1, LenProperties
      <4>2. \A i \in 1 .. n : q[i] \in Gone(Vol)
        BY <4>1, ElementOfSeq
      <4>3. \A y \in Gone(Vol) : OrphanEntry(y) \in NameRec
        BY <1>2, VolumeIs DEF Gone, OrphanEntry, NameRec, Kinds
      <4>4. names = [i \in 1 .. n |-> OrphanEntry(q[i])]
        BY <4>1
      <4> HIDE DEF q, n, names
      <4>5. names \in [1 .. n -> NameRec]
        BY <4>2, <4>3, <4>4
      <4>6. names \in Seq(NameRec)
        BY <4>1, <4>5, SeqDef
      <4>7. Len(names) = n
        BY <4>1, <4>5, <4>6, LenProperties
      <4> QED
        BY <4>1, <4>2, <4>4, <4>6, <4>7
    <3> HIDE DEF names
    <3>3. EntriesOf(Vol, w.target, Frame(names))
      BY <1>4, <3>2 DEF EntriesOf, Frame
    <3>4. /\ opened \in WalkRec /\ Kept(w, opened) /\ opened.pc = "names"
          /\ Walking(Vol, a, opened)
          /\ \A X : Covered(Vol, a, w, X) => Covered(Vol, a, opened, X)
      BY <1>4, <1>6, <3>2, <3>3, OpenedIs
    <3> HIDE DEF opened
    <3>5. /\ opened.cb = m.cb /\ opened.flags = m.flags /\ opened.shown = m.shown
          /\ opened.asked = m.asked
      BY <1>4, <3>4 DEF Kept
    <3>6. \A X : Covered(Vol, a, m, X) => Covered(Vol, a, opened, X)
      BY <1>7, <3>4
    <3>7. RecOk(Vol, opened, b, Depth(t), TRUE)
      BY <1>2, <1>5, <3>4, <3>5, <3>6, WalkMoves
    <3> QED
      BY <2>2, <3>7
  <2> QED
    BY <2>1, <2>2
<1> HIDE DEF r
<1> QED
  BY <1>1, <1>2, <1>8, BecomeKept DEF b, Caller, Depth

LEMMA EndDirOk ==
  ASSUME WalksOk, AllWalkable, NEW t \in Threads, EndDir(t)
  PROVE  WalksOk'
<1> DEFINE w == Me(t)
           b == Caller(t)
           r == Leave(w, Front(w.path), "cont")
<1>1. /\ Running(t, "walk", "names") /\ Last(w.path).i > Len(Last(w.path).names)
      /\ Become(t, r) /\ UNCHANGED <<fs, orphan_dir, result>>
  BY DEF EndDir
<1>2. /\ w \in WalkRec /\ w.pc = "names" /\ WalkOk(Vol, w, b, Depth(t), TRUE)
      /\ Walking(Vol, Start(w, b), w) /\ stack[t] # <<>> /\ Vol \in Volumes /\ NoWayBack(Vol)
      /\ Start(w, b) \in DOMAIN Vol.meta
  BY <1>1, WalkIs
<1> HIDE DEF w, b
<1>3. /\ r \in WalkRec /\ Left(w, Front(w.path), "cont", r) /\ Walking(Vol, Start(w, b), r)
      /\ \A X : Covered(Vol, Start(w, b), w, X) => Covered(Vol, Start(w, b), r, X)
  BY <1>1, <1>2, EndedIs
<1> HIDE DEF r
<1>4. RecOk(Vol, r, b, Depth(t), TRUE)
  BY <1>2, <1>3, LeftMoves
<1> QED
  BY <1>1, <1>2, <1>4, BecomeKept DEF b, Caller, Depth

LEMMA EndWalkOk ==
  ASSUME WalksOk, AllWalkable, NEW t \in Threads, EndWalk(t)
  PROVE  WalksOk'
<1> DEFINE w == Me(t)
           b == Caller(t)
           value == [fn |-> "walk", err |-> w.ret = "error", shown |-> w.shown,
                     asked |-> w.asked, flags |-> w.flags]
<1>1. Running(t, "walk", "end") /\ Return(t, value) /\ UNCHANGED <<fs, orphan_dir>>
  BY DEF EndWalk
<1>2. /\ w \in WalkRec /\ w.pc = "end" /\ WalkOk(Vol, w, b, Depth(t), TRUE)
      /\ stack[t] # <<>> /\ Depth(t) \in Nat /\ Depth(t) # 0
  BY <1>1, WalkIs
<1> HIDE DEF w, b
<1>3. value \in WalkResult
  <2>1. (w.ret = "error") \in BOOLEAN
    OBVIOUS
  <2> QED
    BY <1>2, <2>1 DEF WalkRec, WalkResult, Rets
<1>4. /\ value.err = (w.ret = "error") /\ value.asked = w.asked
      /\ value.flags = w.flags /\ value.shown = w.shown
  OBVIOUS
<1> HIDE DEF value
<1>5. CASE Depth(t) = 1
  <2>1. w.cb = "user" /\ w.ret \in Rets /\ Tells(Vol, w)
    BY <1>2, <1>5 DEF WalkOk
  <2>2. ASSUME ~value.err, value.asked = "cont", value.flags.recurse
        PROVE  Beneath(Vol, Root, {}) \subseteq Shown(value.flags, value.shown)
    <3>1. w.ret = "cont" /\ Covered(Vol, Root, w, Shown(w.flags, w.shown))
      BY <1>2, <1>4, <2>1, <2>2 DEF Tells, Rets
    <3> QED
      BY <1>2, <1>4, <3>1 DEF Covered
  <2>3. ResultOk(Vol, value)
    BY <1>3, <2>2 DEF ResultOk
  <2> QED
    BY <1>1, <1>2, <1>5, <2>3, ReturnKept DEF WalksOk, Vol, Depth
<1>6. CASE Depth(t) # 1
  <2> DEFINE n == Depth(t) - 1
             c == [b EXCEPT !.got = value]
  <2>1. b \in FindRec
    BY <1>2, <1>6 DEF WalkOk
  <2>2. RecOk(Vol, b, Below(stack[t], n), n, FALSE) /\ b = stack[t][n]
    BY <1>2, <1>6, CallerIs DEF b, Caller, Depth
  <2> HIDE DEF n
  <2>3. FindOk(Vol, b, Below(stack[t], n), n, FALSE)
    <3>1. b.fn = "find_orphans"
      BY <2>1 DEF FindRec
    <3> QED
      BY <2>2, <3>1, RecIs
  <2>4. /\ c \in FindRec /\ c.pc = b.pc /\ c.found = b.found /\ c.todo = b.todo
        /\ c.got = value
    BY <1>3, <2>1 DEF FindRec, Got
  <2> HIDE DEF c
  <2>5. RecOk(Vol, c, Below(stack[t], n), n, TRUE)
    BY <1>3, <2>3, <2>4 DEF FindOk, RecOk
  <2>6. orphan_dir' # NULL => orphan_dir' \in Seq(Gone(Vol))
    BY <1>1 DEF WalksOk
  <2> QED
    BY <1>1, <1>2, <1>6, <2>2, <2>5, <2>6, ReturnKept DEF c, n, Depth
<1> QED
  BY <1>5, <1>6

(* A callback that answers, for a name that it has been told of. *)
LEMMA WalkNameOk ==
  ASSUME WalksOk, AllWalkable, NEW t \in Threads, WalkName(t)
  PROVE  WalksOk'
<1> DEFINE w == Me(t)
           b == Caller(t)
           a == Start(w, b)
           f == Last(w.path)
           asks == w.cb = "user" /\ Here(w).alloc \in Shows(w.flags)
           Told(answer) ==
             IF ~asks THEN w
             ELSE [w EXCEPT !.shown = @ \cup {Here(w).addr},
                            !.asked = IF @ = "cont" THEN answer ELSE @]
<1>1. /\ Running(t, "walk", "names") /\ w.cb # "orphan" /\ f.i <= Len(f.names)
      /\ UNCHANGED <<fs, orphan_dir, result>>
  BY DEF WalkName
<1>2. PICK answer \in IF asks THEN Answers ELSE {"cont"} :
        Become(t, Answered(Told(answer), answer))
  BY Zenon DEF WalkName
<1> DEFINE d == Told(answer)
           r == Answered(d, answer)
<1>3. /\ w \in WalkRec /\ w.pc = "names" /\ WalkOk(Vol, w, b, Depth(t), TRUE)
      /\ Walking(Vol, a, w) /\ stack[t] # <<>> /\ Vol \in Volumes /\ Walkable(Vol)
      /\ fs \in DOMAIN FileSystems /\ Vol = FileSystems[fs]
  BY <1>1, WalkIs
<1>4. answer \in Rets /\ (~asks => answer = "cont")
  BY <1>2, DirAssumption DEF Rets
<1>5. AtName(w)
  BY <1>1, <1>3 DEF AtName
<1>6. Here(w) \in NameRec /\ Here(w).addr \in Nat
  BY <1>3, <1>5, HereIs
<1>7. /\ d \in WalkRec /\ d.pc = w.pc /\ d.cb = w.cb /\ d.flags = w.flags
      /\ d.path = w.path /\ d.seen = w.seen
      /\ d.shown = (IF asks THEN w.shown \cup {Here(w).addr} ELSE w.shown)
      /\ d.asked = (IF asks /\ w.asked = "cont" THEN answer ELSE w.asked)
  <2> HIDE DEF asks, w
  <2>1. CASE asks
    <3>1. d = [w EXCEPT !.shown = w.shown \cup {Here(w).addr},
                        !.asked = IF w.asked = "cont" THEN answer ELSE w.asked]
      BY <2>1
    <3> QED
      BY <1>3, <1>4, <1>6, <2>1, <3>1 DEF WalkRec
  <2>2. CASE ~asks
    BY <1>3, <2>2
  <2> QED
    BY <2>1, <2>2
<1> HIDE DEF d
<1>8. Walking(Vol, a, d) /\ AtName(d) /\ Here(d) = Here(w)
  BY <1>3, <1>5, <1>7 DEF Walking, AtName, Here
<1>9. /\ r \in WalkRec /\ Kept(d, r) /\ Walking(Vol, a, r)
      /\ r.pc \in {"names", "open", "end"} /\ (r.pc = "end" => r.ret = answer /\ answer # "cont")
  BY <1>3, <1>4, <1>7, <1>8, AnsweredIs
<1>10. r.cb = w.cb /\ r.flags = w.flags /\ r.shown = d.shown /\ r.asked = d.asked
  BY <1>7, <1>9 DEF Kept
<1>11. Start(r, b) = a
  BY <1>10 DEF Start
<1>12. Tells(Vol, r)
  <2> SUFFICES ASSUME w.cb = "user", d.asked = "cont", w.flags.recurse
               PROVE  /\ r.pc = "end" => r.ret # "stop"
                      /\ Covered(Vol, Root, r, Shown(w.flags, d.shown))
    BY <1>10 DEF Tells
  <2>1. answer = "cont" /\ w.asked = "cont"
    BY <1>4, <1>7
  <2>2. r = Processed(d)
    BY <2>1 DEF Answered
  <2>3. a = Root
    BY DEF Start
  <2> DEFINE X == Shown(w.flags, w.shown)
             Y == Shown(w.flags, d.shown)
  <2>4. Covered(Vol, Root, d, X)
    BY <1>3, <1>7, <2>1 DEF WalkOk, Tells, Covered
  <2>5. X \subseteq Y /\ Here(w) \in Y
    BY <1>6, <1>7 DEF Shown
  <2> HIDE DEF X, Y
  <2>6. \A P, Q : d.flags.recurse /\ Covered(Vol, Root, d, P) /\ P \subseteq Q /\ Here(d) \in Q
                   => Covered(Vol, Root, Processed(d), Q)
    BY <1>3, <1>7, <1>8, <2>3, ProcessedIs
  <2>7. Covered(Vol, Root, r, Y)
    BY <1>7, <1>8, <2>2, <2>4, <2>5, <2>6
  <2> QED
    BY <1>9, <2>1, <2>7 DEF Y
<1> HIDE DEF r, a, w, b
<1>13. RecOk(Vol, r, b, Depth(t), TRUE)
  BY <1>3, <1>4, <1>9, <1>10, <1>11, <1>12 DEF RecOk, WalkOk
<1> QED
  BY <1>1, <1>2, <1>3, <1>13, BecomeKept DEF r, d, b, w, Caller, Depth

LEMMA WalkOrphanNameOk ==
  ASSUME WalksOk, AllWalkable, NEW t \in Threads, WalkOrphanName(t)
  PROVE  WalksOk'
<1> DEFINE w == Me(t)
           b == Caller(t)
           a == Start(w, b)
           f == Last(w.path)
           asks == Here(w).alloc \in Shows(w.flags)
           answer == IF asks THEN OrphanAnswer(Here(w), b.subdirs) ELSE "cont"
           c == [b EXCEPT !.subdirs = IF asks THEN NewlySeen(Here(w), b.subdirs) ELSE b.subdirs]
           r == Answered(w, answer)
           n == Depth(t) - 1
<1>1. /\ Running(t, "walk", "names") /\ w.cb = "orphan" /\ f.i <= Len(f.names)
      /\ UNCHANGED <<fs, orphan_dir, result>>
  BY DEF WalkOrphanName
<1>2. /\ w \in WalkRec /\ w.pc = "names" /\ WalkOk(Vol, w, b, Depth(t), TRUE)
      /\ Walking(Vol, a, w) /\ stack[t] # <<>> /\ Vol \in Volumes /\ Walkable(Vol)
      /\ fs \in DOMAIN FileSystems /\ Vol = FileSystems[fs]
      /\ Depth(t) \in Nat /\ Depth(t) # 0
  BY <1>1, WalkIs
<1>3. Depth(t) # 1 /\ b \in FindRec /\ b.pc = "entering" /\ b.found # <<>>
  BY <1>1, <1>2 DEF WalkOk
<1>4. /\ b = stack[t][n] /\ Len(stack[t]) > 1
      /\ RecOk(Vol, b, Below(stack[t], n), n, FALSE)
  BY <1>2, <1>3, CallerIs DEF Caller, Depth
<1>5. stack' = [stack EXCEPT ![t] = SubSeq(stack[t], 1, Depth(t) - 2) \o <<c, r>>]
  <2>1. b = stack[t][Len(stack[t]) - 1]
    BY <1>4 DEF Depth
  <2> HIDE DEF b
  <2> QED
    BY <2>1 DEF WalkOrphanName, Depth
<1>6. AtName(w)
  BY <1>1, <1>2 DEF AtName
<1>7. Here(w) \in NameRec /\ Here(w).addr \in Nat
  BY <1>2, <1>6, HereIs
<1>8. answer \in Rets
  BY DEF OrphanAnswer, Rets
<1> HIDE DEF w, b, answer
<1>9. /\ r \in WalkRec /\ Kept(w, r) /\ Walking(Vol, a, r)
      /\ r.pc \in {"names", "open", "end"} /\ (r.pc = "end" => r.ret = answer)
  BY <1>2, <1>6, <1>8, AnsweredIs
<1>10. /\ c \in FindRec /\ c.pc = b.pc /\ c.found = b.found /\ c.todo = b.todo /\ c.got = b.got
  <2>1. b.subdirs \in SUBSET Nat
    BY <1>3 DEF FindRec
  <2>2. (IF asks THEN NewlySeen(Here(w), b.subdirs) ELSE b.subdirs) \in SUBSET Nat
    BY <1>7, <2>1 DEF NewlySeen
  <2> HIDE DEF asks
  <2> QED
    BY <1>3, <2>2 DEF FindRec
<1>11. FindOk(Vol, b, Below(stack[t], n), n, FALSE)
  <2>1. b.fn = "find_orphans"
    BY <1>3 DEF FindRec
  <2> QED
    BY <1>4, <2>1, RecIs
<1> HIDE DEF c
<1>12. RecOk(Vol, c, Below(stack[t], n), n, FALSE)
  BY <1>10, <1>11 DEF FindOk, RecOk
<1>13. r.cb = "orphan" /\ r.flags = w.flags /\ Start(r, c) = a
  BY <1>1, <1>9, <1>10 DEF Kept, Start
<1> HIDE DEF r, a
<1>14. RecOk(Vol, r, c, Depth(t), TRUE)
  <2>1. r.flags = CollectOnly /\ Depth(t) # 1
    BY <1>1, <1>2, <1>3, <1>13 DEF WalkOk
  <2>2. Tells(Vol, r)
    BY <1>13 DEF Tells
  <2>3. r.pc = "end" => r.ret \in Rets
    BY <1>8, <1>9
  <2> QED
    BY <1>3, <1>9, <1>10, <1>13, <2>1, <2>2, <2>3 DEF RecOk, WalkOk
<1>15. StackOk(Vol, stack[t])
  BY DEF WalksOk
<1>16. StackOk(Vol, SubSeq(stack[t], 1, Depth(t) - 2) \o <<c, r>>)
  BY <1>4, <1>12, <1>14, <1>15, StackCallback DEF Depth
<1> QED
  BY <1>1, <1>5, <1>16, StackKept

-----------------------------------------------------------------------------
(* The steps of the search.                                                *)
LEMMA FindIs ==
  ASSUME WalksOk, AllWalkable, NEW t \in Threads, NEW pc, Running(t, "find_orphans", pc)
  PROVE  /\ Me(t) \in FindRec /\ Me(t).pc = pc
         /\ FindOk(Vol, Me(t), Caller(t), Depth(t), TRUE)
         /\ stack[t] # <<>> /\ Vol \in Volumes /\ Vol = FileSystems[fs]
         /\ fs \in DOMAIN FileSystems /\ Depth(t) \in Nat /\ Depth(t) # 0
<1> DEFINE r == Me(t)
           b == Caller(t)
<1>1. /\ stack[t] # <<>> /\ Vol \in Volumes /\ Vol = FileSystems[fs]
      /\ r.fn = "find_orphans" /\ r.pc = pc /\ RecOk(Vol, r, b, Depth(t), TRUE)
      /\ fs \in DOMAIN FileSystems /\ Depth(t) \in Nat /\ Depth(t) # 0
  BY TopIs DEF Caller, Depth
<1> HIDE DEF r, b
<1>2. r \in FindRec /\ FindOk(Vol, r, b, Depth(t), TRUE)
  BY <1>1, RecIs
<1> QED
  BY <1>1, <1>2 DEF r, b

\* The search returns.
LEMMA FindReturns ==
  ASSUME WalksOk, AllWalkable, NEW t \in Threads, NEW pc, Running(t, "find_orphans", pc),
         NEW value, GoneNames(Vol, value), Return(t, value), fs' = fs,
         orphan_dir' # NULL => orphan_dir' \in Seq(Gone(Vol))
  PROVE  WalksOk'
<1> DEFINE b == Caller(t)
           c == [b EXCEPT !.got = value]
           n == Depth(t) - 1
<1>1. /\ FindOk(Vol, Me(t), b, Depth(t), TRUE)
      /\ stack[t] # <<>> /\ Depth(t) \in Nat /\ Depth(t) # 0
  BY FindIs
<1>2. value \in OpenResult
  BY DEF GoneNames
<1>3. CASE Depth(t) = 1
  BY <1>1, <1>2, <1>3, ReturnKept DEF Depth, ResultOk
<1>4. CASE Depth(t) # 1
  <2>1. b \in WalkRec /\ b.pc = "wait"
    BY <1>1, <1>4 DEF FindOk
  <2>2. RecOk(Vol, b, Below(stack[t], n), n, FALSE) /\ b = stack[t][n]
    BY <1>1, <1>4, CallerIs DEF Caller, Depth
  <2> HIDE DEF n, b
  <2>3. WalkOk(Vol, b, Below(stack[t], n), n, FALSE)
    <3>1. b.fn = "walk"
      BY <2>1 DEF WalkRec
    <3> QED
      BY <2>2, <3>1, RecIs
  <2>4. /\ c \in WalkRec /\ c.cb = b.cb /\ c.flags = b.flags /\ c.shown = b.shown
        /\ c.asked = b.asked /\ c.pc = "wait" /\ c.path = b.path /\ c.seen = b.seen
        /\ c.target = b.target /\ c.got = value
    BY <1>2, <2>1 DEF WalkRec, Got
  <2> HIDE DEF c
  <2>5. Start(c, Below(stack[t], n)) = Start(b, Below(stack[t], n))
    BY <2>4 DEF Start
  <2>6. Walking(Vol, Start(c, Below(stack[t], n)), c)
    BY <2>1, <2>3, <2>4, <2>5 DEF WalkOk, Walking
  <2>7. Tells(Vol, c)
    BY <2>1, <2>3, <2>4 DEF WalkOk, Tells, Covered
  <2>8. RecOk(Vol, c, Below(stack[t], n), n, TRUE)
    BY <2>1, <2>3, <2>4, <2>6, <2>7 DEF WalkOk, RecOk
  <2> QED
    BY <1>1, <1>4, <2>2, <2>8, ReturnKept DEF c, n, Depth
<1> QED
  BY <1>3, <1>4

\* The search goes on.
LEMMA FindMoves ==
  ASSUME WalksOk, AllWalkable, NEW t \in Threads, NEW pc, Running(t, "find_orphans", pc),
         NEW r \in FindRec, r.pc \in {"load", "scan"}, Become(t, r),
         r.found \in Seq(Gone(Vol)), r.todo \subseteq Gone(Vol),
         UNCHANGED <<fs, orphan_dir, result>>
  PROVE  WalksOk'
<1>1. FindOk(Vol, Me(t), Caller(t), Depth(t), TRUE) /\ stack[t] # <<>>
  BY FindIs
<1>2. RecOk(Vol, r, Caller(t), Depth(t), TRUE)
  BY <1>1 DEF FindOk, RecOk
<1> QED
  BY <1>1, <1>2, BecomeKept DEF Caller, Depth

\* The search calls a walk that only collects.
LEMMA FindCalls ==
  ASSUME WalksOk, AllWalkable, NEW t \in Threads, NEW pc, Running(t, "find_orphans", pc),
         NEW r \in FindRec, NEW cb \in {"named", "orphan"}, NEW a \in Nat,
         Call(t, r, Walk(cb, a, CollectOnly)),
         cb = "named" => r.pc = "loading" /\ a = Root,
         cb = "orphan" => r.pc = "entering" /\ r.found # <<>> /\ a = Last(r.found),
         r.found \in Seq(Gone(Vol)), r.todo \subseteq Gone(Vol),
         UNCHANGED <<fs, orphan_dir, result>>
  PROVE  WalksOk'
<1> DEFINE w == Walk(cb, a, CollectOnly)
<1>1. /\ FindOk(Vol, Me(t), Caller(t), Depth(t), TRUE) /\ stack[t] # <<>>
      /\ Depth(t) \in Nat /\ Depth(t) # 0
  BY FindIs
<1>2. RecOk(Vol, r, Caller(t), Depth(t), FALSE)
  BY <1>1 DEF FindOk, RecOk
<1>3. CollectOnly \in Flags
  BY DEF CollectOnly, Flags
<1>4. /\ NULL \in Got /\ <<>> \in Seq(Nat) /\ <<>> \in Seq(FrameRec)
  BY DEF Got
<1>5. w \in WalkRec
  BY <1>3, <1>4 DEF Walk, WalkRec, Rets
<1>6. /\ w.cb = cb /\ w.pc = "begin" /\ w.flags = CollectOnly /\ w.target = a
      /\ w.path = <<>> /\ w.seen = <<>>
  BY DEF Walk
<1> HIDE DEF w
<1>7. Start(w, r) = a
  BY <1>6 DEF Start
<1>8. Walking(Vol, a, w)
  BY <1>6 DEF Walking, Shape, DirAt
<1>9. Depth(t) + 1 # 1
  BY <1>1
<1>10. RecOk(Vol, w, r, Depth(t) + 1, TRUE)
  BY <1>5, <1>6, <1>7, <1>8, <1>9 DEF RecOk, WalkOk, Tells
<1> QED
  BY <1>1, <1>2, <1>10, CallKept DEF w, Caller, Depth

LEMMA SeqWider ==
  ASSUME NEW S, NEW U, S \subseteq U, NEW s \in Seq(S)
  PROVE  s \in Seq(U)
<1>1. PICK n \in Nat : s \in [1 .. n -> S]
  BY SeqDef
<1>2. s \in [1 .. n -> U]
  BY <1>1
<1> QED
  BY <1>2, SeqDef

LEMMA OpenedNames ==
  ASSUME NEW v \in Volumes, NEW names \in Seq(Gone(v))
  PROVE  GoneNames(v, Opened(names))
<1>1. Gone(v) \subseteq Nat
  BY VolumeIs DEF Gone
<1>2. names \in Seq(Nat)
  BY <1>1, SeqWider
<1> QED
  BY <1>2 DEF GoneNames, Opened, OpenResult

LEMMA GaveUp ==
  ASSUME NEW v
  PROVE  GoneNames(v, NotOpened)
BY DEF GoneNames, NotOpened, OpenResult

LEMMA LockOrphansOk ==
  ASSUME WalksOk, AllWalkable, NEW t \in Threads, LockOrphans(t)
  PROVE  WalksOk'
<1>1. Running(t, "find_orphans", "lock") /\ fs' = fs /\ orphan_dir' = orphan_dir
  BY DEF LockOrphans
<1>2. Me(t) \in FindRec /\ FindOk(Vol, Me(t), Caller(t), Depth(t), TRUE) /\ Vol \in Volumes
  BY <1>1, FindIs
<1>3. CASE orphan_dir # NULL
  <2>1. Return(t, Opened(orphan_dir))
    BY <1>3 DEF LockOrphans
  <2>2. orphan_dir \in Seq(Gone(Vol))
    BY <1>3 DEF WalksOk
  <2>3. GoneNames(Vol, Opened(orphan_dir))
    BY <1>2, <2>2, OpenedNames
  <2> QED
    BY <1>1, <2>1, <2>2, <2>3, FindReturns
<1>4. CASE orphan_dir = NULL
  <2> DEFINE m == Me(t)
             r == [m EXCEPT !.pc = "load"]
  <2>1. Become(t, r) /\ result' = result
    BY <1>4 DEF LockOrphans
  <2> HIDE DEF m
  <2>2. r \in FindRec /\ r.pc = "load" /\ r.found = m.found /\ r.todo = m.todo
    BY <1>2 DEF FindRec, m
  <2>3. m.found \in Seq(Gone(Vol)) /\ m.todo \subseteq Gone(Vol)
    BY <1>2 DEF FindOk, m
  <2> HIDE DEF r
  <2> QED
    BY <1>1, <2>1, <2>2, <2>3, FindMoves
<1> QED
  BY <1>3, <1>4

LEMMA ScanStarts ==
  ASSUME WalksOk, AllWalkable, NEW t \in Threads, NEW pc, Running(t, "find_orphans", pc),
         Become(t, StartScan(Me(t))), UNCHANGED <<fs, orphan_dir, result>>
  PROVE  WalksOk'
<1> DEFINE m == Me(t)
           r == [m EXCEPT !.pc = "scan", !.got = NULL, !.todo = Gone(Vol)]
<1>1. /\ m \in FindRec /\ FindOk(Vol, m, Caller(t), Depth(t), TRUE) /\ Vol \in Volumes
      /\ Vol = FileSystems[fs] /\ fs \in DOMAIN FileSystems
  BY FindIs
<1>2. DOMAIN Inodes = DOMAIN Vol.meta /\ DOMAIN Inodes \subseteq Nat
  BY <1>1, VolumeIs DEF Inodes
<1>3. {a \in DOMAIN Inodes : Deleted(a)} = Gone(Vol)
  BY <1>1, <1>2, DeletedIs DEF Gone
<1>4. StartScan(m) = r
  BY <1>3 DEF StartScan
<1> HIDE DEF m
<1>5. Gone(Vol) \in SUBSET Nat /\ NULL \in Got
  BY <1>2 DEF Gone, Got
<1>6. r \in FindRec /\ r.pc = "scan" /\ r.found = m.found /\ r.todo = Gone(Vol)
  BY <1>1, <1>5 DEF FindRec
<1>7. m.found \in Seq(Gone(Vol))
  BY <1>1 DEF FindOk
<1> HIDE DEF r
<1> QED
  BY <1>4, <1>6, <1>7, FindMoves DEF m

LEMMA LoadNamedOk ==
  ASSUME WalksOk, AllWalkable, NEW t \in Threads, LoadNamed(t)
  PROVE  WalksOk'
<1>1. Running(t, "find_orphans", "load") /\ UNCHANGED <<fs, orphan_dir, result>>
  BY DEF LoadNamed
<1>2. /\ Me(t) \in FindRec /\ FindOk(Vol, Me(t), Caller(t), Depth(t), TRUE)
      /\ Root \in Nat
  BY <1>1, FindIs, VolumeIs
<1>3. CASE list_inum_named # {}
  BY <1>1, <1>3, ScanStarts DEF LoadNamed
<1>4. CASE list_inum_named = {}
  <2> DEFINE m == Me(t)
             r == [m EXCEPT !.pc = "loading"]
  <2>1. Call(t, r, Walk("named", Root, CollectOnly))
    BY <1>4 DEF LoadNamed
  <2> HIDE DEF m
  <2>2. r \in FindRec /\ r.pc = "loading" /\ r.found = m.found /\ r.todo = m.todo
    BY <1>2 DEF FindRec, m
  <2>3. m.found \in Seq(Gone(Vol)) /\ m.todo \subseteq Gone(Vol)
    BY <1>2 DEF FindOk, m
  <2> HIDE DEF r
  <2> QED
    BY <1>1, <1>2, <2>1, <2>2, <2>3, FindCalls
<1> QED
  BY <1>3, <1>4

LEMMA NamedLoadedOk ==
  ASSUME WalksOk, AllWalkable, NEW t \in Threads, NamedLoaded(t)
  PROVE  WalksOk'
<1>1. Running(t, "find_orphans", "loading") /\ fs' = fs /\ orphan_dir' = orphan_dir
  BY DEF NamedLoaded
<1>2. CASE Me(t).got.err
  <2>1. Return(t, NotOpened)
    BY <1>2 DEF NamedLoaded, GiveUpOrphans
  <2>2. orphan_dir' # NULL => orphan_dir' \in Seq(Gone(Vol))
    BY <1>1 DEF WalksOk
  <2> QED
    BY <1>1, <2>1, <2>2, GaveUp, FindReturns
<1>3. CASE ~Me(t).got.err
  BY <1>1, <1>3, ScanStarts DEF NamedLoaded
<1> QED
  BY <1>2, <1>3

LEMMA ScanInodeOk ==
  ASSUME WalksOk, AllWalkable, NEW t \in Threads, ScanInode(t)
  PROVE  WalksOk'
<1> DEFINE m == Me(t)
           a == Min(m.todo)
           r == [m EXCEPT !.todo = m.todo \ {a}]
           added == [m EXCEPT !.todo = m.todo \ {a}, !.found = Append(m.found, a)]
           enters == [m EXCEPT !.todo = m.todo \ {a}, !.found = Append(m.found, a),
                               !.pc = "entering"]
<1>1. Running(t, "find_orphans", "scan") /\ m.todo # {} /\ UNCHANGED <<fs, orphan_dir, result>>
  BY DEF ScanInode
<1>2. /\ m \in FindRec /\ m.pc = "scan" /\ FindOk(Vol, m, Caller(t), Depth(t), TRUE)
      /\ Vol \in Volumes
  BY <1>1, FindIs
<1>3. \/ Become(t, r) \/ Become(t, added)
      \/ Call(t, enters, Walk("orphan", a, CollectOnly))
  <2>1. [m EXCEPT !.todo = @ \ {a}] = r
    OBVIOUS
  <2>2. m \in FindRec
    BY <1>2
  <2> HIDE DEF m, a
  <2>3. /\ [r EXCEPT !.found = Append(@, a)] = added
        /\ [added EXCEPT !.pc = "entering"] = enters
    BY <2>2 DEF FindRec
  <2> HIDE DEF r, added, enters
  <2> QED
    BY <2>1, <2>3 DEF ScanInode, m, a
<1> HIDE DEF m
<1>4. m.found \in Seq(Gone(Vol)) /\ m.todo \subseteq Gone(Vol) /\ Gone(Vol) \subseteq Nat
  BY <1>2, VolumeIs DEF FindOk, Gone
<1>5. a \in m.todo
  <2>1. m.todo \subseteq Nat
    BY <1>4
  <2>2. \E x \in m.todo : \A y \in m.todo : x <= y
    BY <1>1, <2>1, LeastNat DEF m
  <2> QED
    BY <2>2 DEF Min
<1> HIDE DEF a
<1>6. a \in Gone(Vol) /\ a \in Nat /\ m.todo \ {a} \in SUBSET Nat
  BY <1>4, <1>5
<1>7. /\ Append(m.found, a) \in Seq(Gone(Vol)) /\ Append(m.found, a) # <<>>
      /\ Last(Append(m.found, a)) = a
  <2> DEFINE q == m.found
  <2>1. q \in Seq(Gone(Vol)) /\ Len(q) \in Nat
    BY <1>4, LenProperties
  <2> HIDE DEF q
  <2>2. /\ Append(q, a) \in Seq(Gone(Vol)) /\ Len(Append(q, a)) = Len(q) + 1
        /\ Append(q, a)[Len(q) + 1] = a
    BY <1>6, <2>1, AppendProperties
  <2>3. Append(q, a) # <<>>
    BY <2>1, <2>2, EmptySeq
  <2> QED
    BY <2>2, <2>3 DEF q, Last
<1>8. Append(m.found, a) \in Seq(Nat)
  BY <1>4, <1>7, SeqWider
<1>9. r \in FindRec /\ r.pc = "scan" /\ r.found = m.found /\ r.todo = m.todo \ {a}
  BY <1>2, <1>6 DEF FindRec
<1>10. /\ added \in FindRec /\ added.pc = "scan" /\ added.found = Append(m.found, a)
       /\ added.todo = m.todo \ {a}
  BY <1>2, <1>6, <1>8 DEF FindRec
<1>11. /\ enters \in FindRec /\ enters.pc = "entering" /\ enters.found = Append(m.found, a)
       /\ enters.todo = m.todo \ {a}
  BY <1>2, <1>6, <1>8 DEF FindRec
<1> HIDE DEF r, added, enters
<1>12. CASE Become(t, r)
  BY <1>1, <1>4, <1>9, <1>12, FindMoves
<1>13. CASE Become(t, added)
  BY <1>1, <1>4, <1>7, <1>10, <1>13, FindMoves
<1>14. CASE Call(t, enters, Walk("orphan", a, CollectOnly))
  BY <1>1, <1>4, <1>6, <1>7, <1>11, <1>14, FindCalls
<1> QED
  BY <1>3, <1>12, <1>13, <1>14

LEMMA OrphanEnteredOk ==
  ASSUME WalksOk, AllWalkable, NEW t \in Threads, OrphanEntered(t)
  PROVE  WalksOk'
<1> DEFINE m == Me(t)
           r == [m EXCEPT !.pc = "scan", !.got = NULL]
<1>1. Running(t, "find_orphans", "entering") /\ fs' = fs /\ orphan_dir' = orphan_dir
  BY DEF OrphanEntered
<1>2. m \in FindRec /\ FindOk(Vol, m, Caller(t), Depth(t), TRUE)
  BY <1>1, FindIs
<1>3. CASE m.got.err
  <2>1. Return(t, NotOpened)
    BY <1>3 DEF OrphanEntered, GiveUpOrphans
  <2>2. orphan_dir' # NULL => orphan_dir' \in Seq(Gone(Vol))
    BY <1>1 DEF WalksOk
  <2> QED
    BY <1>1, <2>1, <2>2, GaveUp, FindReturns
<1>4. CASE ~m.got.err
  <2>1. Become(t, r) /\ result' = result
    BY <1>4 DEF OrphanEntered
  <2> HIDE DEF m
  <2>2. NULL \in Got
    BY DEF Got
  <2>3. r \in FindRec /\ r.pc = "scan" /\ r.found = m.found /\ r.todo = m.todo
    BY <1>2, <2>2 DEF FindRec
  <2>4. m.found \in Seq(Gone(Vol)) /\ m.todo \subseteq Gone(Vol)
    BY <1>2 DEF FindOk
  <2> HIDE DEF r
  <2> QED
    BY <1>1, <2>1, <2>3, <2>4, FindMoves
<1> QED
  BY <1>3, <1>4

LEMMA FinishOrphansOk ==
  ASSUME WalksOk, AllWalkable, NEW t \in Threads, FinishOrphans(t)
  PROVE  WalksOk'
<1>1. /\ Running(t, "find_orphans", "scan") /\ fs' = fs
      /\ orphan_dir' = Dedup(Me(t).found, Me(t).subdirs) /\ Return(t, Opened(orphan_dir'))
  BY DEF FinishOrphans
<1>2. FindOk(Vol, Me(t), Caller(t), Depth(t), TRUE) /\ Vol \in Volumes
  BY <1>1, FindIs
<1>3. Me(t).found \in Seq(Gone(Vol))
  BY <1>2 DEF FindOk
<1>4. orphan_dir' \in Seq(Gone(Vol))
  BY <1>1, <1>3, DedupIs DEF Keeps
<1>5. GoneNames(Vol, Opened(orphan_dir'))
  BY <1>2, <1>4, OpenedNames
<1> QED
  BY <1>1, <1>4, <1>5, FindReturns

-----------------------------------------------------------------------------
(* The invariant.                                                          *)
LEMMA WalksOkInit == Init => WalksOk
<1> SUFFICES ASSUME Init PROVE WalksOk
  OBVIOUS
<1>1. \A t \in Threads : stack[t] = <<>> /\ result[t] = NoResult
  BY DEF Init
<1>2. stack \in [Threads -> Seq(Records)]
  BY DEF Init
<1>3. \A t \in Threads : StackOk(Vol, stack[t])
  <2>1. StackOk(Vol, <<>>)
    BY DEF StackOk
  <2> QED
    BY <1>1, <2>1
<1>4. DOMAIN result = Threads /\ result = [t \in Threads |-> result[t]]
  BY DEF Init
<1>5. \A t \in Threads : ResultOk(Vol, result[t])
  BY <1>1 DEF ResultOk
<1>6. fs \in DOMAIN FileSystems /\ orphan_dir = NULL
  BY DEF Init
<1> QED
  BY <1>2, <1>3, <1>4, <1>5, <1>6 DEF WalksOk

LEMMA StartKept ==
  ASSUME WalksOk, NEW t \in Threads, NEW r, RecOk(Vol, r, NULL, 1, TRUE),
         stack' = [stack EXCEPT ![t] = <<r>>], result' = [result EXCEPT ![t] = NoResult],
         UNCHANGED <<fs, orphan_dir>>
  PROVE  WalksOk'
<1>1. r \in Records
  BY RecIs
<1>2. <<r>> \in Seq(Records) /\ Len(<<r>>) = 1 /\ <<r>>[1] = r /\ Below(<<r>>, 1) = NULL
  BY <1>1 DEF Below
<1>3. StackOk(Vol, <<r>>)
  <2> DEFINE s == <<r>>
  <2>1. s \in Seq(Records) /\ Len(s) = 1 /\ s[1] = r /\ Below(s, 1) = NULL
    BY <1>2
  <2> HIDE DEF s
  <2>2. \A k \in 1 .. Len(s) : k = 1 /\ (k = Len(s)) = TRUE
    BY <2>1
  <2>3. \A k \in 1 .. Len(s) : RecOk(Vol, s[k], Below(s, k), k, k = Len(s))
    BY <2>1, <2>2
  <2> QED
    BY <2>1, <2>3 DEF StackOk, s
<1>4. stack' \in [Threads -> Seq(Records)]
  BY <1>2 DEF WalksOk
<1>5. \A u \in Threads : stack'[u] = IF u = t THEN <<r>> ELSE stack[u]
  BY DEF WalksOk
<1>6. Vol' = Vol
  BY DEF Vol
<1>7. \A u \in Threads : StackOk(Vol, stack'[u])
  BY <1>3, <1>5 DEF WalksOk
<1>8. \A u \in Threads : result'[u] = IF u = t THEN NoResult ELSE result[u]
  BY DEF WalksOk
<1>9. \A u \in Threads : ResultOk(Vol, result'[u])
  BY <1>8 DEF WalksOk, ResultOk
<1>10. DOMAIN result' = Threads /\ result' = [u \in Threads |-> result'[u]]
  BY DEF WalksOk
<1> QED
  BY <1>4, <1>6, <1>7, <1>9, <1>10 DEF WalksOk

LEMMA CallWalkOk ==
  ASSUME WalksOk, NEW t \in Threads, CallWalk(t)
  PROVE  WalksOk'
<1>1. PICK flags \in WalkFlags : stack' = [stack EXCEPT ![t] = <<Walk("user", Root, flags)>>]
  BY DEF CallWalk
<1> DEFINE w == Walk("user", Root, flags)
<1>2. flags \in Flags /\ Root \in Nat
  BY DirAssumption
<1>3. /\ NULL \in Got /\ <<>> \in Seq(Nat) /\ <<>> \in Seq(FrameRec)
  BY DEF Got
<1>4. w \in WalkRec
  BY <1>2, <1>3 DEF Walk, WalkRec, Rets
<1>5. /\ w.cb = "user" /\ w.pc = "begin" /\ w.target = Root /\ w.path = <<>> /\ w.seen = <<>>
  BY DEF Walk
<1>6. stack' = [stack EXCEPT ![t] = <<w>>]
  BY <1>1
<1> HIDE DEF w
<1>7. Start(w, NULL) = Root
  BY <1>5 DEF Start
<1>8. Walking(Vol, Root, w)
  BY <1>5 DEF Walking, Shape, DirAt
<1>9. Tells(Vol, w)
  BY <1>5 DEF Tells, Covered, Done
<1>10. RecOk(Vol, w, NULL, 1, TRUE)
  BY <1>4, <1>5, <1>7, <1>8, <1>9 DEF RecOk, WalkOk
<1> QED
  BY <1>6, <1>10, StartKept DEF CallWalk

LEMMA CallOpenOrphansOk ==
  ASSUME WalksOk, NEW t \in Threads, CallOpenOrphans(t)
  PROVE  WalksOk'
<1> DEFINE r == FindOrphans
<1>1. stack' = [stack EXCEPT ![t] = <<r>>]
  BY DEF CallOpenOrphans
<1>2. NULL \in Got /\ <<>> \in Seq(Nat) /\ <<>> \in Seq(Gone(Vol))
  BY DEF Got
<1>3. r \in FindRec /\ r.pc = "lock" /\ r.found = <<>> /\ r.todo = {}
  BY <1>2 DEF FindOrphans, FindRec
<1> HIDE DEF r
<1>4. RecOk(Vol, r, NULL, 1, TRUE)
  BY <1>2, <1>3 DEF RecOk, FindOk
<1> QED
  BY <1>1, <1>4, StartKept DEF CallOpenOrphans

LEMMA WalksOkNext ==
  ASSUME WalksOk, AllWalkable, [Next]_vars
  PROVE  WalksOk'
<1>1. CASE Next
  <2>1. PICK t \in Threads : CallWalk(t) \/ CallOpenOrphans(t) \/ Step(t)
    BY <1>1 DEF Next
  <2> QED
    BY <2>1, CallWalkOk, CallOpenOrphansOk, BeginWalkOk, OpenDirOk, OpenOrphanDirOk,
       OrphanDirOpenedOk, WalkNameOk, WalkOrphanNameOk, EndDirOk, EndWalkOk, LockOrphansOk,
       LoadNamedOk, NamedLoadedOk, ScanInodeOk, OrphanEnteredOk, FinishOrphansOk DEF Step
<1>2. CASE UNCHANGED vars
  <2>1. UNCHANGED <<fs, stack, result, orphan_dir>>
    BY <1>2 DEF vars
  <2>2. Vol' = Vol
    BY <2>1 DEF Vol
  <2> QED
    BY <2>1, <2>2 DEF WalksOk
<1> QED
  BY <1>1, <1>2

THEOREM WalksOkAlways ==
  ASSUME AllWalkable
  PROVE  Spec => []WalksOk
<1>1. Init => WalksOk
  BY WalksOkInit
<1>2. AllWalkable /\ WalksOk /\ [Next]_vars => WalksOk'
  BY WalksOkNext
<1> QED
  BY <1>1, <1>2, PTL DEF Spec

LEMMA BeneathNames ==
  ASSUME NEW v \in Volumes, NEW a, NEW S
  PROVE  Beneath(v, a, S) \subseteq NameRec
<1> SUFFICES ASSUME NEW d, NEW e \in NamesIn(v, d) PROVE e \in NameRec
  BY DEF Beneath
<1>1. d \in DOMAIN v.names \ v.unreadable
  BY DEF NamesIn
<1> QED
  BY <1>1, NamesIs

(* A walk that was not stopped has shown all names below the root that its *)
(* flags ask for, also behind loops and directories that cannot be read,   *)
(* if no path comes to the limits of a walk.                               *)
THEOREM EveryNameShownAlways ==
  ASSUME AllWalkable
  PROVE  Spec => []EveryNameShown
<1>1. WalksOk => EveryNameShown
  <2> SUFFICES ASSUME WalksOk, NEW t \in Threads, result[t].fn = "walk", ~result[t].err,
                      result[t].asked = "cont", result[t].flags.recurse,
                      NEW e \in NamesBelow[fs][Root], e.alloc \in Shows(result[t].flags)
               PROVE  e.addr \in result[t].shown
    BY DEF EveryNameShown
  <2> DEFINE x == result[t]
  <2>1. ResultOk(Vol, x)
    BY DEF WalksOk
  <2> HIDE DEF x
  <2>2. x # NoResult /\ x \notin OpenResult
    <3>1. x.fn = "walk"
      BY DEF x
    <3>2. NoResult.fn = "none" /\ NotOpened.fn = "open"
      BY DEF NoResult, NotOpened
    <3>3. \A y \in [fn : {"open"}, err : {FALSE}, names : Seq(Nat)] : y.fn = "open"
      OBVIOUS
    <3> QED
      BY <3>1, <3>2, <3>3 DEF OpenResult
  <2>3. Beneath(Vol, Root, {}) \subseteq Shown(x.flags, x.shown)
    BY <2>1, <2>2 DEF ResultOk, x
  <2>4. Root \in DOMAIN Vol.meta /\ fs \in DOMAIN FileSystems
    BY VolumeIs DEF WalksOk, Vol, Volumes
  <2>5. e \in Beneath(Vol, Root, {})
    BY <2>4, NamesBelowIs DEF Vol
  <2>6. e \in NameRec
    BY <2>5, BeneathNames DEF WalksOk, Vol, Volumes
  <2> QED
    BY <2>5, <2>3, <2>6 DEF Shown, x
<1> QED
  BY <1>1, WalksOkAlways, PTL

-----------------------------------------------------------------------------
(* The list of named inodes and the orphans.  The callers' callbacks do    *)
(* not answer TSK_WALK_ERROR: in a subdirectory the walk takes that for a  *)
(* directory that could not be read, and goes on behind it (fs_dir.c:715), *)
(* to share a list without the rest of it (DirWalk_partial_list.cfg).      *)
GoesOn == "error" \notin Answers

\* What the list is to hold, and what is to be in $OrphanFiles.
NamedGone(v) == Gone(v) \cap {e.addr : e \in Beneath(v, Root, {})}

Orphaned(v) == Gone(v) \ NamedGone(v)

\* The names whose inodes are in the list if they are to be there.
Listed(v, list) == {e \in NameRec : e.addr \in Gone(v) => e.addr \in list}

\* What the names in a directory and below it point to.
Inside(v, x) == {e.addr : e \in {n \in Beneath(v, x, {}) : n.kind # "dot"}}

Under(v, S) == UNION {Inside(v, x) : x \in {y \in S : v.meta[y].dir}}

\* No orphan directory leads back to itself.
Orderly(v) == KindsAgree(v) /\ \A a \in Orphaned(v) : a \notin Inside(v, a)

GoodNames(v, q) ==
  /\ q \in Seq(Orphaned(v))
  /\ Orderly(v) => Orphaned(v) \subseteq Range(q) \cup Under(v, Range(q))

(* What a directory leads to leads no further. *)
LEMMA ReachThrough ==
  ASSUME NEW v, NEW a \in DOMAIN v.meta, NEW b \in Reach(v, a, {})
  PROVE  Reach(v, b, {}) \subseteq Reach(v, a, {}) /\ Inside(v, b) \subseteq Inside(v, a)
<1>1. Reach(v, b, {}) \subseteq Reach(v, a, {})
  BY ReachIs, ReachLeast
<1>2. Beneath(v, b, {}) \subseteq Beneath(v, a, {})
  BY <1>1 DEF Beneath
<1> QED
  BY <1>1, <1>2 DEF Inside

(* A walk that is in $OrphanFiles may enter all other directories. *)
LEMMA Unentered ==
  ASSUME NEW v \in Volumes, NEW x
  PROVE  Beneath(v, x, {OrphanDir}) = Beneath(v, x, {})
<1>1. OrphanDir \notin DOMAIN v.meta
  BY VolumeIs
<1>2. \A X : Closed(v, X, {OrphanDir}) <=> Closed(v, X, {})
  BY <1>1 DEF Closed, Enters
<1>3. Reach(v, x, {OrphanDir}) = Reach(v, x, {})
  BY <1>2 DEF Reach
<1> QED
  BY <1>3 DEF Beneath

(* The directories of a path in short. *)
LEMMA SeenAre ==
  ASSUME NEW v \in Volumes, NoWayBack(v), NEW a, NEW flags, NEW path \in Seq(FrameRec),
         NEW seen \in Seq(Nat), Shape(v, a, flags, path, seen)
  PROVE  \A k \in 1 .. Len(seen) :
           seen[k] # Root /\ (seen[k] = OrphanDir => k = 1 /\ a = Root)
<1> SUFFICES ASSUME NEW k \in 1 .. Len(seen)
             PROVE  seen[k] # Root /\ (seen[k] = OrphanDir => k = 1 /\ a = Root)
  OBVIOUS
<1>1. /\ k \in 1 .. Len(path) /\ Current(path[k]) \in NameRec
      /\ seen[k] = Current(path[k]).addr /\ path[k].i \in 1 .. Len(path[k].names)
      /\ seen[k] \in Dirs(v) /\ seen[k] # Root
      /\ seen[k] = OrphanDir =>
           k = 1 /\ a = Root /\ path[1].i = Len(path[1].names) /\ ~flags.noorphan
      /\ seen[k] # OrphanDir =>
           Leads(v, DirAt(a, seen, k), seen[k]) /\ Enters(v, Current(path[k]))
  BY SeenIs
<1> QED
  BY <1>1

(* Outside $OrphanFiles a walk is where the names of its start lead. *)
LEMMA PathReaches ==
  ASSUME NEW v \in Volumes, NoWayBack(v), NEW a \in DOMAIN v.meta, NEW flags,
         NEW path \in Seq(FrameRec), NEW seen \in Seq(Nat), Shape(v, a, flags, path, seen),
         \A k \in 1 .. Len(seen) : seen[k] # OrphanDir
  PROVE  \A k \in 1 .. Len(seen) + 1 : DirAt(a, seen, k) \in Reach(v, a, {})
<1>1. Len(seen) \in Nat
  BY LenProperties
<1>2. /\ Reach(v, a, {}) \subseteq DOMAIN v.meta /\ a \in Reach(v, a, {})
      /\ Closed(v, Reach(v, a, {}), {}) /\ OrphanDir \notin DOMAIN v.meta
  BY ReachIs, VolumeIs
<1> DEFINE T == {k \in 1 .. Len(seen) + 1 : DirAt(a, seen, k) \notin Reach(v, a, {})}
<1> SUFFICES ASSUME T # {} PROVE FALSE
  OBVIOUS
<1>3. PICK k \in T : \A j \in T : k <= j
  <2>1. T \subseteq Nat
    BY <1>1
  <2> HIDE DEF T
  <2> QED
    BY <2>1, LeastNat
<1>4. k # 1
  BY <1>2, <1>3 DEF DirAt
<1>5. k - 1 \in 1 .. Len(seen) /\ k - 1 \in 1 .. Len(seen) + 1 /\ ~(k <= k - 1) /\ k \in Nat
  BY <1>1, <1>3, <1>4
<1>6. DirAt(a, seen, k - 1) \in Reach(v, a, {})
  BY <1>3, <1>5
<1>7. DirAt(a, seen, k) = seen[k - 1]
  BY <1>4 DEF DirAt
<1>8. Leads(v, DirAt(a, seen, k - 1), seen[k - 1])
  BY <1>5, SeenIs
<1>9. DirAt(a, seen, k - 1) # OrphanDir
  BY <1>2, <1>6
<1>10. seen[k - 1] \in Reach(v, a, {})
  BY <1>2, <1>6, <1>8, <1>9 DEF Leads, Closed
<1> QED
  BY <1>3, <1>7, <1>10

(* So the name it is at is below its start ... *)
LEMMA HereBeneath ==
  ASSUME NEW v \in Volumes, Walkable(v), NEW a \in DOMAIN v.meta, NEW w \in WalkRec,
         Walking(v, a, w), AtName(w), Here(w).addr # OrphanDir,
         \A k \in 1 .. Len(w.seen) : w.seen[k] # OrphanDir
  PROVE  Here(w) \in Beneath(v, a, {})
<1> DEFINE n == Len(w.path)
           d == DirAt(a, w.seen, n)
           f == w.path[n]
<1>1. /\ w.path \in Seq(FrameRec) /\ w.seen \in Seq(Nat) /\ n = Len(w.seen) + 1 /\ n \in 1 .. n
      /\ f \in FrameRec /\ f.i \in 1 .. Len(f.names) /\ Here(w) = f.names[f.i]
      /\ Shape(v, a, w.flags, w.path, w.seen) /\ EntriesOf(v, d, f)
  BY HereIs DEF Current
<1>2. NoWayBack(v) /\ OrphanDir \notin DOMAIN v.meta
  BY VolumeIs DEF Walkable
<1>3. d \in Reach(v, a, {})
  <2> HIDE DEF n
  <2>1. \A k \in 1 .. Len(w.seen) + 1 : DirAt(a, w.seen, k) \in Reach(v, a, {})
    BY <1>1, <1>2, PathReaches
  <2> QED
    BY <1>1, <2>1
<1>4. d # OrphanDir
  BY <1>2, <1>3, ReachIs
<1> HIDE DEF d, f
<1>5. Here(w) \in NamesIn(v, d)
  BY <1>1, <1>2, <1>4, NameLeads
<1> QED
  BY <1>3, <1>5 DEF Beneath

(* ... and at that of $OrphanFiles it has done all names of the root. *)
LEMMA AtOrphanName ==
  ASSUME NEW v \in Volumes, Walkable(v), NEW a, NEW w \in WalkRec, Walking(v, a, w), AtName(w),
         Here(w).addr = OrphanDir
  PROVE  /\ Len(w.path) = 1 /\ Len(w.seen) = 0 /\ a = Root /\ AtLastName(w)
         /\ Here(w) = OrphanName
         /\ w.path[1].i = Len(w.path[1].names)
<1> DEFINE n == Len(w.path)
           d == DirAt(a, w.seen, n)
           f == w.path[n]
<1>1. /\ w.path \in Seq(FrameRec) /\ w.seen \in Seq(Nat) /\ n = Len(w.seen) + 1 /\ n \in 1 .. n
      /\ n \in Nat /\ Len(w.seen) \in Nat
      /\ f \in FrameRec /\ f.i \in 1 .. Len(f.names) /\ Here(w) = f.names[f.i]
      /\ AtLastName(w) <=> f.i = Len(f.names)
      /\ Shape(v, a, w.flags, w.path, w.seen) /\ EntriesOf(v, d, f)
  BY HereIs DEF Current
<1>2. NoWayBack(v) /\ Root # OrphanDir
  BY VolumeIs DEF Walkable
<1>3. d = Root /\ f.i = Len(f.names) /\ Here(w) = OrphanName
  <2> HIDE DEF d, f
  <2> QED
    BY <1>1, <1>2, NameLeads
<1>4. n = 1
  <2> SUFFICES ASSUME n # 1 PROVE FALSE
    OBVIOUS
  <2>1. n - 1 \in 1 .. Len(w.seen) /\ d = w.seen[n - 1]
    BY <1>1 DEF DirAt
  <2> HIDE DEF n, d, f
  <2>2. ASSUME NEW k \in 1 .. Len(w.seen) PROVE w.seen[k] # Root
    BY <1>1, <1>2, SeenAre
  <2> QED
    BY <1>3, <2>1, <2>2
<1>5. a = Root
  BY <1>3, <1>4 DEF DirAt
<1> QED
  BY <1>1, <1>3, <1>4, <1>5

LEMMA RootDone ==
  ASSUME NEW v \in Volumes, NEW flags, NEW path \in Seq(FrameRec), NEW seen \in Seq(Nat),
         Shape(v, Root, flags, path, seen), Len(path) = 1,
         path[1].i = Len(path[1].names), NEW X, Done(v, path, seen, X)
  PROVE  Beneath(v, Root, {}) \subseteq X
<1> DEFINE f == path[1]
<1>1. Root # OrphanDir /\ Root \in DOMAIN v.meta
  BY VolumeIs
<1>2. EntriesOf(v, Root, f)
  BY DEF Shape, DirAt
<1>3. PICK n \in Nat : /\ n = Len(v.names[Root]) /\ Len(f.names) = n + 1
                       /\ \A e \in NamesIn(v, Root) : \E j \in 1 .. n : e = f.names[j]
  <2> HIDE DEF f
  <2> QED
    BY <1>1, <1>2, EntriesAre, SMTT(30)
<1>4. Before(seen, 1) = {} /\ 1 \in 1 .. Len(path)
  BY DEF Before
<1>5. \A j \in 1 .. f.i - 1 : Cleared(v, f.names[j], {}, X)
  <2>1. \A j \in 1 .. path[1].i - 1 : Cleared(v, path[1].names[j], Before(seen, 1), X)
    BY <1>4 DEF Done
  <2> QED
    BY <1>4, <2>1
<1>6. f.i - 1 = n
  BY <1>3
<1> HIDE DEF f
<1>7. \A e \in NamesIn(v, Root) : Cleared(v, e, {}, X)
  BY <1>3, <1>5, <1>6
<1> QED
  BY <1>1, <1>7, CoverStep

-----------------------------------------------------------------------------
(* What is left of the orphans that were found leads to all the others: of *)
(* the directories that lead to one of them, some is led to by none.       *)
LEMMA InsideLeads ==
  ASSUME NEW v \in Volumes, KindsAgree(v), NEW x \in DOMAIN v.meta, NEW y \in Inside(v, x),
         y \in Gone(v), v.meta[y].dir
  PROVE  Inside(v, y) \subseteq Inside(v, x)
<1>1. PICK d \in Reach(v, x, {}) : \E e \in NamesIn(v, d) : e.kind # "dot" /\ e.addr = y
  BY DEF Inside, Beneath
<1>2. PICK e \in NamesIn(v, d) : e.kind # "dot" /\ e.addr = y
  BY <1>1
<1>3. v.meta[y] = [alloc |-> FALSE, dir |-> TRUE] /\ y \in DOMAIN v.meta
  <2>1. y \in DOMAIN v.meta /\ v.meta[y] \in MetaRec /\ ~v.meta[y].alloc
    BY VolumeIs DEF Gone
  <2>2. v.meta[y].alloc = FALSE /\ v.meta[y].dir = TRUE
    BY <2>1 DEF MetaRec
  <2> QED
    BY <2>1, <2>2 DEF MetaRec
<1>4. d \in DOMAIN v.names
  BY <1>2 DEF NamesIn
<1>5. Enters(v, e)
  BY <1>2, <1>3, <1>4 DEF KindsAgree
<1>6. y \in Reach(v, x, {})
  BY <1>2, <1>5, ReachIs DEF Closed
<1> QED
  BY <1>6, ReachThrough

LEMMA Outermost ==
  ASSUME NEW v \in Volumes, Orderly(v), NEW found \in SUBSET Orphaned(v),
         NEW subdirs \in SUBSET Under(v, found), NEW x \in Under(v, found)
  PROVE  x \in Under(v, found \ subdirs)
<1> DEFINE U == {y \in found : v.meta[y].dir /\ x \in Inside(v, y)}
           D(y) == {u \in U : u \in Inside(v, y)}
           Above(y) == Cardinality(U) - Cardinality(D(y))
           T == {Above(y) : y \in U}
<1>1. found \subseteq Gone(v) /\ Gone(v) \subseteq DOMAIN v.meta
  BY DEF Orphaned, Gone
<1>2. IsFiniteSet(U)
  <2>1. U \subseteq DOMAIN v.meta
    BY <1>1
  <2> HIDE DEF U
  <2> QED
    BY <2>1, VolumeIs, FS_Subset
<1>3. \A y : /\ D(y) \subseteq U /\ IsFiniteSet(D(y))
             /\ Cardinality(D(y)) \in Nat /\ Cardinality(U) \in Nat /\ Above(y) \in Nat
  <2> TAKE y
  <2>1. D(y) \in SUBSET U
    OBVIOUS
  <2> HIDE DEF U, D
  <2>2. IsFiniteSet(D(y)) /\ Cardinality(D(y)) <= Cardinality(U)
    BY <1>2, <2>1, FS_Subset
  <2>3. Cardinality(D(y)) \in Nat /\ Cardinality(U) \in Nat
    BY <1>2, <2>2, FS_CardinalityType
  <2> QED
    BY <2>1, <2>2, <2>3
<1>4. U # {}
  BY DEF Under
<1>5. PICK y \in U : \A z \in U : Above(y) <= Above(z)
  <2>1. T \subseteq Nat /\ T # {}
    <3> HIDE DEF U, Above
    <3> QED
      BY <1>3, <1>4
  <2>2. \E m \in T : \A n \in T : m <= n
    <3> HIDE DEF T
    <3> QED
      BY <2>1, LeastNat
  <2> HIDE DEF U, Above
  <2> QED
    BY <2>2
<1>6. y \in found /\ v.meta[y].dir /\ x \in Inside(v, y)
  OBVIOUS
<1>7. y \notin subdirs
  <2> SUFFICES ASSUME y \in subdirs PROVE FALSE
    OBVIOUS
  <2>1. PICK z \in found : v.meta[z].dir /\ y \in Inside(v, z)
    BY DEF Under
  <2>2. Inside(v, y) \subseteq Inside(v, z)
    <3>1. KindsAgree(v) /\ z \in DOMAIN v.meta /\ y \in Gone(v)
      BY <1>1, <1>6 DEF Orderly
    <3> HIDE DEF U
    <3> QED
      BY <1>6, <2>1, <3>1, InsideLeads
  <2>3. z \in U
    BY <1>6, <2>1, <2>2
  <2>4. D(y) \subseteq D(z) /\ y \in D(z)
    BY <2>1, <2>2
  <2>5. y \notin D(y)
    BY <1>6 DEF Orderly
  <2>6. Cardinality(D(y)) < Cardinality(D(z))
    <3> HIDE DEF D
    <3>1. /\ Cardinality(D(y)) <= Cardinality(D(z))
          /\ Cardinality(D(z)) = Cardinality(D(y)) => D(z) = D(y)
      BY <1>3, <2>4, FS_Subset
    <3>2. Cardinality(D(y)) \in Nat /\ Cardinality(D(z)) \in Nat
      BY <1>3
    <3> QED
      BY <2>4, <2>5, <3>1, <3>2
  <2>7. Above(y) <= Above(z)
    BY <1>5, <2>3
  <2> HIDE DEF D, U
  <2> QED
    BY <1>3, <2>6, <2>7
<1> HIDE DEF U
<1> QED
  BY <1>6, <1>7 DEF Under

LEMMA OrphansKept ==
  ASSUME NEW v \in Volumes, NEW found \in Seq(Orphaned(v)),
         NEW subdirs \in SUBSET Under(v, Range(found)),
         Orphaned(v) \subseteq Range(found) \cup subdirs
  PROVE  GoodNames(v, Dedup(found, subdirs))
<1> DEFINE q == Dedup(found, subdirs)
           P == Range(found)
<1>1. q \in Seq(Orphaned(v)) /\ P \ subdirs \subseteq Range(q)
  BY DedupIs DEF Keeps
<1>2. P \in SUBSET Orphaned(v)
  <2>1. \A i \in DOMAIN found : found[i] \in Orphaned(v)
    BY LenProperties, ElementOfSeq
  <2> QED
    BY <2>1 DEF Range
<1> HIDE DEF q, P
<1>3. ASSUME Orderly(v) PROVE Orphaned(v) \subseteq Range(q) \cup Under(v, Range(q))
  <2> SUFFICES ASSUME NEW x \in Orphaned(v), x \notin Range(q)
               PROVE  x \in Under(v, Range(q))
    OBVIOUS
  <2>1. x \in subdirs /\ subdirs \in SUBSET Under(v, P)
    BY <1>1 DEF P
  <2>2. x \in Under(v, P \ subdirs)
    BY <1>2, <1>3, <2>1, Outermost
  <2> QED
    BY <1>1, <2>2 DEF Under
<1> QED
  BY <1>1, <1>3 DEF GoodNames, q

-----------------------------------------------------------------------------
(* A walk of everything.  In $OrphanFiles it finds what the search has     *)
(* found, and when it has done with those names it has shown all orphans.  *)
Whole == [recurse |-> TRUE, noorphan |-> FALSE, shows |-> BOOLEAN]

EntryNames(q) == [i \in DOMAIN q |-> OrphanEntry(q[i])]

Hunting(v, path, seen, shown) ==
  /\ Len(path) >= 2 /\ Len(seen) >= 1 /\ seen[1] = OrphanDir =>
       \E q : GoodNames(v, q) /\ path[2].names = EntryNames(q)
  /\ Len(path) = 1 /\ Len(seen) = 0 /\ path[1].i > Len(path[1].names) =>
       Orphaned(v) \subseteq shown

Hunts(v, w) ==
  w.cb = "user" /\ w.flags = Whole /\ w.asked = "cont" /\ AllOpen(v) /\ Orderly(v) =>
    /\ w.pc = "end" /\ w.ret = "cont" => Orphaned(v) \subseteq w.shown
    /\ w.pc # "end" => Hunting(v, w.path, w.seen, w.shown)

LEMMA EntryNamesIs ==
  ASSUME NEW v \in Volumes, NEW q \in Seq(Gone(v))
  PROVE  /\ EntryNames(q) \in Seq(NameRec) /\ Len(EntryNames(q)) = Len(q) /\ Len(q) \in Nat
         /\ \A j \in 1 .. Len(q) : q[j] \in Gone(v) /\ EntryNames(q)[j] = OrphanEntry(q[j])
<1> DEFINE n == Len(q)
           names == EntryNames(q)
<1>1. n \in Nat /\ DOMAIN q = 1 .. n
  BY LenProperties
<1>2. \A i \in 1 .. n : q[i] \in Gone(v)
  BY <1>1, ElementOfSeq
<1>3. \A y \in Gone(v) : OrphanEntry(y) \in NameRec
  BY VolumeIs DEF Gone, OrphanEntry, NameRec, Kinds
<1>4. names = [i \in 1 .. n |-> OrphanEntry(q[i])]
  BY <1>1 DEF EntryNames
<1> HIDE DEF n, names
<1>5. names \in [1 .. n -> NameRec]
  BY <1>2, <1>3, <1>4
<1>6. names \in Seq(NameRec)
  BY <1>1, <1>5, SeqDef
<1>7. Len(names) = n
  BY <1>1, <1>5, <1>6, LenProperties
<1> QED
  BY <1>1, <1>2, <1>4, <1>6, <1>7 DEF n, names

LEMMA OrphansDone ==
  ASSUME NEW v \in Volumes, Orderly(v), NEW path \in Seq(FrameRec), NEW seen \in Seq(Nat),
         Len(path) = 2, Len(seen) = 1, seen[1] = OrphanDir,
         path[2].i > Len(path[2].names), NEW shown, Hunting(v, path, seen, shown),
         Done(v, path, seen, Shown(Whole, shown))
  PROVE  Orphaned(v) \subseteq shown
<1> DEFINE X == Shown(Whole, shown)
           f == path[2]
<1>1. PICK q : GoodNames(v, q) /\ f.names = EntryNames(q)
  BY DEF Hunting
<1>2. q \in Seq(Orphaned(v)) /\ q \in Seq(Gone(v))
  BY <1>1, SeqWider DEF GoodNames, Orphaned
<1>3. PICK n \in Nat : /\ n = Len(q) /\ Len(f.names) = n /\ DOMAIN q = 1 .. n
                       /\ \A j \in 1 .. n : q[j] \in Gone(v) /\ f.names[j] = OrphanEntry(q[j])
  BY <1>1, <1>2, EntryNamesIs, LenProperties, SMTT(30)
<1>4. Before(seen, 2) = {OrphanDir}
  BY DEF Before
<1>5. \A e \in X : e.addr \in shown
  BY DEF Shown, Whole, Shows, NameRec
<1>6. ASSUME NEW y \in Range(q)
      PROVE  y \in shown /\ (v.meta[y].dir => Beneath(v, y, {}) \subseteq X)
  <2>1. PICK j \in 1 .. n : y = q[j]
    BY <1>3 DEF Range
  <2>2. Cleared(v, f.names[j], Before(seen, 2), X)
    <3>1. 2 \in 1 .. Len(path) /\ j \in 1 .. f.i - 1
      <4>1. f \in FrameRec
        <5>1. \A k \in 1 .. Len(path) : path[k] \in FrameRec
          BY ElementOfSeq
        <5> QED
          BY <5>1
      <4>2. f.i \in Nat /\ f.i > n
        BY <1>3, <4>1 DEF FrameRec
      <4> HIDE DEF f
      <4> QED
        BY <2>1, <4>2
    <3>2. \A i \in 1 .. path[2].i - 1 : Cleared(v, path[2].names[i], Before(seen, 2), X)
      BY <3>1 DEF Done
    <3> QED
      BY <3>1, <3>2
  <2> DEFINE e == OrphanEntry(y)
  <2>3. Cleared(v, e, {OrphanDir}, X) /\ y \in Gone(v)
    BY <1>3, <1>4, <2>1, <2>2
  <2>4. e \in X /\ e.addr = y
    BY <2>3 DEF Cleared, OrphanEntry
  <2>5. y \in DOMAIN v.meta /\ ~v.meta[y].alloc /\ y # OrphanDir
    BY <2>3, VolumeIs DEF Gone
  <2>6. v.meta[y].dir => Enters(v, e)
    BY <2>5 DEF Enters, OrphanEntry
  <2> HIDE DEF e, X
  <2>7. v.meta[y].dir => Beneath(v, y, {OrphanDir}) \subseteq X
    BY <2>3, <2>4, <2>5, <2>6 DEF Cleared
  <2> QED
    BY <1>5, <2>4, <2>7, Unentered
<1>7. Under(v, Range(q)) \subseteq shown
  <2> SUFFICES ASSUME NEW y \in Range(q), v.meta[y].dir, NEW x \in Inside(v, y)
               PROVE  x \in shown
    BY DEF Under
  <2>1. PICK e \in Beneath(v, y, {}) : x = e.addr
    BY DEF Inside
  <2> HIDE DEF X
  <2>2. e \in X
    BY <1>6, <2>1
  <2> QED
    BY <1>5, <2>1, <2>2
<1> QED
  BY <1>1, <1>6, <1>7 DEF GoodNames

-----------------------------------------------------------------------------
(* What holds of the list and the orphans in every state.  A walk that     *)
(* saves has all deleted inodes in its list that the names it has done     *)
(* point to, and only named ones; it does not save in $OrphanFiles.        *)
Saves(v, w) ==
  /\ w.pc = "begin" => w.list = {}
  /\ w.saving => /\ w.cb # "orphan" /\ w.flags.recurse /\ w.list \subseteq NamedGone(v)
                 /\ Covered(v, Root, w, Listed(v, w.list))

Quiet(w) ==
  w.pc # "end" =>
    \A k \in 1 .. Len(w.seen) : w.seen[k] = OrphanDir => ~w.saving /\ ~w.path[k].bak

\* The walk that is to fill the list saves, or the list is there.
Informs(v, list, w) ==
  w.cb = "named" => /\ w.pc = "begin" \/ w.saving \/ list = NamedGone(v)
                    /\ w.pc = "end" => w.ret # "stop"

\* The walks of the search start in directories, so they can be opened if all can.
Opens(v, w, b) ==
  /\ w.cb = "orphan" => v.meta[Start(w, b)].dir
  /\ w.cb # "user" /\ AllOpen(v) /\ w.pc = "end" => w.ret # "error"

GoodGot(v, got) == (~got.err => GoodNames(v, got.names)) /\ (AllOpen(v) => ~got.err)

WalkGood(v, list, w, b, top) ==
  /\ Saves(v, w) /\ Quiet(w) /\ Informs(v, list, w) /\ Opens(v, w, b) /\ Hunts(v, w)
  /\ top /\ w.pc = "wait" => GoodGot(v, w.got)

FindGood(v, list, r, top) ==
  /\ r.pc \in {"scan", "entering"} =>
       list = NamedGone(v) /\ Orphaned(v) \ r.todo \subseteq Range(r.found) \cup r.subdirs
  /\ top /\ r.pc = "loading" /\ ~r.got.err => list = NamedGone(v)
  /\ top /\ r.pc \in {"loading", "entering"} /\ AllOpen(v) => ~r.got.err
  /\ r.found \in Seq(Orphaned(v)) /\ r.subdirs \subseteq Under(v, Range(r.found))

RecGood(v, list, r, b, top) ==
  /\ r.fn = "walk" => WalkGood(v, list, r, b, top)
  /\ r.fn = "find_orphans" => FindGood(v, list, r, top)

StackGood(v, list, s) ==
  \A k \in 1 .. Len(s) : RecGood(v, list, s[k], Below(s, k), k = Len(s))

ResultGood(v, x) ==
  /\ x.fn = "walk" /\ ~x.err /\ x.asked = "cont" /\ x.flags = Whole /\ AllOpen(v) /\ Orderly(v)
  => Orphaned(v) \subseteq x.shown

ListsOk ==
  /\ list_inum_named \in {{}, NamedGone(Vol)}
  /\ orphan_dir # NULL => GoodNames(Vol, orphan_dir)
  /\ \A t \in Threads : StackGood(Vol, list_inum_named, stack[t])
  /\ \A t \in Threads : ResultGood(Vol, result[t])

(* A name that is passed or entered.  At that of $OrphanFiles the list is  *)
(* complete, and the walk does not save any more.                          *)
LEMMA ProcessedSaves ==
  ASSUME fs \in DOMAIN FileSystems, NEW v, v = FileSystems[fs], Walkable(v),
         NEW a \in DOMAIN v.meta, NEW w \in WalkRec, Walking(v, a, w), AtName(w),
         Saves(v, w), Quiet(w), w.cb # "orphan" => a = Root,
         list_inum_named \in {{}, NamedGone(v)}
  PROVE  /\ Saves(v, Processed(w)) /\ Quiet(Processed(w))
         /\ SharedAfter(w) \in {list_inum_named, NamedGone(v)}
         /\ w.saving => Processed(w).saving \/ SharedAfter(w) = NamedGone(v)
<1> DEFINE e == Here(w)
           c == Collect(w)
           d == Noted(w)
           r == Processed(w)
           n == Len(w.path)
           early == w.saving /\ e.addr = OrphanDir /\ AtLastName(w)
<1>1. v \in Volumes /\ OrphanDir \notin Gone(v)
  BY VolumeIs DEF Volumes, Gone
<1>2. /\ w.path \in Seq(FrameRec) /\ w.seen \in Seq(Nat) /\ w.path # <<>>
      /\ n \in Nat \ {0} /\ Len(w.seen) \in Nat /\ n = Len(w.seen) + 1
      /\ e \in NameRec /\ e.addr \in Nat /\ Shape(v, a, w.flags, w.path, w.seen)
  BY <1>1, HereIs
<1>3. c.list = IF w.saving /\ Deleted(e.addr) THEN w.list \cup {e.addr} ELSE w.list
  BY <1>2, CollectIs
<1>4. Deleted(e.addr) <=> e.addr \in Gone(v)
  BY <1>2, DeletedIs
<1>5. /\ early => ~d.saving /\ SharedAfter(w) = SavedNames(c)
      /\ ~early => d.saving = w.saving /\ d.list = c.list /\ SharedAfter(w) = list_inum_named
  BY <1>2, NotedIs
<1>6. /\ r \in WalkRec /\ Kept(w, r) /\ r.list = d.list /\ r.pc \in {"names", "open"}
      /\ Passed(w, d, r) \/ Entered(w, d, r)
      /\ \A X, Y : /\ w.flags.recurse /\ Covered(v, a, w, X) /\ X \subseteq Y /\ Here(w) \in Y
                     => Covered(v, a, r, Y)
  BY ProcessedIs
<1>7. e.addr = OrphanDir =>
        n = 1 /\ Len(w.seen) = 0 /\ a = Root /\ AtLastName(w) /\ w.path[1].i = Len(w.path[1].names)
  BY <1>1, AtOrphanName
<1>8. w.pc = "names"
  BY DEF AtName
<1> HIDE DEF e, c, d, r, n
<1>9. /\ r.saving => d.saving
      /\ e.addr # OrphanDir => r.saving = d.saving
  BY <1>6 DEF Passed, Entered, e
<1>10. d.saving => w.saving /\ e.addr # OrphanDir
  BY <1>5, <1>7
<1>11. Quiet(r)
  <2> SUFFICES ASSUME NEW k \in 1 .. Len(r.seen), r.seen[k] = OrphanDir
               PROVE  ~r.saving /\ ~r.path[k].bak
    BY DEF Quiet
  <2>1. CASE k \in 1 .. Len(w.seen) /\ w.seen[k] = OrphanDir
    <3>1. ~w.saving /\ ~w.path[k].bak
      BY <1>8, <2>1 DEF Quiet
    <3>2. k \in 1 .. n /\ k # n
      BY <1>2, <2>1
    <3>3. r.path[k].bak = w.path[k].bak
      <4>1. Stepped(w.path)[k].bak = w.path[k].bak
        BY <1>2, <3>2, SteppedIs DEF n
      <4>2. Entered(w, d, r) => r.path[k].bak = w.path[k].bak
        BY <3>2 DEF Entered, n
      <4> QED
        BY <1>6, <4>1, <4>2 DEF Passed
    <3> QED
      BY <1>9, <1>10, <3>1, <3>3
  <2>2. CASE ~(k \in 1 .. Len(w.seen) /\ w.seen[k] = OrphanDir)
    <3>1. Entered(w, d, r)
      BY <1>6, <2>2 DEF Passed
    <3>2. r.seen = Append(w.seen, e.addr)
      BY <3>1 DEF Entered, e
    <3>3. k = n /\ e.addr = OrphanDir
      BY <1>2, <2>2, <3>2, AppendProperties
    <3>4. n \in 1 .. n
      BY <1>2
    <3>5. r.path[k].bak = d.saving
      BY <3>1, <3>3, <3>4 DEF Entered, n
    <3> QED
      BY <1>9, <1>10, <3>3, <3>5
  <2> QED
    BY <2>1, <2>2
<1>12. CASE early
  <2>1. ~r.saving /\ SharedAfter(w) = SavedNames(c)
    BY <1>5, <1>9, <1>12
  <2>2. c.list = w.list
    BY <1>1, <1>3, <1>4, <1>12
  <2>3. w.list \subseteq NamedGone(v) /\ Covered(v, Root, w, Listed(v, w.list))
    BY <1>12 DEF Saves
  <2>4. Done(v, w.path, w.seen, Listed(v, w.list))
    BY <1>8, <2>3 DEF Covered
  <2>5. Beneath(v, Root, {}) \subseteq Listed(v, w.list)
    <3>1. Len(w.path) = 1 /\ w.path[1].i = Len(w.path[1].names)
      BY <1>7, <1>12 DEF n
    <3>2. Shape(v, Root, w.flags, w.path, w.seen)
      BY <1>2, <1>7, <1>12
    <3> QED
      BY <1>1, <1>2, <2>4, <3>1, <3>2, RootDone
  <2>6. NamedGone(v) \subseteq w.list
    BY <2>5 DEF NamedGone, Listed
  <2>7. SavedNames(c) = NamedGone(v)
    BY <2>2, <2>3, <2>6 DEF SavedNames
  <2>8. Saves(v, r)
    BY <1>6, <2>1 DEF Saves
  <2> QED
    BY <1>11, <2>1, <2>7, <2>8 DEF r
<1>13. CASE ~early
  <2>1. SharedAfter(w) = list_inum_named /\ r.list = c.list /\ d.saving = w.saving
    BY <1>5, <1>6, <1>13
  <2>2. w.saving => e.addr # OrphanDir
    BY <1>7, <1>13
  <2>3. r.saving = w.saving
    <3>1. r.saving \in BOOLEAN /\ w.saving \in BOOLEAN
      BY <1>6 DEF WalkRec
    <3> QED
      BY <1>9, <1>10, <2>1, <2>2, <3>1
  <2>4. ASSUME w.saving
        PROVE  /\ r.cb # "orphan" /\ r.flags.recurse /\ r.list \subseteq NamedGone(v)
               /\ Covered(v, Root, r, Listed(v, r.list))
    <3>1. /\ w.cb # "orphan" /\ w.flags.recurse /\ w.list \subseteq NamedGone(v)
          /\ Covered(v, Root, w, Listed(v, w.list)) /\ a = Root
      BY <2>4 DEF Saves
    <3>2. r.cb = w.cb /\ r.flags = w.flags
      BY <1>6 DEF Kept
    <3>3. e \in Beneath(v, Root, {})
      <4>1. \A k \in 1 .. Len(w.seen) : w.seen[k] # OrphanDir
        BY <1>8, <2>4 DEF Quiet
      <4> QED
        BY <1>1, <2>2, <2>4, <3>1, <4>1, HereBeneath DEF e
    <3>4. c.list \subseteq NamedGone(v)
      BY <1>3, <1>4, <3>1, <3>3 DEF NamedGone
    <3>5. e \in Listed(v, c.list)
      BY <1>2, <1>3, <1>4, <2>4 DEF Listed
    <3>6. Listed(v, w.list) \subseteq Listed(v, c.list)
      BY <1>3 DEF Listed
    <3>7. Covered(v, Root, r, Listed(v, c.list))
      BY <1>6, <3>1, <3>5, <3>6 DEF e
    <3> QED
      BY <2>1, <3>1, <3>2, <3>4, <3>7
  <2>5. Saves(v, r)
    BY <1>6, <2>3, <2>4 DEF Saves
  <2> QED
    BY <1>11, <2>1, <2>3, <2>5 DEF r
<1> QED
  BY <1>12, <1>13

(* A directory that is left or did not open.  The walk saves as before. *)
LEMMA LeftSaves ==
  ASSUME NEW v, NEW w \in WalkRec, w.pc \in {"open", "wait", "names"},
         NEW path \in Seq(FrameRec), NEW ret, NEW r, Left(w, path, ret, r),
         Len(path) = Len(w.seen),
         \A k \in 1 .. Len(path) : path[k] = w.path[k] /\ w.seen[k] = Current(path[k]).addr,
         \A X : Covered(v, Root, w, X) => Covered(v, Root, r, X) \/ w.cb = "orphan",
         Saves(v, w), Quiet(w)
  PROVE  r.saving = w.saving /\ Saves(v, r) /\ Quiet(r)
<1>1. /\ Kept(w, r) /\ r.list = w.list /\ r.pc \in {"names", "end"}
      /\ r.pc = "end" => r.saving = w.saving
      /\ r.pc = "names" =>
           /\ path # <<>> /\ r.path = Stepped(path) /\ r.seen = Front(w.seen)
           /\ r.saving = IF Current(path[Len(path)]).addr = OrphanDir THEN path[Len(path)].bak
                         ELSE w.saving
  BY DEF Left
<1>2. w.seen \in Seq(Nat) /\ w.saving \in BOOLEAN
  BY DEF WalkRec
<1>3. \A k \in 1 .. Len(w.seen) : w.seen[k] = OrphanDir => ~w.saving /\ ~w.path[k].bak
  BY DEF Quiet
<1>4. r.saving = w.saving
  <2>1. CASE r.pc = "end"
    BY <1>1, <2>1
  <2>2. CASE r.pc = "names"
    <3>1. Len(path) \in 1 .. Len(path) /\ Len(path) \in Nat
      BY <1>1, <2>2, EmptySeq, LenProperties
    <3> DEFINE m == Len(path)
    <3>2. m \in 1 .. Len(w.seen) /\ path[m] = w.path[m] /\ w.seen[m] = Current(path[m]).addr
      BY <3>1
    <3> HIDE DEF m
    <3>3. path[m].bak \in BOOLEAN
      <4>1. path[m] \in FrameRec
        BY <3>1, ElementOfSeq DEF m
      <4> QED
        BY <4>1 DEF FrameRec
    <3>4. r.saving = IF Current(path[m]).addr = OrphanDir THEN path[m].bak ELSE w.saving
      BY <1>1, <2>2 DEF m
    <3> QED
      BY <1>2, <1>3, <3>2, <3>3, <3>4
  <2> QED
    BY <1>1, <2>1, <2>2
<1>5. Saves(v, r)
  <2> SUFFICES ASSUME w.saving
               PROVE  /\ r.cb # "orphan" /\ r.flags.recurse /\ r.list \subseteq NamedGone(v)
                      /\ Covered(v, Root, r, Listed(v, r.list))
    BY <1>1, <1>4 DEF Saves
  <2>1. /\ w.cb # "orphan" /\ w.flags.recurse /\ w.list \subseteq NamedGone(v)
        /\ Covered(v, Root, w, Listed(v, w.list))
    BY DEF Saves
  <2> QED
    BY <1>1, <2>1 DEF Kept
<1>6. Quiet(r)
  <2> SUFFICES ASSUME r.pc = "names", NEW k \in 1 .. Len(r.seen), r.seen[k] = OrphanDir
               PROVE  ~r.saving /\ ~r.path[k].bak
    BY <1>1 DEF Quiet
  <2>1. /\ r.path = Stepped(path) /\ r.seen = Front(w.seen) /\ path # <<>>
    BY <1>1
  <2>2. w.seen # <<>> /\ Len(w.seen) \in Nat
    BY <1>2, <2>1, EmptySeq, LenProperties
  <2>3. k \in 1 .. Len(w.seen) /\ k \in 1 .. Len(path) /\ w.seen[k] = OrphanDir
    <3>1. /\ Len(Front(w.seen)) = Len(w.seen) - 1
          /\ \A j \in 1 .. Len(w.seen) - 1 : Front(w.seen)[j] = w.seen[j]
      BY <1>2, <2>2, FrontIs
    <3> QED
      BY <2>1, <2>2, <3>1
  <2>4. r.path[k].bak = path[k].bak /\ path[k] = w.path[k]
    BY <2>1, <2>3, SteppedIs
  <2> QED
    BY <1>3, <1>4, <2>3, <2>4
<1> QED
  BY <1>4, <1>5, <1>6

(* A directory that opens. *)
LEMMA OpenedSaves ==
  ASSUME NEW v, NEW w \in WalkRec, w.pc \in {"open", "wait"}, Len(w.path) = Len(w.seen),
         NEW f \in FrameRec, NEW r, r.cb = w.cb, r.flags = w.flags, r.pc = "names",
         r.path = Append(w.path, f), r.seen = w.seen, r.saving = w.saving, r.list = w.list,
         \A X : Covered(v, Root, w, X) => Covered(v, Root, r, X) \/ w.cb = "orphan",
         Saves(v, w), Quiet(w)
  PROVE  Saves(v, r) /\ Quiet(r)
<1>1. Saves(v, r)
  BY DEF Saves
<1>2. w.path \in Seq(FrameRec) /\ w.seen \in Seq(Nat)
  BY DEF WalkRec
<1>3. \A k \in 1 .. Len(w.path) : Append(w.path, f)[k] = w.path[k]
  BY <1>2, AppendProperties
<1>4. Quiet(r)
  BY <1>3 DEF Quiet
<1> QED
  BY <1>1, <1>4

-----------------------------------------------------------------------------
(* A walk of everything that comes to the end of a directory.  The last    *)
(* name of the root is that of $OrphanFiles.                               *)
LEMMA RootLast ==
  ASSUME NEW v \in Volumes, NEW f \in FrameRec, EntriesOf(v, Root, f)
  PROVE  Len(f.names) \in Nat \ {0} /\ f.names[Len(f.names)] = OrphanName
<1>1. Root # OrphanDir
  BY VolumeIs
<1> DEFINE n == Len(v.names[Root])
<1>2. n \in Nat /\ Len(f.names) = n + 1 /\ f.names[n + 1] = OrphanName
  BY <1>1, EntriesAre
<1> HIDE DEF n
<1> QED
  BY <1>2

LEMMA HuntProcessed ==
  ASSUME NEW v \in Volumes, Walkable(v), NEW w \in WalkRec, Walking(v, Root, w), AtName(w),
         w.flags = Whole, Hunting(v, w.path, w.seen, w.shown), NEW d, NEW r, r.shown = w.shown,
         IF Goes(v, w.flags, Here(w)) /\ Here(w).addr \notin Range(w.seen)
         THEN Entered(w, d, r) ELSE Passed(w, d, r)
  PROVE  Hunting(v, r.path, r.seen, r.shown)
<1> DEFINE n == Len(w.path)
           e == Here(w)
<1>1. /\ w.path \in Seq(FrameRec) /\ w.seen \in Seq(Nat) /\ w.path # <<>>
      /\ n \in Nat \ {0} /\ Len(w.seen) \in Nat /\ n = Len(w.seen) + 1 /\ n \in 1 .. n
      /\ w.path[n] \in FrameRec /\ w.path[n].i \in 1 .. Len(w.path[n].names)
      /\ e = Current(w.path[n]) /\ e.addr \in Nat
      /\ EntriesOf(v, DirAt(Root, w.seen, n), w.path[n])
  BY HereIs
<1> HIDE DEF e
<1>2. /\ Len(r.path) = n /\ \A k \in 1 .. n : r.path[k].names = w.path[k].names
      /\ r.seen = w.seen \/ r.seen = Append(w.seen, e.addr)
  <2>1. CASE Passed(w, d, r)
    BY <1>1, <2>1, SteppedIs DEF Passed
  <2>2. CASE Entered(w, d, r)
    BY <2>2 DEF Entered, Alike, e
  <2> QED
    BY <2>1, <2>2
<1>3. ASSUME n >= 2, Len(r.seen) >= 1, r.seen[1] = OrphanDir
      PROVE  \E q : GoodNames(v, q) /\ r.path[2].names = EntryNames(q)
  <2>1. Len(w.seen) >= 1 /\ 1 \in 1 .. Len(w.seen)
    BY <1>1, <1>3
  <2>2. Append(w.seen, e.addr)[1] = w.seen[1]
    BY <1>1, <2>1, AppendProperties
  <2>3. w.seen[1] = OrphanDir
    BY <1>2, <1>3, <2>2
  <2>4. r.path[2].names = w.path[2].names
    <3>1. 2 \in 1 .. n
      BY <1>1, <1>3
    <3> QED
      BY <1>2, <3>1
  <2> QED
    BY <1>3, <2>1, <2>3, <2>4 DEF Hunting
<1>4. ~(n = 1 /\ Len(r.seen) = 0 /\ r.path[1].i > Len(r.path[1].names))
  <2> SUFFICES ASSUME n = 1, Len(r.seen) = 0, r.path[1].i > Len(r.path[1].names) PROVE FALSE
    OBVIOUS
  <2>1. r.seen = w.seen
    BY <1>1, <1>2, AppendProperties
  <2>2. Passed(w, d, r)
    <3>1. Len(Append(w.seen, e.addr)) # Len(w.seen)
      BY <1>1, AppendProperties
    <3> QED
      BY <2>1, <3>1 DEF Entered, e
  <2>3. w.path[1].i = Len(w.path[1].names)
    <3>1. r.path[1].i = w.path[1].i + 1 /\ r.path[1].names = w.path[1].names
      BY <1>1, <2>2, SteppedIs DEF Passed
    <3> QED
      BY <1>1, <3>1
  <2>4. e = OrphanName
    <3>1. DirAt(Root, w.seen, n) = Root
      BY DEF DirAt
    <3>2. w.path[1].names[Len(w.path[1].names)] = OrphanName
      BY <1>1, <3>1, RootLast
    <3> QED
      BY <1>1, <2>3, <3>2 DEF Current
  <2>5. Goes(v, w.flags, Here(w)) /\ Here(w).addr \notin Range(w.seen)
    <3>1. Range(w.seen) = {}
      BY <1>1, LenProperties DEF Range
    <3> QED
      BY <2>4, <3>1 DEF Goes, OrphanName, Whole, e
  <2>6. r.seen = Append(w.seen, e.addr)
    BY <2>5 DEF Entered, e
  <2> QED
    BY <1>1, <2>1, <2>6, AppendProperties
<1> QED
  BY <1>2, <1>3, <1>4 DEF Hunting

(* Back from a directory whose names are done, or that did not open. *)
LEMMA HuntLeft ==
  ASSUME NEW v \in Volumes, Walkable(v), NEW w \in WalkRec, w.flags = Whole,
         NEW path \in Seq(FrameRec), Shape(v, Root, w.flags, path, w.seen),
         Len(path) = Len(w.seen), \A k \in 1 .. Len(path) : path[k] = w.path[k],
         Len(path) <= Len(w.path), Hunting(v, w.path, w.seen, w.shown),
         Len(path) = 1 /\ w.seen[1] = OrphanDir => Orphaned(v) \subseteq w.shown,
         NEW ret, NEW r, Left(w, path, ret, r), r.pc = "names"
  PROVE  Hunting(v, r.path, r.seen, r.shown)
<1> DEFINE n == Len(path)
           s == Front(w.seen)
<1>1. /\ path # <<>> /\ r.path = Stepped(path) /\ r.seen = s /\ r.shown = w.shown
  BY DEF Left, Kept
<1>2. /\ n \in Nat \ {0} /\ n \in 1 .. n /\ w.seen \in Seq(Nat) /\ w.seen # <<>>
      /\ Len(w.path) \in Nat
  <2>1. w.seen \in Seq(Nat) /\ w.path \in Seq(FrameRec)
    BY DEF WalkRec
  <2> QED
    BY <1>1, <2>1, EmptySeq, LenProperties
<1>3. Len(s) = n - 1 /\ \A k \in 1 .. n - 1 : s[k] = w.seen[k]
  <2>1. /\ Len(s) = Len(w.seen) - 1 /\ \A k \in 1 .. Len(w.seen) - 1 : s[k] = w.seen[k]
    BY <1>2, FrontIs
  <2> QED
    BY <2>1
<1>4. /\ Len(r.path) = n
      /\ \A k \in 1 .. n : /\ r.path[k].names = path[k].names
                           /\ r.path[k].i = IF k = n THEN path[k].i + 1 ELSE path[k].i
  BY <1>1, SteppedIs
<1> HIDE DEF s
<1>5. ASSUME n >= 2, Len(r.seen) >= 1, r.seen[1] = OrphanDir
      PROVE  \E q : GoodNames(v, q) /\ r.path[2].names = EntryNames(q)
  <2>1. w.seen[1] = OrphanDir /\ Len(w.seen) >= 1 /\ Len(w.path) >= 2
    BY <1>1, <1>2, <1>3, <1>5
  <2>2. r.path[2].names = w.path[2].names
    BY <1>2, <1>4, <1>5
  <2> QED
    BY <2>1, <2>2 DEF Hunting
<1>6. ASSUME n = 1, r.path[1].i > Len(r.path[1].names)
      PROVE  Orphaned(v) \subseteq r.shown
  <2>1. /\ 1 \in 1 .. Len(w.seen) /\ path[1].i \in 1 .. Len(path[1].names)
        /\ w.seen[1] = Current(path[1]).addr /\ EntriesOf(v, Root, path[1])
    BY <1>6 DEF Shape, DirAt
  <2>2. path[1] \in FrameRec
    BY <1>2, <1>6, ElementOfSeq
  <2>3. Len(path[1].names) \in Nat /\ path[1].names[Len(path[1].names)] = OrphanName
    BY <2>1, <2>2, RootLast
  <2>4. path[1].i = Len(path[1].names)
    BY <1>4, <1>6, <2>1, <2>3
  <2>5. w.seen[1] = OrphanDir
    BY <2>1, <2>3, <2>4 DEF Current, OrphanName
  <2> QED
    BY <1>1, <1>6, <2>5
<1> QED
  BY <1>4, <1>5, <1>6 DEF Hunting

(* Into a directory. *)
LEMMA HuntInto ==
  ASSUME NEW v \in Volumes, NEW w \in WalkRec, Walking(v, Root, w), w.pc \in {"open", "wait"},
         Hunting(v, w.path, w.seen, w.shown), NEW f \in FrameRec, f.i = 1,
         EntriesOf(v, w.target, f),
         w.target = OrphanDir => \E q : GoodNames(v, q) /\ f.names = EntryNames(q),
         NEW shown
  PROVE  Hunting(v, Append(w.path, f), w.seen, shown)
<1> DEFINE n == Len(w.path)
           p == Append(w.path, f)
<1>1. w.path \in Seq(FrameRec) /\ w.seen \in Seq(Nat) /\ n \in Nat
  BY LenProperties DEF WalkRec
<1>2. n = Len(w.seen) /\ w.target = DirAt(Root, w.seen, n + 1)
  BY DEF Walking
<1>3. Len(p) = n + 1 /\ p[n + 1] = f /\ \A k \in 1 .. n : p[k] = w.path[k]
  BY <1>1, AppendProperties
<1> HIDE DEF p, n
<1>4. ASSUME n + 1 >= 2, w.seen[1] = OrphanDir
      PROVE  \E q : GoodNames(v, q) /\ p[2].names = EntryNames(q)
  <2>1. CASE n = 1
    <3>1. w.target = OrphanDir
      BY <1>2, <1>4, <2>1 DEF DirAt
    <3> QED
      BY <1>3, <2>1, <3>1
  <2>2. CASE n # 1
    <3>1. n >= 2 /\ 2 \in 1 .. n
      BY <1>1, <1>4, <2>2
    <3>2. p[2] = w.path[2] /\ Len(w.seen) >= 1
      BY <1>2, <1>3, <3>1
    <3> QED
      BY <1>4, <3>1, <3>2 DEF Hunting, n
  <2> QED
    BY <2>1, <2>2
<1>5. ASSUME n + 1 = 1, p[1].i > Len(p[1].names) PROVE FALSE
  <2>1. w.target = Root /\ p[1] = f
    BY <1>1, <1>2, <1>3, <1>5 DEF DirAt
  <2>2. Len(f.names) \in Nat \ {0}
    BY <2>1, RootLast
  <2> QED
    BY <1>5, <2>1, <2>2
<1> QED
  BY <1>1, <1>3, <1>4, <1>5 DEF Hunting, p

-----------------------------------------------------------------------------
(* The stacks, when the shared list stays or is filled.                    *)
LEMMA GoodLater ==
  ASSUME NEW v, NEW list, NEW now \in {list, NamedGone(v)}, NEW r, NEW b, NEW top,
         RecGood(v, list, r, b, top)
  PROVE  RecGood(v, now, r, b, top)
<1>1. WalkGood(v, list, r, b, top) => WalkGood(v, now, r, b, top)
  BY DEF WalkGood, Informs
<1>2. FindGood(v, list, r, top) => FindGood(v, now, r, top)
  BY DEF FindGood
<1> QED
  BY <1>1, <1>2 DEF RecGood

LEMMA GoodBecomes ==
  ASSUME NEW v, NEW list, NEW s \in Seq(Records), s # <<>>, StackGood(v, list, s),
         NEW now \in {list, NamedGone(v)}, NEW r \in Records,
         RecGood(v, now, r, Below(s, Len(s)), TRUE)
  PROVE  StackGood(v, now, Append(Front(s), r))
<1> DEFINE u == Append(Front(s), r)
<1>1. PICK n \in Nat \ {0} : n = Len(s)
  BY FrontIs
<1>2. Len(u) = n /\ \A k \in 1 .. n : u[k] = IF k = n THEN r ELSE s[k]
  BY <1>1, BecomeIs
<1> HIDE DEF u
<1>3. \A k \in 1 .. n : Below(u, k) = Below(s, k)
  BY <1>1, <1>2 DEF Below
<1>4. \A k \in 1 .. n : RecGood(v, now, s[k], Below(s, k), k = n)
  BY <1>1, GoodLater DEF StackGood
<1>5. ASSUME NEW k \in 1 .. n PROVE RecGood(v, now, u[k], Below(u, k), k = n)
  <2>1. CASE k = n
    <3>1. u[k] = r /\ Below(u, k) = Below(s, Len(s)) /\ (k = n) = TRUE
      BY <1>1, <1>2, <1>3, <2>1
    <3> QED
      BY <3>1
  <2>2. CASE k # n
    BY <1>2, <1>3, <1>4, <2>2
  <2> QED
    BY <2>1, <2>2
<1> QED
  BY <1>2, <1>5 DEF StackGood, u

LEMMA GoodCalls ==
  ASSUME NEW v, NEW list, NEW s \in Seq(Records), s # <<>>, StackGood(v, list, s),
         NEW r \in Records, NEW c \in Records,
         RecGood(v, list, r, Below(s, Len(s)), FALSE), RecGood(v, list, c, r, TRUE)
  PROVE  StackGood(v, list, Front(s) \o <<r, c>>)
<1> DEFINE u == Front(s) \o <<r, c>>
<1>1. PICK n \in Nat \ {0} : n = Len(s)
  BY FrontIs
<1>2. Len(u) = n + 1
  <2> DEFINE f == Front(s)
  <2>1. f \in Seq(Records) /\ Len(f) = n - 1
    BY <1>1, FrontIs
  <2> HIDE DEF f
  <2>2. f \o <<r, c>> \in Seq(Records) /\ Len(f \o <<r, c>>) = Len(f) + 2
    BY <2>1, TwoIs
  <2> QED
    BY <1>1, <2>1, <2>2 DEF f
<1>3. \A k \in 1 .. n + 1 : u[k] = IF k = n + 1 THEN c ELSE IF k = n THEN r ELSE s[k]
  BY <1>1, CallIs
<1> HIDE DEF u
<1>4. /\ \A k \in 1 .. n : Below(u, k) = Below(s, k)
      /\ Below(u, n + 1) = r
  BY <1>1, <1>3 DEF Below
<1>5. \A k \in 1 .. n : RecGood(v, list, s[k], Below(s, k), k = n)
  BY <1>1 DEF StackGood
<1>6. ASSUME NEW k \in 1 .. n + 1 PROVE RecGood(v, list, u[k], Below(u, k), k = n + 1)
  <2>1. CASE k = n + 1
    <3>1. u[k] = c /\ Below(u, k) = r /\ (k = n + 1) = TRUE
      BY <1>3, <1>4, <2>1
    <3> QED
      BY <3>1
  <2>2. CASE k = n
    <3>1. u[k] = r /\ Below(u, k) = Below(s, Len(s)) /\ (k = n + 1) = FALSE
      BY <1>1, <1>3, <1>4, <2>2
    <3> QED
      BY <3>1
  <2>3. CASE k # n + 1 /\ k # n
    <3>1. k \in 1 .. n /\ u[k] = s[k] /\ (k = n + 1) = (k = n)
      BY <1>3, <2>3
    <3> QED
      BY <1>4, <1>5, <3>1
  <2> QED
    BY <2>1, <2>2, <2>3
<1> QED
  BY <1>2, <1>6 DEF StackGood, u

LEMMA GoodReturns ==
  ASSUME NEW v, NEW list, NEW s \in Seq(Records), Len(s) > 1, StackGood(v, list, s),
         NEW now \in {list, NamedGone(v)}, NEW r \in Records,
         RecGood(v, now, r, Below(s, Len(s) - 1), TRUE)
  PROVE  StackGood(v, now, Append(Front(Front(s)), r))
<1> DEFINE f == Front(s)
           u == Append(Front(f), r)
<1>1. PICK n \in Nat \ {0} : n = Len(s) - 1
  BY LenProperties
<1>2. s # <<>> /\ Len(s) = n + 1
  BY <1>1, LenProperties, EmptySeq
<1>3. f \in Seq(Records) /\ Len(f) = n /\ \A k \in 1 .. n : f[k] = s[k]
  BY <1>1, <1>2, FrontIs
<1>4. f # <<>>
  BY <1>1, <1>3, EmptySeq
<1>5. Len(u) = n /\ \A k \in 1 .. n : u[k] = IF k = n THEN r ELSE f[k]
  BY <1>3, <1>4, BecomeIs, SMTT(30)
<1> HIDE DEF u, f
<1>6. \A k \in 1 .. n : Below(u, k) = Below(s, k)
  BY <1>1, <1>3, <1>5 DEF Below
<1>7. \A k \in 1 .. n + 1 : RecGood(v, now, s[k], Below(s, k), k = n + 1)
  BY <1>2, GoodLater DEF StackGood
<1>8. RecGood(v, now, r, Below(s, n), TRUE)
  BY <1>1, <1>2
<1>9. ASSUME NEW k \in 1 .. n PROVE RecGood(v, now, u[k], Below(u, k), k = n)
  <2>1. CASE k = n
    <3>1. u[k] = r /\ Below(u, k) = Below(s, n) /\ (k = n) = TRUE
      BY <1>5, <1>6, <2>1
    <3> QED
      BY <1>8, <3>1
  <2>2. CASE k # n
    <3>1. u[k] = s[k] /\ k \in 1 .. n + 1 /\ (k = n + 1) = (k = n)
      BY <1>3, <1>5, <2>2
    <3> QED
      BY <1>6, <1>7, <3>1
  <2> QED
    BY <2>1, <2>2
<1> QED
  BY <1>5, <1>9 DEF StackGood, u, f

LEMMA GoodCallback ==
  ASSUME NEW v, NEW list, NEW s \in Seq(Records), Len(s) > 1, StackGood(v, list, s),
         NEW now \in {list, NamedGone(v)}, NEW r \in Records, NEW c \in Records,
         RecGood(v, now, r, Below(s, Len(s) - 1), FALSE), RecGood(v, now, c, r, TRUE)
  PROVE  StackGood(v, now, SubSeq(s, 1, Len(s) - 2) \o <<r, c>>)
<1> DEFINE u == SubSeq(s, 1, Len(s) - 2) \o <<r, c>>
<1>1. PICK n \in Nat \ {0} : n = Len(s) - 1
  BY LenProperties
<1>2. Len(s) = n + 1
  BY <1>1, LenProperties
<1>3. Len(u) = n + 1
  BY <1>2, CallbackIs
<1>4. \A k \in 1 .. n + 1 : u[k] = IF k = n + 1 THEN c ELSE IF k = n THEN r ELSE s[k]
  <2>1. \A k \in 1 .. Len(s) : u[k] = IF k = Len(s) THEN c ELSE IF k = Len(s) - 1 THEN r ELSE s[k]
    BY CallbackIs
  <2> HIDE DEF u
  <2> QED
    BY <1>1, <1>2, <2>1
<1> HIDE DEF u
<1>5. /\ \A k \in 1 .. n : Below(u, k) = Below(s, k)
      /\ Below(u, n + 1) = r
  BY <1>1, <1>4 DEF Below
<1>6. \A k \in 1 .. n + 1 : RecGood(v, now, s[k], Below(s, k), k = n + 1)
  BY <1>2, GoodLater DEF StackGood
<1>7. RecGood(v, now, r, Below(s, n), FALSE)
  BY <1>1, <1>2
<1>8. ASSUME NEW k \in 1 .. n + 1 PROVE RecGood(v, now, u[k], Below(u, k), k = n + 1)
  <2>1. CASE k = n + 1
    <3>1. u[k] = c /\ Below(u, k) = r /\ (k = n + 1) = TRUE
      BY <1>4, <1>5, <2>1
    <3> QED
      BY <3>1
  <2>2. CASE k = n
    <3>1. u[k] = r /\ Below(u, k) = Below(s, n) /\ (k = n + 1) = FALSE
      BY <1>1, <1>4, <1>5, <2>2
    <3> QED
      BY <1>7, <3>1
  <2>3. CASE k # n + 1 /\ k # n
    <3>1. k \in 1 .. n /\ u[k] = s[k] /\ (k = n + 1) = FALSE
      BY <1>4, <2>3
    <3>2. RecGood(v, now, s[k], Below(s, k), FALSE)
      BY <1>6, <2>3
    <3> QED
      BY <1>5, <3>1, <3>2
  <2> QED
    BY <2>1, <2>2, <2>3
<1> QED
  BY <1>3, <1>8 DEF StackGood, u

-----------------------------------------------------------------------------
(* A step of a thread.                                                     *)
LEMMA GoodTop ==
  ASSUME WalksOk, ListsOk, AllWalkable, NEW t \in Threads, NEW fn, NEW pc, Running(t, fn, pc)
  PROVE  /\ RecGood(Vol, list_inum_named, Me(t), Caller(t), TRUE)
         /\ fn = "walk" => WalkGood(Vol, list_inum_named, Me(t), Caller(t), TRUE)
         /\ fn = "find_orphans" => FindGood(Vol, list_inum_named, Me(t), TRUE)
         /\ list_inum_named \in {{}, NamedGone(Vol)}
         /\ stack[t] \in Seq(Records) /\ stack[t] # <<>>
         /\ StackGood(Vol, list_inum_named, stack[t])
<1> DEFINE s == stack[t]
<1>1. /\ s # <<>> /\ s \in Seq(Records) /\ Len(s) \in Nat /\ Len(s) # 0
      /\ Me(t) = s[Len(s)] /\ Me(t).fn = fn
  BY TopIs
<1>2. StackGood(Vol, list_inum_named, s) /\ list_inum_named \in {{}, NamedGone(Vol)}
  BY DEF ListsOk
<1>3. Caller(t) = Below(s, Len(s))
  BY DEF Caller
<1> HIDE DEF s
<1>4. RecGood(Vol, list_inum_named, Me(t), Caller(t), TRUE)
  <2>1. Len(s) \in 1 .. Len(s) /\ (Len(s) = Len(s)) = TRUE
    BY <1>1
  <2>2. RecGood(Vol, list_inum_named, s[Len(s)], Below(s, Len(s)), Len(s) = Len(s))
    BY <1>2, <2>1 DEF StackGood
  <2> QED
    BY <1>1, <1>3, <2>1, <2>2
<1> QED
  BY <1>1, <1>2, <1>4 DEF RecGood, s

LEMMA GoodCaller ==
  ASSUME WalksOk, ListsOk, AllWalkable, NEW t \in Threads, stack[t] # <<>>, Len(stack[t]) # 1
  PROVE  LET s == stack[t] n == Len(s) - 1
         IN  /\ Len(s) > 1 /\ n \in Nat /\ Caller(t) = s[n] /\ s[n] \in Records
             /\ RecGood(Vol, list_inum_named, s[n], Below(s, n), FALSE)
<1> DEFINE s == stack[t]
<1>1. StackGood(Vol, list_inum_named, s)
  BY DEF ListsOk
<1>2. Len(s) > 1 /\ Len(s) - 1 \in Nat /\ Caller(t) = s[Len(s) - 1]
  BY CallerIs DEF Caller
<1>3. s \in Seq(Records)
  BY DEF WalksOk
<1> HIDE DEF s
<1>4. PICK n \in Nat : n = Len(s) - 1
  BY <1>2
<1>5. Len(s) = n + 1 /\ n \in 1 .. Len(s) /\ (n = Len(s)) = FALSE
  BY <1>2, <1>3, <1>4, LenProperties
<1>6. RecGood(Vol, list_inum_named, s[n], Below(s, n), FALSE) /\ s[n] \in Records
  <2>1. RecGood(Vol, list_inum_named, s[n], Below(s, n), n = Len(s))
    BY <1>1, <1>5 DEF StackGood
  <2> QED
    BY <1>3, <1>5, <2>1, ElementOfSeq
<1> QED
  BY <1>2, <1>4, <1>6 DEF s

LEMMA ListsKept ==
  ASSUME WalksOk, ListsOk, NEW t \in Threads, fs' = fs,
         list_inum_named' \in {list_inum_named, NamedGone(Vol)},
         orphan_dir' # NULL => GoodNames(Vol, orphan_dir'),
         NEW s, stack' = [stack EXCEPT ![t] = s], StackGood(Vol, list_inum_named', s),
         NEW x, result' = [result EXCEPT ![t] = x], ResultGood(Vol, x)
  PROVE  ListsOk'
<1>1. Vol' = Vol
  BY DEF Vol
<1>2. list_inum_named' \in {{}, NamedGone(Vol)}
  BY DEF ListsOk
<1>3. ASSUME NEW u \in Threads PROVE StackGood(Vol, list_inum_named', stack'[u])
  <2>1. stack'[u] = IF u = t THEN s ELSE stack[u]
    BY DEF WalksOk
  <2>2. StackGood(Vol, list_inum_named', stack[u])
    BY GoodLater DEF ListsOk, StackGood
  <2> QED
    BY <2>1, <2>2
<1>4. ASSUME NEW u \in Threads PROVE ResultGood(Vol, result'[u])
  <2>1. result'[u] = IF u = t THEN x ELSE result[u]
    BY DEF WalksOk
  <2> QED
    BY <2>1 DEF ListsOk
<1> QED
  BY <1>1, <1>2, <1>3, <1>4 DEF ListsOk

LEMMA StackListed ==
  ASSUME WalksOk, ListsOk, NEW t \in Threads, UNCHANGED <<fs, orphan_dir, result>>,
         list_inum_named' \in {list_inum_named, NamedGone(Vol)},
         NEW s, stack' = [stack EXCEPT ![t] = s], StackGood(Vol, list_inum_named', s)
  PROVE  ListsOk'
<1>1. result' = [result EXCEPT ![t] = result[t]] /\ ResultGood(Vol, result[t])
  BY DEF WalksOk, ListsOk
<1>2. orphan_dir' # NULL => GoodNames(Vol, orphan_dir')
  BY DEF ListsOk
<1> QED
  BY <1>1, <1>2, ListsKept

LEMMA BecomeListed ==
  ASSUME WalksOk, ListsOk, AllWalkable, NEW t \in Threads, NEW fn, NEW pc, Running(t, fn, pc),
         NEW r \in Records, Become(t, r), UNCHANGED <<fs, orphan_dir, result>>,
         list_inum_named' \in {list_inum_named, NamedGone(Vol)},
         RecGood(Vol, list_inum_named', r, Caller(t), TRUE)
  PROVE  ListsOk'
<1> DEFINE s == stack[t]
<1>1. s \in Seq(Records) /\ s # <<>> /\ StackGood(Vol, list_inum_named, s)
  BY GoodTop
<1>2. stack' = [stack EXCEPT ![t] = Append(Front(s), r)]
  BY DEF Become
<1>3. RecGood(Vol, list_inum_named', r, Below(s, Len(s)), TRUE)
  BY DEF Caller
<1> HIDE DEF s
<1>4. StackGood(Vol, list_inum_named', Append(Front(s), r))
  BY <1>1, <1>3, GoodBecomes
<1> QED
  BY <1>2, <1>4, StackListed

LEMMA CallListed ==
  ASSUME WalksOk, ListsOk, AllWalkable, NEW t \in Threads, NEW fn, NEW pc, Running(t, fn, pc),
         NEW r \in Records, NEW c \in Records, Call(t, r, c),
         UNCHANGED <<fs, orphan_dir, result, list_inum_named>>,
         RecGood(Vol, list_inum_named, r, Caller(t), FALSE),
         RecGood(Vol, list_inum_named, c, r, TRUE)
  PROVE  ListsOk'
<1> DEFINE s == stack[t]
<1>1. s \in Seq(Records) /\ s # <<>> /\ StackGood(Vol, list_inum_named, s)
  BY GoodTop
<1>2. stack' = [stack EXCEPT ![t] = Front(s) \o <<r, c>>]
  BY DEF Call
<1>3. RecGood(Vol, list_inum_named, r, Below(s, Len(s)), FALSE)
  BY DEF Caller
<1> HIDE DEF s
<1>4. StackGood(Vol, list_inum_named, Front(s) \o <<r, c>>)
  BY <1>1, <1>3, GoodCalls
<1> QED
  BY <1>2, <1>4, StackListed

LEMMA ReturnListed ==
  ASSUME WalksOk, ListsOk, AllWalkable, NEW t \in Threads, NEW fn, NEW pc, Running(t, fn, pc),
         NEW value, Return(t, value), fs' = fs,
         list_inum_named' \in {list_inum_named, NamedGone(Vol)},
         orphan_dir' # NULL => GoodNames(Vol, orphan_dir'),
         Depth(t) = 1 => ResultGood(Vol, value),
         Depth(t) # 1 =>
           /\ [Caller(t) EXCEPT !.got = value] \in Records
           /\ RecGood(Vol, list_inum_named', [Caller(t) EXCEPT !.got = value],
                      Below(stack[t], Depth(t) - 1), TRUE)
  PROVE  ListsOk'
<1> DEFINE s == stack[t]
           f == Front(s)
<1>1. s \in Seq(Records) /\ s # <<>> /\ StackGood(Vol, list_inum_named, s)
  BY GoodTop
<1>2. f \in Seq(Records) /\ (f = <<>> <=> Len(s) = 1)
  BY <1>1, FrontIs
<1>3. CASE f = <<>>
  <2>1. stack' = [stack EXCEPT ![t] = <<>>] /\ result' = [result EXCEPT ![t] = value]
    BY <1>3 DEF Return
  <2>2. StackGood(Vol, list_inum_named', <<>>)
    BY DEF StackGood
  <2>3. ResultGood(Vol, value)
    BY <1>2, <1>3 DEF Depth
  <2> QED
    BY <2>1, <2>2, <2>3, ListsKept
<1>4. CASE f # <<>>
  <2> DEFINE r == [Caller(t) EXCEPT !.got = value]
  <2>1. Depth(t) # 1 /\ Len(s) > 1
    BY <1>1, <1>2, <1>4, GoodCaller DEF Depth
  <2>2. Last(f) = Caller(t)
    <3>1. PICK n \in Nat : n = Len(s) - 1 /\ n # 0
      BY <1>1, <2>1, LenProperties
    <3>2. Len(f) = n /\ \A k \in 1 .. n : f[k] = s[k]
      BY <1>1, <3>1, FrontIs
    <3>3. Caller(t) = s[n]
      BY <1>1, <2>1, <3>1, GoodCaller DEF Depth
    <3> HIDE DEF s, f
    <3>4. Last(f) = f[n]
      BY <3>2, Zenon DEF Last
    <3> QED
      BY <3>1, <3>2, <3>3, <3>4
  <2>3. stack' = [stack EXCEPT ![t] = Append(Front(f), r)] /\ result' = result
    BY <1>4, <2>2 DEF Return
  <2>4. r \in Records /\ RecGood(Vol, list_inum_named', r, Below(s, Len(s) - 1), TRUE)
    BY <2>1 DEF Depth
  <2>5. result' = [result EXCEPT ![t] = result[t]] /\ ResultGood(Vol, result[t])
    BY <2>3 DEF WalksOk, ListsOk
  <2> HIDE DEF r, s
  <2>6. StackGood(Vol, list_inum_named', Append(Front(f), r))
    BY <1>1, <2>1, <2>4, GoodReturns
  <2> QED
    BY <2>3, <2>5, <2>6, ListsKept
<1> QED
  BY <1>3, <1>4

-----------------------------------------------------------------------------
(* The steps of a walk: where it starts, ...                               *)
LEMMA GoodStart ==
  ASSUME WalksOk, ListsOk, AllWalkable, NEW t \in Threads, NEW pc, Running(t, "walk", pc)
  PROVE  LET w == Me(t) b == Caller(t) n == Depth(t) - 1
         IN  /\ w.cb # "orphan" => Start(w, b) = Root
             /\ w.cb = "orphan" => Start(w, b) \in Orphaned(Vol) /\ Start(w, b) # Root
             /\ w.cb # "user" =>
                  /\ Depth(t) # 1 /\ b \in FindRec /\ w.flags = CollectOnly
                  /\ b.pc = IF w.cb = "named" THEN "loading" ELSE "entering"
                  /\ FindGood(Vol, list_inum_named, b, FALSE)
                  /\ w.cb = "orphan" => b.found # <<>> /\ Start(w, b) = Last(b.found)
                  /\ Len(stack[t]) > 1
<1> DEFINE w == Me(t)
           b == Caller(t)
           n == Depth(t) - 1
<1>1. /\ w \in WalkRec /\ WalkOk(Vol, w, b, Depth(t), TRUE) /\ stack[t] # <<>>
      /\ Vol \in Volumes
  BY WalkIs
<1> HIDE DEF w
<1>2. w.cb # "orphan" => Start(w, b) = Root
  BY DEF Start
<1>3. ASSUME w.cb # "user"
      PROVE  /\ Depth(t) # 1 /\ b \in FindRec /\ w.flags = CollectOnly
             /\ b.pc = IF w.cb = "named" THEN "loading" ELSE "entering"
             /\ FindGood(Vol, list_inum_named, b, FALSE)
             /\ w.cb = "orphan" => b.found # <<>> /\ Start(w, b) = Last(b.found)
             /\ Len(stack[t]) > 1
  <2>1. /\ Depth(t) # 1 /\ b \in FindRec /\ w.flags = CollectOnly
        /\ w.cb = "named" => b.pc = "loading"
        /\ w.cb = "orphan" => b.pc = "entering" /\ b.found # <<>>
    BY <1>1, <1>3 DEF WalkOk
  <2>2. w.cb \in {"named", "orphan"}
    BY <1>1, <1>3 DEF WalkRec
  <2>3. Len(stack[t]) > 1
    BY <1>1, <2>1, GoodCaller DEF Depth
  <2>4. /\ b = stack[t][n]
        /\ RecGood(Vol, list_inum_named, stack[t][n], Below(stack[t], n), FALSE)
    BY <1>1, <2>1, GoodCaller DEF Depth
  <2> HIDE DEF b, n
  <2>5. b.fn = "find_orphans"
    BY <2>1 DEF FindRec
  <2>6. FindGood(Vol, list_inum_named, b, FALSE)
    BY <2>4, <2>5 DEF RecGood
  <2>7. w.cb = "orphan" => Start(w, b) = Last(b.found)
    BY DEF Start
  <2> QED
    BY <2>1, <2>2, <2>3, <2>6, <2>7
<1>4. ASSUME w.cb = "orphan" PROVE Start(w, b) \in Orphaned(Vol) /\ Start(w, b) # Root
  <2> HIDE DEF b
  <2>1. b.found # <<>> /\ Start(w, b) = Last(b.found) /\ b.found \in Seq(Orphaned(Vol))
    BY <1>3, <1>4 DEF FindGood
  <2>2. Start(w, b) \in Orphaned(Vol)
    <3> DEFINE q == b.found
    <3>1. q \in Seq(Orphaned(Vol)) /\ q # <<>>
      BY <2>1
    <3> HIDE DEF q
    <3>2. Last(q) \in Orphaned(Vol)
      BY <3>1, FrontIs
    <3> QED
      BY <2>1, <3>2 DEF q
  <2> QED
    BY <1>1, <2>2, VolumeIs DEF Orphaned, Gone
<1> QED
  BY <1>2, <1>3, <1>4 DEF w

LEMMA WalkListed ==
  ASSUME WalksOk, ListsOk, AllWalkable, NEW t \in Threads, NEW pc, Running(t, "walk", pc),
         NEW r \in WalkRec, Become(t, r), UNCHANGED <<fs, orphan_dir, result>>,
         list_inum_named' \in {list_inum_named, NamedGone(Vol)},
         WalkGood(Vol, list_inum_named', r, Caller(t), TRUE)
  PROVE  ListsOk'
<1>1. r \in Records /\ r.fn = "walk"
  BY DEF WalkRec, Records
<1>2. RecGood(Vol, list_inum_named', r, Caller(t), TRUE)
  BY <1>1 DEF RecGood
<1> QED
  BY <1>1, <1>2, BecomeListed

(* ... into a directory and out of it, ... *)
LEMMA IntoGood ==
  ASSUME NEW v \in Volumes, NEW list, NEW b, NEW w \in WalkRec, w.pc \in {"open", "wait"},
         Walking(v, Start(w, b), w), WalkGood(v, list, w, b, FALSE),
         NEW names \in Seq(NameRec), EntriesOf(v, w.target, Frame(names)),
         w.target = OrphanDir => \E q : GoodNames(v, q) /\ names = EntryNames(q)
  PROVE  Into(w, names) \in WalkRec /\ WalkGood(v, list, Into(w, names), b, TRUE)
<1> DEFINE r == Into(w, names)
           a == Start(w, b)
           f == Frame(names)
<1>1. /\ r \in WalkRec /\ Kept(w, r) /\ r.pc = "names" /\ r.path = Append(w.path, f)
      /\ r.seen = w.seen /\ r.saving = w.saving /\ r.list = w.list
      /\ Walking(v, a, r) /\ \A X : Covered(v, a, w, X) => Covered(v, a, r, X)
  <2> HIDE DEF a
  <2>1. Walking(v, a, w)
    BY DEF a
  <2> QED
    BY <2>1, OpenedIs
<1> HIDE DEF r
<1>2. f \in FrameRec /\ f.i = 1 /\ f.names = names
  BY DEF Frame, FrameRec
<1>3. /\ Saves(v, w) /\ Quiet(w) /\ Informs(v, list, w) /\ Opens(v, w, b) /\ Hunts(v, w)
      /\ Len(w.path) = Len(w.seen) /\ (w.cb # "orphan" => a = Root)
  BY DEF WalkGood, Walking, Start
<1> HIDE DEF f, a
<1>4. r.cb = w.cb /\ r.flags = w.flags /\ r.shown = w.shown /\ r.asked = w.asked
  BY <1>1 DEF Kept
<1>5. \A X : Covered(v, Root, w, X) => Covered(v, Root, r, X) \/ w.cb = "orphan"
  BY <1>1, <1>3
<1>6. Saves(v, r) /\ Quiet(r)
  BY <1>1, <1>2, <1>3, <1>4, <1>5, OpenedSaves
<1>7. Informs(v, list, r)
  BY <1>1, <1>3, <1>4 DEF Informs
<1>8. Opens(v, r, b)
  BY <1>1, <1>3, <1>4 DEF Opens, Start
<1>9. Hunts(v, r)
  <2> SUFFICES ASSUME w.cb = "user", w.flags = Whole, w.asked = "cont", AllOpen(v), Orderly(v)
               PROVE  Hunting(v, r.path, r.seen, r.shown)
    BY <1>1, <1>4 DEF Hunts
  <2>1. Hunting(v, w.path, w.seen, w.shown)
    BY <1>3 DEF Hunts
  <2>2. Walking(v, Root, w)
    BY DEF Start
  <2>3. EntriesOf(v, w.target, f)
    BY DEF f
  <2>4. w.target = OrphanDir => \E q : GoodNames(v, q) /\ f.names = EntryNames(q)
    BY <1>2
  <2> QED
    BY <1>1, <1>2, <2>1, <2>2, <2>3, <2>4, HuntInto
<1> QED
  BY <1>1, <1>6, <1>7, <1>8, <1>9 DEF WalkGood, r

LEMMA LeftGood ==
  ASSUME NEW v \in Volumes, Walkable(v), NEW list, NEW b, NEW w \in WalkRec,
         w.pc \in {"open", "wait", "names"}, WalkGood(v, list, w, b, FALSE),
         NEW path \in Seq(FrameRec), Shape(v, Start(w, b), w.flags, path, w.seen),
         Len(path) = Len(w.seen), Len(path) <= Len(w.path),
         \A k \in 1 .. Len(path) : path[k] = w.path[k],
         NEW ret \in {"cont", "error"}, NEW r \in WalkRec, Left(w, path, ret, r),
         \A X : Covered(v, Start(w, b), w, X) => Covered(v, Start(w, b), r, X),
         w.cb # "user" /\ AllOpen(v) /\ path = <<>> => ret = "cont",
         /\ w.cb = "user" /\ w.flags = Whole /\ w.asked = "cont" /\ AllOpen(v) /\ Orderly(v)
         /\ (path = <<>> /\ ret = "cont") \/ (Len(path) = 1 /\ w.seen[1] = OrphanDir)
         => Orphaned(v) \subseteq w.shown
  PROVE  WalkGood(v, list, r, b, TRUE)
<1> DEFINE a == Start(w, b)
<1>1. /\ Saves(v, w) /\ Quiet(w) /\ Informs(v, list, w) /\ Opens(v, w, b) /\ Hunts(v, w)
  BY DEF WalkGood
<1>2. /\ Kept(w, r) /\ r.pc \in {"names", "end"}
      /\ r.pc = "end" => path = <<>> /\ r.ret = ret
  BY DEF Left
<1>3. /\ r.cb = w.cb /\ r.flags = w.flags /\ r.shown = w.shown /\ r.asked = w.asked
  BY <1>2 DEF Kept
<1>4. r.saving = w.saving /\ Saves(v, r) /\ Quiet(r)
  <2>1. \A X : Covered(v, Root, w, X) => Covered(v, Root, r, X) \/ w.cb = "orphan"
    BY DEF Start
  <2>2. \A k \in 1 .. Len(path) : path[k] = w.path[k] /\ w.seen[k] = Current(path[k]).addr
    BY DEF Shape
  <2> QED
    BY <1>1, <2>1, <2>2, LeftSaves
<1>5. Informs(v, list, r)
  BY <1>1, <1>2, <1>3, <1>4 DEF Informs
<1>6. Opens(v, r, b)
  BY <1>1, <1>2, <1>3 DEF Opens, Start
<1>7. Hunts(v, r)
  <2> SUFFICES ASSUME w.cb = "user", w.flags = Whole, w.asked = "cont", AllOpen(v), Orderly(v)
               PROVE  /\ r.pc = "end" /\ r.ret = "cont" => Orphaned(v) \subseteq w.shown
                      /\ r.pc = "names" => Hunting(v, r.path, r.seen, r.shown)
    BY <1>2, <1>3 DEF Hunts
  <2>1. Hunting(v, w.path, w.seen, w.shown)
    BY <1>1 DEF Hunts
  <2>2. Shape(v, Root, w.flags, path, w.seen)
    BY DEF Start
  <2>3. ASSUME r.pc = "names" PROVE Hunting(v, r.path, r.seen, r.shown)
    BY <2>1, <2>2, <2>3, HuntLeft
  <2>4. ASSUME r.pc = "end", r.ret = "cont" PROVE Orphaned(v) \subseteq w.shown
    BY <1>2, <2>4
  <2> QED
    BY <2>3, <2>4
<1> QED
  BY <1>2, <1>4, <1>5, <1>6, <1>7 DEF WalkGood

(* ... behind a name that it has shown, ... *)
LEMMA ToldGood ==
  ASSUME NEW v, NEW list, NEW b, NEW w, w.pc = "names", WalkGood(v, list, w, b, FALSE),
         NEW d, d.pc = w.pc, d.cb = w.cb, d.flags = w.flags, d.path = w.path,
         d.seen = w.seen, d.saving = w.saving, d.list = w.list,
         w.shown \subseteq d.shown, d.asked = "cont" => w.asked = "cont"
  PROVE  WalkGood(v, list, d, b, FALSE)
<1>1. Saves(v, d) /\ Quiet(d)
  BY DEF WalkGood, Saves, Covered, Quiet
<1>2. Informs(v, list, d) /\ Opens(v, d, b)
  BY DEF WalkGood, Informs, Opens, Start
<1>3. Hunts(v, d)
  BY DEF WalkGood, Hunts, Hunting
<1> QED
  BY <1>1, <1>2, <1>3 DEF WalkGood

LEMMA ProcessedGood ==
  ASSUME fs \in DOMAIN FileSystems, NEW v, v = FileSystems[fs], Walkable(v), NEW b,
         NEW w \in WalkRec, Walking(v, Start(w, b), w), AtName(w),
         Start(w, b) \in DOMAIN v.meta, WalkGood(v, list_inum_named, w, b, FALSE),
         list_inum_named \in {{}, NamedGone(v)}
  PROVE  /\ SharedAfter(w) \in {list_inum_named, NamedGone(v)}
         /\ WalkGood(v, SharedAfter(w), Processed(w), b, TRUE)
<1> DEFINE a == Start(w, b)
           r == Processed(w)
           list == list_inum_named
           now == SharedAfter(w)
<1>1. /\ Saves(v, w) /\ Quiet(w) /\ Informs(v, list, w) /\ Opens(v, w, b) /\ Hunts(v, w)
      /\ (w.cb # "orphan" => a = Root) /\ v \in Volumes /\ w.pc = "names"
  BY DEF WalkGood, Start, Volumes, AtName
<1>2. /\ r \in WalkRec /\ Kept(w, r) /\ r.pc \in {"names", "open"}
      /\ IF Goes(v, w.flags, Here(w)) /\ Here(w).addr \notin Range(w.seen)
         THEN Entered(w, Noted(w), r) ELSE Passed(w, Noted(w), r)
  BY ProcessedIs
<1>3. r.cb = w.cb /\ r.flags = w.flags /\ r.shown = w.shown /\ r.asked = w.asked
  BY <1>2 DEF Kept
<1>4. /\ Saves(v, r) /\ Quiet(r)
      /\ now \in {list, NamedGone(v)}
      /\ w.saving => r.saving \/ now = NamedGone(v)
  <2> HIDE DEF a
  <2>1. Walking(v, a, w) /\ a \in DOMAIN v.meta
    BY DEF a
  <2> QED
    BY <1>1, <2>1, ProcessedSaves
<1> HIDE DEF r, now
<1>5. Informs(v, now, r)
  BY <1>1, <1>2, <1>3, <1>4 DEF Informs
<1>6. Opens(v, r, b)
  BY <1>1, <1>2, <1>3 DEF Opens, Start
<1>7. Hunts(v, r)
  <2> SUFFICES ASSUME w.cb = "user", w.flags = Whole, w.asked = "cont", AllOpen(v), Orderly(v)
               PROVE  Hunting(v, r.path, r.seen, r.shown)
    BY <1>2, <1>3 DEF Hunts
  <2>1. Hunting(v, w.path, w.seen, w.shown)
    BY <1>1 DEF Hunts
  <2>2. Walking(v, Root, w)
    BY DEF Start
  <2> QED
    BY <1>1, <1>2, <1>3, <2>1, <2>2, HuntProcessed
<1> QED
  BY <1>2, <1>4, <1>5, <1>6, <1>7 DEF WalkGood, r, now

LEMMA StoppedGood ==
  ASSUME NEW v, NEW list, NEW b, NEW w \in WalkRec, w.pc = "names", w.cb # "named",
         WalkGood(v, list, w, b, FALSE)
  PROVE  WalkGood(v, list, Stopped(w), b, TRUE)
<1> DEFINE r == Stopped(w)
<1>1. r \in WalkRec /\ Kept(w, r) /\ r.pc = "end" /\ r.ret = "stop" /\ ~r.saving
  BY StoppedIs
<1> HIDE DEF r
<1>2. r.cb = w.cb
  BY <1>1 DEF Kept
<1>3. Saves(v, r) /\ Quiet(r) /\ Informs(v, list, r) /\ Hunts(v, r)
  BY <1>1, <1>2 DEF Saves, Quiet, Informs, Hunts
<1>4. Opens(v, r, b)
  BY <1>1, <1>2 DEF WalkGood, Opens, Start
<1> QED
  BY <1>1, <1>3, <1>4 DEF WalkGood, r

(* ... and the actions. *)
LEMMA BeginWalkListed ==
  ASSUME WalksOk, ListsOk, AllWalkable, NEW t \in Threads, BeginWalk(t)
  PROVE  ListsOk'
<1> DEFINE w == Me(t)
           b == Caller(t)
           saving == list_inum_named = {} /\ w.target = Root /\ w.flags.recurse
           r == [w EXCEPT !.pc = "open", !.saving = saving]
<1>1. /\ Running(t, "walk", "begin") /\ Become(t, r) /\ UNCHANGED <<fs, orphan_dir, result>>
      /\ list_inum_named' = list_inum_named
  BY DEF BeginWalk
<1>2. /\ w \in WalkRec /\ w.pc = "begin" /\ Walking(Vol, Start(w, b), w) /\ Vol \in Volumes
  BY <1>1, WalkIs
<1>3. /\ WalkGood(Vol, list_inum_named, w, b, TRUE)
      /\ list_inum_named \in {{}, NamedGone(Vol)}
  BY <1>1, GoodTop
<1>4. /\ w.cb = "orphan" => Start(w, b) # Root
      /\ w.cb # "orphan" => Start(w, b) = Root
      /\ w.cb = "named" => w.flags = CollectOnly
  BY <1>1, GoodStart
<1> HIDE DEF w, b
<1>5. w.path = <<>> /\ w.seen = <<>> /\ w.target = Start(w, b) /\ w.list = {}
  BY <1>2, <1>3 DEF Walking, DirAt, WalkGood, Saves
<1>6. saving \in BOOLEAN /\ (saving => w.cb # "orphan" /\ w.flags.recurse)
  <2>1. w.flags.recurse \in BOOLEAN
    BY <1>2 DEF WalkRec, Flags
  <2> QED
    BY <1>4, <1>5, <2>1
<1>7. w.cb = "named" => saving \/ list_inum_named = NamedGone(Vol)
  BY <1>3, <1>4, <1>5 DEF CollectOnly
<1> HIDE DEF saving
<1>8. /\ r \in WalkRec /\ r.cb = w.cb /\ r.flags = w.flags /\ r.shown = w.shown
      /\ r.asked = w.asked /\ r.pc = "open" /\ r.path = <<>> /\ r.seen = <<>>
      /\ r.saving = saving /\ r.list = {}
  BY <1>2, <1>5, <1>6 DEF WalkRec
<1> HIDE DEF r
<1>9. Saves(Vol, r)
  BY <1>6, <1>8 DEF Saves, Covered, Done
<1>10. Quiet(r)
  BY <1>8 DEF Quiet
<1>11. Informs(Vol, list_inum_named, r)
  BY <1>7, <1>8 DEF Informs
<1>12. Opens(Vol, r, b)
  BY <1>3, <1>8 DEF WalkGood, Opens, Start
<1>13. Hunts(Vol, r)
  BY <1>8 DEF Hunts, Hunting
<1>14. WalkGood(Vol, list_inum_named, r, b, TRUE)
  BY <1>8, <1>9, <1>10, <1>11, <1>12, <1>13 DEF WalkGood
<1> QED
  BY <1>1, <1>8, <1>14, WalkListed DEF b

LEMMA OpenDirListed ==
  ASSUME WalksOk, ListsOk, AllWalkable, NEW t \in Threads, OpenDir(t)
  PROVE  ListsOk'
<1> DEFINE w == Me(t)
           b == Caller(t)
           opened == Into(w, Names(w.target))
           left == Leave(w, w.path, "error")
<1>1. /\ Running(t, "walk", "open") /\ w.target # OrphanDir
      /\ Become(t, IF Readable(w.target) THEN opened ELSE left)
      /\ UNCHANGED <<fs, orphan_dir, result>> /\ list_inum_named' = list_inum_named
  BY DEF OpenDir, Into
<1>2. /\ w \in WalkRec /\ w.pc = "open" /\ Walking(Vol, Start(w, b), w) /\ Vol \in Volumes
      /\ Vol = FileSystems[fs] /\ Walkable(Vol) /\ Start(w, b) \in DOMAIN Vol.meta
  BY <1>1, WalkIs
<1>3. WalkGood(Vol, list_inum_named, w, b, FALSE)
  BY <1>1, GoodTop DEF WalkGood
<1>4. w.cb # "orphan" => Start(w, b) = Root
  BY <1>1, GoodStart
<1> HIDE DEF w, b
<1>5. CASE Readable(w.target)
  <2> DEFINE d == w.target
  <2>1. d \in DOMAIN Vol.names \ Vol.unreadable
    BY <1>2, <1>5 DEF Readable
  <2>2. Vol.names[d] \in Seq(NameRec) /\ OrphanName \in NameRec
    BY <1>2, <2>1, NamesIs
  <2>3. Names(d) = Vol.names[d] \o (IF d = Root THEN <<OrphanName>> ELSE <<>>)
    BY <1>2 DEF Names
  <2>4. Names(d) \in Seq(NameRec)
    <3>1. (IF d = Root THEN <<OrphanName>> ELSE <<>>) \in Seq(NameRec)
      BY <2>2
    <3> QED
      BY <2>2, <2>3, <3>1, ConcatProperties
  <2>5. EntriesOf(Vol, d, Frame(Names(d)))
    BY <1>1, <2>1, <2>3 DEF EntriesOf, Frame
  <2>6. opened \in WalkRec /\ WalkGood(Vol, list_inum_named, opened, b, TRUE)
    BY <1>1, <1>2, <1>3, <2>4, <2>5, IntoGood
  <2> HIDE DEF opened
  <2> QED
    BY <1>1, <1>5, <2>6, WalkListed DEF b
<1>6. CASE ~Readable(w.target)
  <2> DEFINE p == w.path
  <2>1. w.target \notin DOMAIN Vol.names \ Vol.unreadable
    BY <1>2, <1>6 DEF Readable
  <2>2. /\ p \in Seq(FrameRec) /\ Len(p) = Len(w.seen) /\ Len(p) \in Nat
        /\ Shape(Vol, Start(w, b), w.flags, p, w.seen)
        /\ w.target = DirAt(Start(w, b), w.seen, Len(p) + 1)
    BY <1>2, LenProperties DEF Walking, WalkRec
  <2>3. /\ left \in WalkRec /\ Left(w, p, "error", left)
        /\ \A X : Covered(Vol, Start(w, b), w, X) => Covered(Vol, Start(w, b), left, X)
    BY <1>2, <2>1, UnreadIs
  <2> HIDE DEF left, p
  <2>4. ~(w.cb # "user" /\ AllOpen(Vol) /\ p = <<>>)
    <3> SUFFICES ASSUME w.cb # "user", AllOpen(Vol), p = <<>> PROVE FALSE
      OBVIOUS
    <3>1. w.target = Start(w, b)
      BY <2>2 DEF DirAt
    <3>2. Vol.meta[Start(w, b)].dir
      <4>1. CASE w.cb = "orphan"
        BY <1>3, <4>1 DEF WalkGood, Opens
      <4>2. CASE w.cb # "orphan"
        BY <1>2, <1>4, <4>2, VolumeIs
      <4> QED
        BY <4>1, <4>2
    <3> QED
      BY <1>2, <2>1, <3>1, <3>2 DEF AllOpen
  <2>5. ~(Len(p) = 1 /\ w.seen[1] = OrphanDir)
    <3> SUFFICES ASSUME Len(p) = 1, w.seen[1] = OrphanDir PROVE FALSE
      OBVIOUS
    <3>1. w.target = w.seen[1]
      BY <2>2 DEF DirAt
    <3> QED
      BY <1>1, <3>1
  <2>6. WalkGood(Vol, list_inum_named, left, b, TRUE)
    <3>1. \A k \in 1 .. Len(p) : p[k] = w.path[k]
      BY DEF p
    <3>2. Len(p) <= Len(w.path)
      BY <2>2 DEF p
    <3> QED
      BY <1>2, <1>3, <2>2, <2>3, <2>4, <2>5, <3>1, <3>2, LeftGood
  <2> QED
    BY <1>1, <1>6, <2>3, <2>6, WalkListed DEF b
<1> QED
  BY <1>5, <1>6

LEMMA OpenOrphanDirListed ==
  ASSUME WalksOk, ListsOk, AllWalkable, NEW t \in Threads, OpenOrphanDir(t)
  PROVE  ListsOk'
<1> DEFINE w == Me(t)
           b == Caller(t)
           r == [w EXCEPT !.pc = "wait"]
<1>1. /\ Running(t, "walk", "open") /\ Call(t, r, FindOrphans)
      /\ UNCHANGED <<fs, orphan_dir, result, list_inum_named>>
  BY DEF OpenOrphanDir
<1>2. w \in WalkRec /\ w.pc = "open"
  BY <1>1, WalkIs
<1>3. WalkGood(Vol, list_inum_named, w, b, TRUE)
  BY <1>1, GoodTop
<1> HIDE DEF w, b
<1>4. /\ r \in WalkRec /\ r.fn = "walk" /\ r.cb = w.cb /\ r.flags = w.flags
      /\ r.shown = w.shown /\ r.asked = w.asked /\ r.pc = "wait" /\ r.path = w.path
      /\ r.seen = w.seen /\ r.saving = w.saving /\ r.list = w.list
  BY <1>2 DEF WalkRec
<1> HIDE DEF r
<1>5. WalkGood(Vol, list_inum_named, r, b, FALSE)
  <2>1. Saves(Vol, r) /\ Quiet(r)
    BY <1>2, <1>3, <1>4 DEF WalkGood, Saves, Covered, Quiet
  <2>2. Informs(Vol, list_inum_named, r) /\ Opens(Vol, r, b)
    BY <1>2, <1>3, <1>4 DEF WalkGood, Informs, Opens, Start
  <2>3. Hunts(Vol, r)
    BY <1>2, <1>3, <1>4 DEF WalkGood, Hunts
  <2> QED
    BY <2>1, <2>2, <2>3 DEF WalkGood
<1>6. /\ FindOrphans \in FindRec /\ FindOrphans.fn = "find_orphans"
      /\ FindGood(Vol, list_inum_named, FindOrphans, TRUE)
  <2>1. NULL \in Got /\ <<>> \in Seq(Nat) /\ <<>> \in Seq(Orphaned(Vol))
    BY DEF Got
  <2> QED
    BY <2>1 DEF FindOrphans, FindRec, FindGood
<1>7. /\ RecGood(Vol, list_inum_named, r, b, FALSE)
      /\ RecGood(Vol, list_inum_named, FindOrphans, r, TRUE)
  BY <1>4, <1>5, <1>6 DEF RecGood
<1> HIDE DEF FindOrphans
<1> QED
  BY <1>1, <1>4, <1>6, <1>7, CallListed DEF Records, b

LEMMA OrphanDirOpenedListed ==
  ASSUME WalksOk, ListsOk, AllWalkable, NEW t \in Threads, OrphanDirOpened(t)
  PROVE  ListsOk'
<1> DEFINE m == Me(t)
           b == Caller(t)
           got == m.got
           w == [m EXCEPT !.got = NULL]
           a == Start(w, b)
           names == EntryNames(got.names)
           opened == Into(w, names)
           left == Leave(w, w.path, "error")
<1>1. /\ Running(t, "walk", "wait") /\ UNCHANGED <<fs, orphan_dir, result>>
      /\ Become(t, IF got.err THEN left ELSE opened) /\ list_inum_named' = list_inum_named
  BY DEF OrphanDirOpened, Into, EntryNames
<1>2. /\ m \in WalkRec /\ m.pc = "wait" /\ WalkOk(Vol, m, b, Depth(t), TRUE)
      /\ Walking(Vol, Start(m, b), m) /\ Vol \in Volumes /\ Walkable(Vol)
      /\ Start(m, b) \in DOMAIN Vol.meta
  BY <1>1, WalkIs
<1>3. WalkGood(Vol, list_inum_named, m, b, TRUE)
  BY <1>1, GoodTop
<1> HIDE DEF m, b
<1>4. m.target = OrphanDir /\ GoodGot(Vol, got)
  BY <1>2, <1>3 DEF WalkOk, WalkGood
<1> HIDE DEF got
<1>5. /\ w \in WalkRec /\ w.cb = m.cb /\ w.flags = m.flags /\ w.shown = m.shown
      /\ w.asked = m.asked /\ w.pc = "wait" /\ w.path = m.path /\ w.seen = m.seen
      /\ w.target = OrphanDir /\ w.saving = m.saving /\ w.list = m.list
  BY <1>2, <1>4 DEF WalkRec, Got
<1> HIDE DEF w
<1>6. a = Start(m, b)
  BY <1>5 DEF Start
<1>7. Walking(Vol, a, w)
  BY <1>2, <1>4, <1>5, <1>6 DEF Walking
<1>8. WalkGood(Vol, list_inum_named, w, b, FALSE)
  <2>1. Saves(Vol, w) /\ Quiet(w)
    BY <1>2, <1>3, <1>5 DEF WalkGood, Saves, Covered, Quiet
  <2>2. Informs(Vol, list_inum_named, w) /\ Opens(Vol, w, b)
    BY <1>2, <1>3, <1>5 DEF WalkGood, Informs, Opens, Start
  <2>3. Hunts(Vol, w)
    BY <1>2, <1>3, <1>5 DEF WalkGood, Hunts
  <2> QED
    BY <2>1, <2>2, <2>3 DEF WalkGood
<1>9. CASE got.err
  <2> DEFINE p == w.path
  <2>1. /\ p \in Seq(FrameRec) /\ Len(p) = Len(w.seen) /\ Len(p) \in Nat
        /\ Shape(Vol, a, w.flags, p, w.seen)
        /\ w.target = DirAt(a, w.seen, Len(p) + 1)
    BY <1>5, <1>7, LenProperties DEF Walking, WalkRec
  <2>2. /\ left \in WalkRec /\ Left(w, p, "error", left)
        /\ \A X : Covered(Vol, a, w, X) => Covered(Vol, a, left, X)
    <3> HIDE DEF a
    <3> QED
      BY <1>2, <1>5, <1>7, UnreadIs
  <2> HIDE DEF left, p
  <2>3. ~AllOpen(Vol)
    BY <1>4, <1>9 DEF GoodGot
  <2>4. WalkGood(Vol, list_inum_named, left, b, TRUE)
    <3>1. \A k \in 1 .. Len(p) : p[k] = w.path[k]
      BY DEF p
    <3>2. Len(p) <= Len(w.path)
      BY <2>1 DEF p
    <3> QED
      BY <1>2, <1>5, <1>8, <2>1, <2>2, <2>3, <3>1, <3>2, LeftGood
  <2> QED
    BY <1>1, <1>9, <2>2, <2>4, WalkListed DEF b
<1>10. CASE ~got.err
  <2>1. GoodNames(Vol, got.names)
    BY <1>4, <1>10 DEF GoodGot
  <2> DEFINE q == got.names
  <2> HIDE DEF q
  <2>2. q \in Seq(Gone(Vol))
    BY <2>1, SeqWider DEF GoodNames, Orphaned, q
  <2>3. /\ EntryNames(q) \in Seq(NameRec) /\ Len(EntryNames(q)) = Len(q)
        /\ \A j \in 1 .. Len(q) : q[j] \in Gone(Vol) /\ EntryNames(q)[j] = OrphanEntry(q[j])
    BY <1>2, <2>2, EntryNamesIs
  <2>4. EntriesOf(Vol, w.target, Frame(EntryNames(q)))
    BY <1>5, <2>3 DEF EntriesOf, Frame
  <2>5. opened \in WalkRec /\ WalkGood(Vol, list_inum_named, opened, b, TRUE)
    <3>1. GoodNames(Vol, q) /\ opened = Into(w, EntryNames(q))
      BY <2>1 DEF q
    <3> HIDE DEF opened
    <3> QED
      BY <1>2, <1>5, <1>7, <1>8, <2>3, <2>4, <3>1, IntoGood
  <2> HIDE DEF opened
  <2> QED
    BY <1>1, <1>10, <2>5, WalkListed DEF b
<1> QED
  BY <1>9, <1>10

LEMMA EndDirListed ==
  ASSUME WalksOk, ListsOk, AllWalkable, NEW t \in Threads, EndDir(t)
  PROVE  ListsOk'
<1> DEFINE w == Me(t)
           b == Caller(t)
           p == w.path
           q == Front(p)
           r == Leave(w, q, "cont")
<1>1. /\ Running(t, "walk", "names") /\ Last(w.path).i > Len(Last(w.path).names)
      /\ Become(t, r) /\ UNCHANGED <<fs, orphan_dir, result>>
      /\ list_inum_named' = list_inum_named
  BY DEF EndDir
<1>2. /\ w \in WalkRec /\ w.pc = "names" /\ WalkOk(Vol, w, b, Depth(t), TRUE)
      /\ Walking(Vol, Start(w, b), w) /\ Vol \in Volumes /\ Walkable(Vol) /\ NoWayBack(Vol)
      /\ Start(w, b) \in DOMAIN Vol.meta
  BY <1>1, WalkIs
<1>3. WalkGood(Vol, list_inum_named, w, b, FALSE)
  BY <1>1, GoodTop DEF WalkGood
<1> HIDE DEF w, b
<1>4. /\ r \in WalkRec /\ Left(w, q, "cont", r)
      /\ \A X : Covered(Vol, Start(w, b), w, X) => Covered(Vol, Start(w, b), r, X)
  BY <1>1, <1>2, EndedIs
<1> HIDE DEF r
<1>5. /\ p \in Seq(FrameRec) /\ w.seen \in Seq(Nat) /\ Len(w.seen) \in Nat
      /\ Len(p) = Len(w.seen) + 1 /\ Shape(Vol, Start(w, b), w.flags, p, w.seen)
  BY <1>2, LenProperties DEF Walking, WalkRec
<1>6. p # <<>> /\ Last(p) = p[Len(p)]
  BY <1>5, EmptySeq DEF Last
<1>7. p[Len(p)].i > Len(p[Len(p)].names)
  BY <1>1, <1>6
<1> HIDE DEF p
<1>8. /\ q \in Seq(FrameRec) /\ Len(q) = Len(p) - 1 /\ (q = <<>> <=> Len(p) = 1)
      /\ \A k \in 1 .. Len(p) - 1 : q[k] = p[k]
  BY <1>5, <1>6, FrontIs
<1>9. Len(q) = Len(w.seen) /\ Shape(Vol, Start(w, b), w.flags, q, w.seen)
  BY <1>5, DropOk, SMTT(30)
<1>10. ASSUME w.cb = "user", w.flags = Whole, w.asked = "cont", AllOpen(Vol), Orderly(Vol),
              q = <<>> \/ (Len(q) = 1 /\ w.seen[1] = OrphanDir)
       PROVE  Orphaned(Vol) \subseteq w.shown
  <2>1. Hunting(Vol, p, w.seen, w.shown)
    BY <1>2, <1>3, <1>10 DEF WalkGood, Hunts, p
  <2>2. CASE q = <<>>
    <3>1. Len(p) = 1 /\ Len(w.seen) = 0
      BY <1>5, <1>8, <2>2
    <3>2. p[1].i > Len(p[1].names)
      BY <1>7, <3>1
    <3> QED
      BY <2>1, <3>1, <3>2 DEF Hunting
  <2>3. CASE Len(q) = 1 /\ w.seen[1] = OrphanDir
    <3>1. Len(p) = 2 /\ Len(w.seen) = 1
      BY <1>5, <1>9, <2>3
    <3>2. Done(Vol, p, w.seen, Shown(Whole, w.shown))
      <4>1. Covered(Vol, Root, w, Shown(Whole, w.shown))
        BY <1>2, <1>10 DEF WalkOk, Tells, Whole
      <4> QED
        BY <1>2, <4>1 DEF Covered, p
    <3> QED
      BY <1>2, <1>5, <1>7, <1>10, <2>1, <2>3, <3>1, <3>2, OrphansDone
  <2> QED
    BY <1>10, <2>2, <2>3
<1> HIDE DEF q
<1>11. WalkGood(Vol, list_inum_named, r, b, TRUE)
  <2>1. Len(q) = Len(w.seen) /\ Len(q) <= Len(w.path) /\ \A k \in 1 .. Len(q) : q[k] = w.path[k]
    BY <1>5, <1>8 DEF p
  <2> QED
    BY <1>2, <1>3, <1>4, <1>8, <1>9, <1>10, <2>1, LeftGood
<1> QED
  BY <1>1, <1>4, <1>11, WalkListed DEF b

LEMMA WalkNameListed ==
  ASSUME WalksOk, ListsOk, AllWalkable, GoesOn, NEW t \in Threads, WalkName(t)
  PROVE  ListsOk'
<1> DEFINE w == Me(t)
           b == Caller(t)
           f == Last(w.path)
           asks == w.cb = "user" /\ Here(w).alloc \in Shows(w.flags)
           Told(answer) ==
             IF ~asks THEN w
             ELSE [w EXCEPT !.shown = @ \cup {Here(w).addr},
                            !.asked = IF @ = "cont" THEN answer ELSE @]
<1>1. /\ Running(t, "walk", "names") /\ w.cb # "orphan" /\ f.i <= Len(f.names)
      /\ UNCHANGED <<fs, orphan_dir, result>>
  BY DEF WalkName
<1>2. PICK answer \in IF asks THEN Answers ELSE {"cont"} :
        /\ Become(t, Answered(Told(answer), answer))
        /\ list_inum_named' = IF answer = "cont" THEN SharedAfter(Told(answer))
                              ELSE list_inum_named
  BY Zenon DEF WalkName, ShareIf
<1> DEFINE d == Told(answer)
           r == Answered(d, answer)
<1>3. /\ w \in WalkRec /\ w.pc = "names" /\ Walking(Vol, Start(w, b), w)
      /\ Start(w, b) \in DOMAIN Vol.meta /\ Vol \in Volumes /\ Walkable(Vol)
      /\ fs \in DOMAIN FileSystems /\ Vol = FileSystems[fs]
  BY <1>1, WalkIs
<1>4. answer \in {"cont", "stop"} /\ (~asks => answer = "cont")
  BY <1>2, DirAssumption DEF GoesOn
<1>5. AtName(w)
  BY <1>1, <1>3 DEF AtName
<1>6. Here(w).addr \in Nat
  BY <1>3, <1>5, HereIs
<1>7. /\ WalkGood(Vol, list_inum_named, w, b, FALSE)
      /\ list_inum_named \in {{}, NamedGone(Vol)}
  BY <1>1, GoodTop DEF WalkGood
<1>8. /\ d \in WalkRec /\ d.pc = w.pc /\ d.cb = w.cb /\ d.flags = w.flags
      /\ d.path = w.path /\ d.seen = w.seen /\ d.saving = w.saving /\ d.list = w.list
      /\ w.shown \subseteq d.shown /\ (d.asked = "cont" => w.asked = "cont")
  <2> HIDE DEF asks, w
  <2>1. CASE asks
    <3>1. d = [w EXCEPT !.shown = w.shown \cup {Here(w).addr},
                        !.asked = IF w.asked = "cont" THEN answer ELSE w.asked]
      BY <2>1
    <3> QED
      BY <1>3, <1>4, <1>6, <2>1, <3>1, ZenonT(40) DEF WalkRec, Rets
  <2>2. CASE ~asks
    BY <1>3, <2>2
  <2> QED
    BY <2>1, <2>2
<1>9. asks => d.cb = "user"
  BY <1>8
<1> HIDE DEF d, asks, w, b
<1>10. Walking(Vol, Start(d, b), d) /\ AtName(d) /\ Start(d, b) \in DOMAIN Vol.meta
  BY <1>3, <1>5, <1>8 DEF Walking, AtName, Start
<1>11. WalkGood(Vol, list_inum_named, d, b, FALSE)
  BY <1>3, <1>7, <1>8, ToldGood
<1>12. /\ r \in WalkRec /\ WalkGood(Vol, list_inum_named', r, b, TRUE)
       /\ list_inum_named' \in {list_inum_named, NamedGone(Vol)}
  <2>1. CASE answer = "cont"
    <3>1. list_inum_named' = SharedAfter(d) /\ r = Processed(d)
      BY <1>2, <2>1 DEF Answered, d
    <3>2. /\ SharedAfter(d) \in {list_inum_named, NamedGone(Vol)}
          /\ WalkGood(Vol, SharedAfter(d), Processed(d), b, TRUE)
      BY <1>3, <1>7, <1>8, <1>10, <1>11, ProcessedGood
    <3>3. Processed(d) \in WalkRec
      BY <1>3, <1>8, <1>10, ProcessedIs
    <3> QED
      BY <3>1, <3>2, <3>3
  <2>2. CASE answer = "stop"
    <3>1. list_inum_named' = list_inum_named /\ r = Stopped(d)
      BY <1>2, <2>2 DEF Answered
    <3>2. d.cb # "named" /\ d.pc = "names"
      BY <1>3, <1>4, <1>8, <1>9, <2>2
    <3>3. WalkGood(Vol, list_inum_named, Stopped(d), b, TRUE)
      BY <1>8, <1>11, <3>2, StoppedGood
    <3>4. Stopped(d) \in WalkRec
      BY <1>8, StoppedIs
    <3> QED
      BY <3>1, <3>3, <3>4
  <2> QED
    BY <1>4, <2>1, <2>2
<1> HIDE DEF r
<1> QED
  BY <1>1, <1>2, <1>12, WalkListed DEF r, d, b, w

\* What an orphan directory leads to is below it.
LEMMA NewlySeenBelow ==
  ASSUME fs \in DOMAIN FileSystems, NEW v, v = FileSystems[fs], Walkable(v),
         NEW a \in DOMAIN v.meta, a # Root, v.meta[a].dir, NEW S, a \in S,
         NEW w \in WalkRec, Walking(v, a, w), AtName(w),
         NEW subdirs \in SUBSET Under(v, S)
  PROVE  /\ subdirs \subseteq NewlySeen(Here(w), subdirs)
         /\ NewlySeen(Here(w), subdirs) \subseteq Under(v, S)
<1> DEFINE e == Here(w)
<1>1. v \in Volumes /\ NoWayBack(v)
  BY DEF Volumes, Walkable
<1>2. /\ w.path \in Seq(FrameRec) /\ w.seen \in Seq(Nat) /\ e \in NameRec /\ e.addr \in Nat
      /\ Shape(v, a, w.flags, w.path, w.seen)
  BY <1>1, HereIs
<1>3. \A k \in 1 .. Len(w.seen) : w.seen[k] # OrphanDir
  <2> DEFINE path == w.path
             seen == w.seen
  <2>1. path \in Seq(FrameRec) /\ seen \in Seq(Nat) /\ Shape(v, a, w.flags, path, seen)
    BY <1>2
  <2> HIDE DEF path, seen
  <2>2. \A k \in 1 .. Len(seen) : seen[k] # Root /\ (seen[k] = OrphanDir => k = 1 /\ a = Root)
    BY <1>1, <2>1, SeenAre
  <2> QED
    BY <2>2 DEF seen
<1>4. ASSUME e.kind # "dot", Deleted(e.addr) PROVE e.addr \in Under(v, S)
  <2>1. e.addr \in Gone(v)
    BY <1>2, <1>4, DeletedIs
  <2>2. e.addr # OrphanDir
    BY <1>1, <2>1, VolumeIs DEF Gone
  <2>3. e \in Beneath(v, a, {})
    BY <1>1, <1>3, <2>2, HereBeneath
  <2>4. e.addr \in Inside(v, a)
    BY <1>4, <2>3 DEF Inside
  <2> QED
    BY <2>4 DEF Under
<1> HIDE DEF e
<1> QED
  BY <1>4 DEF NewlySeen, e

LEMMA WalkOrphanNameListed ==
  ASSUME WalksOk, ListsOk, AllWalkable, NEW t \in Threads, WalkOrphanName(t)
  PROVE  ListsOk'
<1> DEFINE w == Me(t)
           b == Caller(t)
           a == Start(w, b)
           f == Last(w.path)
           asks == Here(w).alloc \in Shows(w.flags)
           answer == IF asks THEN OrphanAnswer(Here(w), b.subdirs) ELSE "cont"
           subdirs == IF asks THEN NewlySeen(Here(w), b.subdirs) ELSE b.subdirs
           c == [b EXCEPT !.subdirs = subdirs]
           r == Answered(w, answer)
           now == list_inum_named'
           n == Depth(t) - 1
<1>1. /\ Running(t, "walk", "names") /\ w.cb = "orphan" /\ f.i <= Len(f.names)
      /\ UNCHANGED <<fs, orphan_dir, result>>
  BY DEF WalkOrphanName
<1>2. /\ w \in WalkRec /\ w.pc = "names" /\ Walking(Vol, a, w) /\ a \in DOMAIN Vol.meta
      /\ stack[t] # <<>> /\ Vol \in Volumes /\ Walkable(Vol)
      /\ fs \in DOMAIN FileSystems /\ Vol = FileSystems[fs]
      /\ Depth(t) \in Nat /\ Depth(t) # 0
  BY <1>1, WalkIs
<1>3. /\ Depth(t) # 1 /\ b \in FindRec /\ b.pc = "entering" /\ Len(stack[t]) > 1
      /\ FindGood(Vol, list_inum_named, b, FALSE)
      /\ b.found # <<>> /\ a = Last(b.found) /\ a # Root
  BY <1>1, GoodStart
<1>4. /\ WalkGood(Vol, list_inum_named, w, b, FALSE)
      /\ list_inum_named \in {{}, NamedGone(Vol)}
      /\ stack[t] \in Seq(Records) /\ StackGood(Vol, list_inum_named, stack[t])
  BY <1>1, GoodTop DEF WalkGood
<1>5. /\ b = stack[t][n]
      /\ stack' = [stack EXCEPT ![t] = SubSeq(stack[t], 1, Depth(t) - 2) \o <<c, r>>]
      /\ now = IF answer = "cont" THEN SharedAfter(w) ELSE list_inum_named
  <2>1. b = stack[t][Len(stack[t]) - 1]
    BY <1>2, <1>3, CallerIs DEF Caller, Depth
  <2> HIDE DEF b
  <2> QED
    BY <2>1 DEF WalkOrphanName, Depth, ShareIf
<1>6. AtName(w)
  BY <1>1, <1>2 DEF AtName
<1> HIDE DEF w, b
<1>7. answer \in {"cont", "stop"}
  BY DEF OrphanAnswer
<1> HIDE DEF answer
<1>8. /\ r \in WalkRec /\ now \in {list_inum_named, NamedGone(Vol)}
      /\ WalkGood(Vol, now, r, b, TRUE) /\ r.cb = "orphan"
  <2>1. CASE answer = "cont"
    <3>1. now = SharedAfter(w) /\ r = Processed(w)
      BY <1>5, <2>1 DEF Answered
    <3>2. /\ SharedAfter(w) \in {list_inum_named, NamedGone(Vol)}
          /\ WalkGood(Vol, SharedAfter(w), Processed(w), b, TRUE)
      BY <1>2, <1>4, <1>6, ProcessedGood
    <3>3. Processed(w) \in WalkRec /\ Kept(w, Processed(w))
      BY <1>2, <1>6, ProcessedIs
    <3> QED
      BY <1>1, <3>1, <3>2, <3>3 DEF Kept, w
  <2>2. CASE answer = "stop"
    <3>1. now = list_inum_named /\ r = Stopped(w)
      BY <1>5, <2>2 DEF Answered
    <3>2. w.cb = "orphan"
      BY <1>1 DEF w
    <3>3. WalkGood(Vol, list_inum_named, Stopped(w), b, TRUE)
      BY <1>2, <1>4, <3>2, StoppedGood
    <3>4. Stopped(w) \in WalkRec /\ Kept(w, Stopped(w))
      BY <1>2, StoppedIs
    <3> QED
      BY <3>1, <3>2, <3>3, <3>4 DEF Kept
  <2> QED
    BY <1>7, <2>1, <2>2
<1>9. /\ b.subdirs \subseteq subdirs /\ subdirs \subseteq Under(Vol, Range(b.found))
      /\ subdirs \in SUBSET Nat
  <2> DEFINE q == b.found
  <2>1. b.subdirs \in SUBSET Under(Vol, Range(q)) /\ q \in Seq(Orphaned(Vol)) /\ q # <<>>
    BY <1>3 DEF FindGood
  <2>2. Vol.meta[a].dir
    BY <1>1, <1>4 DEF WalkGood, Opens, w
  <2>3. a \in Range(q)
    <3>1. a = Last(q)
      BY <1>3
    <3> HIDE DEF q, a
    <3>2. Last(q) = q[Len(q)] /\ Len(q) \in DOMAIN q
      BY <2>1, LenProperties, EmptySeq DEF Last
    <3> QED
      BY <3>1, <3>2 DEF Range
  <2> DEFINE S == Range(q)
             T == b.subdirs
  <2>4. b.subdirs \in SUBSET Nat /\ Here(w).addr \in Nat
    BY <1>2, <1>3, <1>6, HereIs DEF FindRec
  <2>5. /\ T \subseteq NewlySeen(Here(w), T)
        /\ NewlySeen(Here(w), T) \subseteq Under(Vol, S)
    <3>1. T \in SUBSET Under(Vol, S) /\ a \in S
      BY <2>1, <2>3
    <3> HIDE DEF T, S, a
    <3> QED
      BY <1>2, <1>3, <1>6, <2>2, <3>1, NewlySeenBelow
  <2>6. NewlySeen(Here(w), T) \in SUBSET Nat
    BY <2>4 DEF NewlySeen
  <2> QED
    BY <2>1, <2>4, <2>5, <2>6
<1> HIDE DEF subdirs
<1>10. /\ c \in FindRec /\ c.fn = "find_orphans" /\ c.pc = b.pc /\ c.found = b.found
       /\ c.todo = b.todo /\ c.subdirs = subdirs
  BY <1>3, <1>9 DEF FindRec
<1> HIDE DEF c, r, a
<1>11. FindGood(Vol, now, c, FALSE)
  BY <1>3, <1>8, <1>9, <1>10 DEF FindGood
<1>12. WalkGood(Vol, now, r, c, TRUE)
  BY <1>8, <1>10 DEF WalkGood, Opens, Start
<1>13. /\ RecGood(Vol, now, c, Below(stack[t], n), FALSE)
       /\ RecGood(Vol, now, r, c, TRUE)
       /\ c \in Records /\ r \in Records
  BY <1>8, <1>10, <1>11, <1>12 DEF RecGood, WalkRec, FindRec, Records
<1> DEFINE s == stack[t]
<1>14. StackGood(Vol, now, SubSeq(s, 1, Len(s) - 2) \o <<c, r>>)
  <2>1. RecGood(Vol, now, c, Below(s, Len(s) - 1), FALSE)
    BY <1>13 DEF Depth
  <2>2. s \in Seq(Records) /\ Len(s) > 1 /\ StackGood(Vol, list_inum_named, s)
    BY <1>3, <1>4
  <2> HIDE DEF s, now
  <2>3. now \in {list_inum_named, NamedGone(Vol)}
    BY <1>8
  <2> QED
    BY <1>13, <2>1, <2>2, <2>3, GoodCallback
<1> QED
  BY <1>1, <1>5, <1>8, <1>14, StackListed DEF Depth

\* A list that is handed over has all deleted inodes that names point to.
LEMMA SavedAll ==
  ASSUME NEW v \in Volumes, NEW w \in WalkRec, w.pc = "end", w.ret = "cont", w.saving,
         Saves(v, w), list_inum_named \in {{}, NamedGone(v)}
  PROVE  SavedNames(w) = NamedGone(v)
<1>1. w.list \subseteq NamedGone(v) /\ Beneath(v, Root, {}) \subseteq Listed(v, w.list)
  BY DEF Saves, Covered
<1>2. NamedGone(v) \subseteq w.list
  BY <1>1 DEF NamedGone, Listed
<1> QED
  BY <1>1, <1>2 DEF SavedNames

LEMMA EndWalkListed ==
  ASSUME WalksOk, ListsOk, AllWalkable, NEW t \in Threads, EndWalk(t)
  PROVE  ListsOk'
<1> DEFINE w == Me(t)
           b == Caller(t)
           value == [fn |-> "walk", err |-> w.ret = "error", shown |-> w.shown,
                     asked |-> w.asked, flags |-> w.flags]
           now == list_inum_named'
           n == Depth(t) - 1
<1>1. /\ Running(t, "walk", "end") /\ Return(t, value) /\ UNCHANGED <<fs, orphan_dir>>
      /\ now = IF w.saving /\ w.ret = "cont" THEN SavedNames(w) ELSE list_inum_named
  BY DEF EndWalk
<1>2. /\ w \in WalkRec /\ w.pc = "end" /\ WalkOk(Vol, w, b, Depth(t), TRUE)
      /\ stack[t] # <<>> /\ Depth(t) \in Nat /\ Depth(t) # 0 /\ Vol \in Volumes
  BY <1>1, WalkIs
<1>3. /\ Saves(Vol, w) /\ Informs(Vol, list_inum_named, w) /\ Opens(Vol, w, b) /\ Hunts(Vol, w)
      /\ list_inum_named \in {{}, NamedGone(Vol)}
  BY <1>1, GoodTop DEF WalkGood
<1>4. w.cb # "user" => /\ Depth(t) # 1 /\ b \in FindRec
                       /\ b.pc = IF w.cb = "named" THEN "loading" ELSE "entering"
                       /\ FindGood(Vol, list_inum_named, b, FALSE)
  BY <1>1, GoodStart
<1> HIDE DEF w, b
<1>5. w.ret \in Rets /\ (w.cb = "user" <=> Depth(t) = 1) /\ Tells(Vol, w)
  BY <1>2 DEF WalkOk
<1>6. /\ now \in {list_inum_named, NamedGone(Vol)}
      /\ w.saving /\ w.ret = "cont" => now = NamedGone(Vol)
  BY <1>1, <1>2, <1>3, SavedAll
<1>7. value \in WalkResult
  <2>1. (w.ret = "error") \in BOOLEAN
    OBVIOUS
  <2> QED
    BY <1>2, <2>1 DEF WalkRec, WalkResult, Rets
<1>8. /\ value.err = (w.ret = "error") /\ value.asked = w.asked
      /\ value.flags = w.flags /\ value.shown = w.shown
  OBVIOUS
<1> HIDE DEF value
<1>9. Depth(t) = 1 => ResultGood(Vol, value)
  <2> SUFFICES ASSUME w.cb = "user", ~value.err, w.asked = "cont", w.flags = Whole,
                      AllOpen(Vol), Orderly(Vol)
               PROVE  Orphaned(Vol) \subseteq w.shown
    BY <1>5, <1>8 DEF ResultGood
  <2>1. w.flags.recurse
    BY DEF Whole
  <2>2. w.ret = "cont"
    BY <1>2, <1>5, <1>8, <2>1 DEF Tells, Rets
  <2> QED
    BY <1>2, <1>3, <2>2 DEF Hunts
<1>10. ASSUME Depth(t) # 1
       PROVE  /\ [b EXCEPT !.got = value] \in Records
              /\ RecGood(Vol, now, [b EXCEPT !.got = value], Below(stack[t], n), TRUE)
  <2> DEFINE c == [b EXCEPT !.got = value]
  <2>1. /\ w.cb # "user" /\ b \in FindRec /\ FindGood(Vol, list_inum_named, b, FALSE)
        /\ b.pc = IF w.cb = "named" THEN "loading" ELSE "entering"
    BY <1>4, <1>5, <1>10
  <2>2. /\ c \in FindRec /\ c.fn = "find_orphans" /\ c.pc = b.pc /\ c.found = b.found
        /\ c.todo = b.todo /\ c.subdirs = b.subdirs /\ c.got = value
    BY <1>7, <2>1 DEF FindRec, Got
  <2> HIDE DEF c
  <2>3. ~value.err /\ w.cb = "named" => now = NamedGone(Vol)
    BY <1>2, <1>3, <1>5, <1>6, <1>8 DEF Informs, Rets
  <2>4. AllOpen(Vol) => ~value.err
    BY <1>2, <1>3, <1>8, <2>1 DEF Opens
  <2> HIDE DEF now
  <2>5. FindGood(Vol, now, c, TRUE)
    BY <1>6, <2>1, <2>2, <2>3, <2>4 DEF FindGood
  <2>6. RecGood(Vol, now, c, Below(stack[t], n), TRUE) /\ c \in Records
    BY <2>2, <2>5 DEF RecGood, Records
  <2> QED
    BY <2>6 DEF c
<1>11. orphan_dir' # NULL => GoodNames(Vol, orphan_dir')
  BY <1>1 DEF ListsOk
<1> QED
  BY <1>1, <1>6, <1>9, <1>10, <1>11, ReturnListed DEF b

-----------------------------------------------------------------------------
(* The steps of the search: it goes on, calls a walk, returns.             *)
LEMMA FindListed ==
  ASSUME WalksOk, ListsOk, AllWalkable, NEW t \in Threads, NEW pc,
         Running(t, "find_orphans", pc), NEW r \in FindRec, Become(t, r),
         UNCHANGED <<fs, orphan_dir, result, list_inum_named>>,
         FindGood(Vol, list_inum_named, r, TRUE)
  PROVE  ListsOk'
<1>1. r \in Records /\ r.fn = "find_orphans"
  BY DEF FindRec, Records
<1>2. RecGood(Vol, list_inum_named', r, Caller(t), TRUE)
  BY <1>1 DEF RecGood
<1> QED
  BY <1>1, <1>2, BecomeListed

LEMMA WalkCalled ==
  ASSUME WalksOk, ListsOk, AllWalkable, NEW t \in Threads, NEW pc,
         Running(t, "find_orphans", pc), NEW r \in FindRec,
         FindGood(Vol, list_inum_named, r, FALSE), NEW cb \in {"named", "orphan"}, NEW a \in Nat,
         cb = "orphan" => Vol.meta[a].dir /\ a = Last(r.found),
         Call(t, r, Walk(cb, a, CollectOnly)),
         UNCHANGED <<fs, orphan_dir, result, list_inum_named>>
  PROVE  ListsOk'
<1> DEFINE w == Walk(cb, a, CollectOnly)
<1>1. CollectOnly \in Flags /\ NULL \in Got /\ <<>> \in Seq(Nat) /\ <<>> \in Seq(FrameRec)
  BY DEF CollectOnly, Flags, Got
<1>2. w \in WalkRec
  BY <1>1 DEF Walk, WalkRec, Rets
<1>3. /\ w.fn = "walk" /\ w.cb = cb /\ w.pc = "begin" /\ w.seen = <<>> /\ w.list = {}
      /\ ~w.saving
  BY DEF Walk
<1> HIDE DEF w
<1>4. Saves(Vol, w) /\ Quiet(w) /\ Informs(Vol, list_inum_named, w) /\ Hunts(Vol, w)
  BY <1>3 DEF Saves, Quiet, Informs, Hunts
<1>5. Opens(Vol, w, r)
  BY <1>3 DEF Opens, Start
<1>6. WalkGood(Vol, list_inum_named, w, r, TRUE)
  BY <1>3, <1>4, <1>5 DEF WalkGood
<1>7. /\ RecGood(Vol, list_inum_named, r, Caller(t), FALSE)
      /\ RecGood(Vol, list_inum_named, w, r, TRUE)
      /\ r \in Records /\ w \in Records
  BY <1>2, <1>3, <1>6 DEF RecGood, FindRec, Records
<1> QED
  BY <1>7, CallListed DEF w

LEMMA FindReturned ==
  ASSUME WalksOk, ListsOk, AllWalkable, NEW t \in Threads, NEW pc,
         Running(t, "find_orphans", pc), NEW value \in OpenResult, value.fn = "open",
         GoodGot(Vol, value), Return(t, value), fs' = fs, list_inum_named' = list_inum_named,
         orphan_dir' # NULL => GoodNames(Vol, orphan_dir')
  PROVE  ListsOk'
<1> DEFINE b == Caller(t)
           n == Depth(t) - 1
<1>1. /\ FindOk(Vol, Me(t), b, Depth(t), TRUE) /\ stack[t] # <<>>
      /\ Depth(t) \in Nat /\ Depth(t) # 0
  BY FindIs
<1>2. ResultGood(Vol, value)
  BY DEF ResultGood
<1>3. ASSUME Depth(t) # 1
      PROVE  /\ [b EXCEPT !.got = value] \in Records
             /\ RecGood(Vol, list_inum_named, [b EXCEPT !.got = value], Below(stack[t], n), TRUE)
  <2> DEFINE c == [b EXCEPT !.got = value]
             a == Below(stack[t], n)
  <2>1. b \in WalkRec /\ b.pc = "wait"
    BY <1>1, <1>3 DEF FindOk
  <2>2. RecGood(Vol, list_inum_named, b, a, FALSE)
    BY <1>1, <1>3, GoodCaller DEF Depth
  <2> HIDE DEF a, b
  <2>3. WalkGood(Vol, list_inum_named, b, a, FALSE)
    BY <2>1, <2>2 DEF RecGood, WalkRec
  <2>4. /\ c \in WalkRec /\ c.fn = "walk" /\ c.cb = b.cb /\ c.flags = b.flags
        /\ c.shown = b.shown /\ c.asked = b.asked /\ c.pc = "wait" /\ c.path = b.path
        /\ c.seen = b.seen /\ c.saving = b.saving /\ c.list = b.list /\ c.got = value
    BY <2>1 DEF WalkRec, Got
  <2> HIDE DEF c
  <2>5. Saves(Vol, c) /\ Quiet(c)
    BY <2>1, <2>3, <2>4 DEF WalkGood, Saves, Covered, Quiet
  <2>6. Informs(Vol, list_inum_named, c) /\ Opens(Vol, c, a)
    BY <2>1, <2>3, <2>4 DEF WalkGood, Informs, Opens, Start
  <2>7. Hunts(Vol, c)
    BY <2>1, <2>3, <2>4 DEF WalkGood, Hunts
  <2>8. RecGood(Vol, list_inum_named, c, a, TRUE) /\ c \in Records
    BY <2>4, <2>5, <2>6, <2>7 DEF WalkGood, RecGood, Records
  <2> QED
    BY <2>8 DEF c, a
<1> QED
  BY <1>2, <1>3, ReturnListed

LEMMA OpenedGood ==
  ASSUME NEW v \in Volumes, NEW names, GoodNames(v, names)
  PROVE  /\ Opened(names) \in OpenResult /\ Opened(names).fn = "open"
         /\ GoodGot(v, Opened(names))
<1>1. Orphaned(v) \subseteq Nat
  BY VolumeIs DEF Orphaned, Gone
<1>2. names \in Seq(Nat)
  BY <1>1, SeqWider DEF GoodNames
<1> QED
  BY <1>2 DEF Opened, OpenResult, GoodGot

LEMMA NotOpenedGood ==
  ASSUME NEW v, ~AllOpen(v)
  PROVE  NotOpened \in OpenResult /\ NotOpened.fn = "open" /\ GoodGot(v, NotOpened)
  BY DEF NotOpened, OpenResult, GoodGot

LEMMA LockOrphansListed ==
  ASSUME WalksOk, ListsOk, AllWalkable, NEW t \in Threads, LockOrphans(t)
  PROVE  ListsOk'
<1>1. /\ Running(t, "find_orphans", "lock")
      /\ UNCHANGED <<fs, orphan_dir, list_inum_named>>
  BY DEF LockOrphans
<1>2. Me(t) \in FindRec /\ Vol \in Volumes
  BY <1>1, FindIs
<1>3. FindGood(Vol, list_inum_named, Me(t), TRUE)
  BY <1>1, GoodTop
<1>4. CASE orphan_dir # NULL
  <2>1. Return(t, Opened(orphan_dir))
    BY <1>4 DEF LockOrphans
  <2>2. GoodNames(Vol, orphan_dir)
    BY <1>4 DEF ListsOk
  <2>3. /\ Opened(orphan_dir) \in OpenResult /\ Opened(orphan_dir).fn = "open"
        /\ GoodGot(Vol, Opened(orphan_dir))
    BY <1>2, <2>2, OpenedGood
  <2> QED
    BY <1>1, <2>1, <2>2, <2>3, FindReturned
<1>5. CASE orphan_dir = NULL
  <2> DEFINE m == Me(t)
             r == [m EXCEPT !.pc = "load"]
  <2>1. Become(t, r) /\ result' = result
    BY <1>5 DEF LockOrphans
  <2> HIDE DEF m
  <2>2. r \in FindRec /\ r.pc = "load" /\ r.found = m.found /\ r.subdirs = m.subdirs
    BY <1>2 DEF FindRec, m
  <2> HIDE DEF r
  <2>3. FindGood(Vol, list_inum_named, r, TRUE)
    BY <1>3, <2>2 DEF FindGood, m
  <2> QED
    BY <1>1, <2>1, <2>2, <2>3, FindListed
<1> QED
  BY <1>4, <1>5

\* All unallocated inodes are to be looked at.
LEMMA ScanGood ==
  ASSUME WalksOk, ListsOk, AllWalkable, NEW t \in Threads, NEW pc,
         Running(t, "find_orphans", pc), list_inum_named = NamedGone(Vol),
         Become(t, StartScan(Me(t))), UNCHANGED <<fs, orphan_dir, result, list_inum_named>>
  PROVE  ListsOk'
<1> DEFINE m == Me(t)
           r == [m EXCEPT !.pc = "scan", !.got = NULL, !.todo = Gone(Vol)]
<1>1. /\ m \in FindRec /\ Vol \in Volumes
      /\ Vol = FileSystems[fs] /\ fs \in DOMAIN FileSystems
  BY FindIs
<1>2. DOMAIN Inodes = DOMAIN Vol.meta /\ DOMAIN Inodes \subseteq Nat
  BY <1>1, VolumeIs DEF Inodes
<1>3. {a \in DOMAIN Inodes : Deleted(a)} = Gone(Vol)
  BY <1>1, <1>2, DeletedIs DEF Gone
<1>4. StartScan(m) = r
  BY <1>3 DEF StartScan
<1>5. FindGood(Vol, list_inum_named, m, TRUE)
  BY GoodTop
<1> HIDE DEF m
<1>6. Gone(Vol) \in SUBSET Nat /\ NULL \in Got
  BY <1>2 DEF Gone, Got
<1>7. /\ r \in FindRec /\ r.pc = "scan" /\ r.found = m.found /\ r.todo = Gone(Vol)
      /\ r.subdirs = m.subdirs
  BY <1>1, <1>6 DEF FindRec
<1> HIDE DEF r
<1>8. Orphaned(Vol) \ r.todo = {}
  BY <1>7 DEF Orphaned
<1>9. FindGood(Vol, list_inum_named, r, TRUE)
  BY <1>5, <1>7, <1>8 DEF FindGood
<1> QED
  BY <1>4, <1>7, <1>9, FindListed DEF m

LEMMA LoadNamedListed ==
  ASSUME WalksOk, ListsOk, AllWalkable, NEW t \in Threads, LoadNamed(t)
  PROVE  ListsOk'
<1>1. /\ Running(t, "find_orphans", "load")
      /\ UNCHANGED <<fs, orphan_dir, result, list_inum_named>>
  BY DEF LoadNamed
<1>2. Me(t) \in FindRec /\ Root \in Nat
  BY <1>1, FindIs, VolumeIs
<1>3. FindGood(Vol, list_inum_named, Me(t), TRUE)
  BY <1>1, GoodTop
<1>4. CASE list_inum_named # {}
  <2>1. list_inum_named = NamedGone(Vol)
    BY <1>4 DEF ListsOk
  <2> QED
    BY <1>1, <1>4, <2>1, ScanGood DEF LoadNamed
<1>5. CASE list_inum_named = {}
  <2> DEFINE m == Me(t)
             r == [m EXCEPT !.pc = "loading"]
  <2>1. Call(t, r, Walk("named", Root, CollectOnly))
    BY <1>5 DEF LoadNamed
  <2> HIDE DEF m
  <2>2. r \in FindRec /\ r.pc = "loading" /\ r.found = m.found /\ r.subdirs = m.subdirs
    BY <1>2 DEF FindRec, m
  <2> HIDE DEF r
  <2>3. FindGood(Vol, list_inum_named, r, FALSE)
    BY <1>3, <2>2 DEF FindGood, m
  <2> QED
    BY <1>1, <1>2, <2>1, <2>2, <2>3, WalkCalled
<1> QED
  BY <1>4, <1>5

\* The search gives up if it could not open a directory.
LEMMA GaveUpListed ==
  ASSUME WalksOk, ListsOk, AllWalkable, NEW t \in Threads, NEW pc \in {"loading", "entering"},
         Running(t, "find_orphans", pc), Me(t).got.err, Return(t, NotOpened),
         UNCHANGED <<fs, orphan_dir, list_inum_named>>
  PROVE  ListsOk'
<1>1. FindGood(Vol, list_inum_named, Me(t), TRUE) /\ Me(t).pc = pc
  BY GoodTop, FindIs
<1>2. ~AllOpen(Vol)
  BY <1>1 DEF FindGood
<1>3. orphan_dir' # NULL => GoodNames(Vol, orphan_dir')
  BY DEF ListsOk
<1>4. NotOpened \in OpenResult /\ NotOpened.fn = "open" /\ GoodGot(Vol, NotOpened)
  BY <1>2, NotOpenedGood
<1> QED
  BY <1>3, <1>4, FindReturned

LEMMA NamedLoadedListed ==
  ASSUME WalksOk, ListsOk, AllWalkable, NEW t \in Threads, NamedLoaded(t)
  PROVE  ListsOk'
<1>1. /\ Running(t, "find_orphans", "loading")
      /\ UNCHANGED <<fs, orphan_dir, list_inum_named>>
  BY DEF NamedLoaded
<1>2. CASE Me(t).got.err
  BY <1>1, <1>2, GaveUpListed DEF NamedLoaded, GiveUpOrphans
<1>3. CASE ~Me(t).got.err
  <2>1. FindGood(Vol, list_inum_named, Me(t), TRUE) /\ Me(t).pc = "loading"
    BY <1>1, GoodTop, FindIs
  <2>2. list_inum_named = NamedGone(Vol)
    BY <1>3, <2>1 DEF FindGood
  <2> QED
    BY <1>1, <1>3, <2>2, ScanGood DEF NamedLoaded
<1> QED
  BY <1>2, <1>3

LEMMA RangeGrows ==
  ASSUME NEW S, NEW s \in Seq(S), NEW x \in S
  PROVE  /\ Append(s, x) \in Seq(S) /\ Range(Append(s, x)) = Range(s) \cup {x}
         /\ Last(Append(s, x)) = x /\ Append(s, x) # <<>>
<1> DEFINE q == Append(s, x)
<1>1. PICK n \in Nat : n = Len(s) /\ DOMAIN s = 1 .. n
  BY LenProperties
<1>2. /\ q \in Seq(S) /\ Len(q) = n + 1 /\ DOMAIN q = 1 .. n + 1
      /\ q[n + 1] = x /\ \A i \in 1 .. n : q[i] = s[i]
  <2>1. /\ q \in Seq(S) /\ Len(q) = Len(s) + 1
        /\ \A i \in 1 .. Len(s) : q[i] = s[i]
        /\ q[Len(s) + 1] = x
    BY AppendProperties
  <2> HIDE DEF q
  <2>2. DOMAIN q = 1 .. Len(q)
    BY <2>1, LenProperties
  <2> QED
    BY <1>1, <2>1, <2>2
<1> HIDE DEF q
<1>3. Range(q) = Range(s) \cup {x}
  BY <1>1, <1>2 DEF Range
<1>4. Last(q) = x /\ q # <<>>
  BY <1>2, EmptySeq DEF Last
<1> QED
  BY <1>2, <1>3, <1>4 DEF q

LEMMA ScanInodeListed ==
  ASSUME WalksOk, ListsOk, AllWalkable, NEW t \in Threads, ScanInode(t)
  PROVE  ListsOk'
<1> DEFINE m == Me(t)
           a == Min(m.todo)
           list == list_inum_named
           r == [m EXCEPT !.todo = m.todo \ {a}]
           added == [m EXCEPT !.todo = m.todo \ {a}, !.found = Append(m.found, a)]
           enters == [m EXCEPT !.todo = m.todo \ {a}, !.found = Append(m.found, a),
                               !.pc = "entering"]
<1>1. /\ Running(t, "find_orphans", "scan") /\ m.todo # {}
      /\ UNCHANGED <<fs, orphan_dir, result, list_inum_named>>
  BY DEF ScanInode
<1>2. /\ m \in FindRec /\ m.pc = "scan" /\ FindOk(Vol, m, Caller(t), Depth(t), TRUE)
      /\ Vol \in Volumes /\ Vol = FileSystems[fs]
  BY <1>1, FindIs
<1>3. FindGood(Vol, list, m, TRUE)
  BY <1>1, GoodTop
<1>4. \/ (a \in list \/ a \in m.subdirs) /\ Become(t, r)
      \/ a \notin list /\ ~Meta(a).dir /\ Become(t, added)
      \/ a \notin list /\ Meta(a).dir /\ Call(t, enters, Walk("orphan", a, CollectOnly))
  <2>1. m \in FindRec /\ [m EXCEPT !.todo = @ \ {a}] = r
    BY <1>2
  <2> HIDE DEF m, a
  <2>2. /\ [r EXCEPT !.found = Append(@, a)] = added
        /\ [added EXCEPT !.pc = "entering"] = enters /\ r.subdirs = m.subdirs
    BY <2>1 DEF FindRec
  <2> HIDE DEF r, added, enters
  <2> QED
    BY <2>1, <2>2 DEF ScanInode, m, a
<1> HIDE DEF m
<1>5. m.todo \subseteq Gone(Vol) /\ Gone(Vol) \subseteq Nat /\ OrphanDir \notin Gone(Vol)
  BY <1>2, VolumeIs DEF FindOk, Gone
<1>6. a \in m.todo
  <2>1. m.todo \subseteq Nat
    BY <1>5
  <2>2. \E x \in m.todo : \A y \in m.todo : x <= y
    BY <1>1, <2>1, LeastNat DEF m
  <2> QED
    BY <2>2 DEF Min
<1> HIDE DEF a
<1>7. a \in Gone(Vol) /\ a \in Nat /\ m.todo \ {a} \in SUBSET Nat /\ a # OrphanDir
  BY <1>5, <1>6
<1>8. /\ list = NamedGone(Vol) /\ m.found \in Seq(Orphaned(Vol))
      /\ Orphaned(Vol) \ m.todo \subseteq Range(m.found) \cup m.subdirs
      /\ m.subdirs \subseteq Under(Vol, Range(m.found))
  BY <1>2, <1>3 DEF FindGood
<1>9. CASE (a \in list \/ a \in m.subdirs) /\ Become(t, r)
  <2>1. /\ r \in FindRec /\ r.pc = "scan" /\ r.found = m.found /\ r.todo = m.todo \ {a}
        /\ r.subdirs = m.subdirs
    BY <1>2, <1>7 DEF FindRec
  <2> HIDE DEF r
  <2>2. Orphaned(Vol) \ r.todo \subseteq Range(r.found) \cup r.subdirs
    BY <1>8, <1>9, <2>1 DEF Orphaned
  <2>3. FindGood(Vol, list, r, TRUE)
    BY <1>8, <2>1, <2>2 DEF FindGood
  <2> QED
    BY <1>1, <1>9, <2>1, <2>3, FindListed
<1>10. CASE a \notin list
  <2>1. a \in Orphaned(Vol)
    BY <1>7, <1>8, <1>10 DEF Orphaned
  <2> DEFINE p == m.found
             q == Append(p, a)
  <2>2. /\ q \in Seq(Orphaned(Vol)) /\ Range(q) = Range(p) \cup {a}
        /\ Last(q) = a /\ q # <<>>
    <3>1. p \in Seq(Orphaned(Vol))
      BY <1>8
    <3> HIDE DEF p
    <3> QED
      BY <2>1, <3>1, RangeGrows
  <2> HIDE DEF q
  <2>3. q \in Seq(Nat)
    <3>1. Orphaned(Vol) \subseteq Nat
      BY <1>5 DEF Orphaned
    <3> QED
      BY <2>2, <3>1, SeqWider
  <2>4. Under(Vol, Range(p)) \subseteq Under(Vol, Range(q))
    BY <2>2 DEF Under
  <2>5. ASSUME NEW s \in FindRec, s.pc \in {"scan", "entering"}, s.found = q,
               s.todo = m.todo \ {a}, s.subdirs = m.subdirs,
               NEW top \in BOOLEAN, top => s.pc = "scan"
        PROVE  FindGood(Vol, list, s, top)
    <3>1. Orphaned(Vol) \ s.todo \subseteq Range(q) \cup s.subdirs
      BY <1>8, <2>2, <2>5
    <3>2. s.subdirs \subseteq Under(Vol, Range(q))
      BY <1>8, <2>4, <2>5
    <3> QED
      BY <1>8, <2>2, <2>5, <3>1, <3>2 DEF FindGood
  <2>6. /\ added \in FindRec /\ added.pc = "scan" /\ added.found = q
        /\ added.todo = m.todo \ {a} /\ added.subdirs = m.subdirs
    BY <1>2, <1>7, <2>3 DEF FindRec, q
  <2>7. /\ enters \in FindRec /\ enters.pc = "entering" /\ enters.found = q
        /\ enters.todo = m.todo \ {a} /\ enters.subdirs = m.subdirs
    BY <1>2, <1>7, <2>3 DEF FindRec, q
  <2> HIDE DEF added, enters
  <2>8. FindGood(Vol, list, added, TRUE) /\ FindGood(Vol, list, enters, FALSE)
    BY <2>5, <2>6, <2>7
  <2>9. CASE Become(t, added)
    BY <1>1, <2>6, <2>8, <2>9, FindListed
  <2>10. CASE Meta(a).dir /\ Call(t, enters, Walk("orphan", a, CollectOnly))
    <3>1. Vol.meta[a].dir
      BY <1>2, <1>7, <2>10 DEF Meta, Inodes
    <3> QED
      BY <1>1, <1>7, <2>2, <2>7, <2>8, <2>10, <3>1, WalkCalled
  <2> QED
    BY <1>4, <1>9, <1>10, <2>9, <2>10
<1> QED
  BY <1>4, <1>9, <1>10

LEMMA OrphanEnteredListed ==
  ASSUME WalksOk, ListsOk, AllWalkable, NEW t \in Threads, OrphanEntered(t)
  PROVE  ListsOk'
<1> DEFINE m == Me(t)
           r == [m EXCEPT !.pc = "scan", !.got = NULL]
<1>1. /\ Running(t, "find_orphans", "entering")
      /\ UNCHANGED <<fs, orphan_dir, list_inum_named>>
  BY DEF OrphanEntered
<1>2. m \in FindRec /\ m.pc = "entering"
  BY <1>1, FindIs
<1>3. FindGood(Vol, list_inum_named, m, TRUE)
  BY <1>1, GoodTop
<1>4. CASE m.got.err
  BY <1>1, <1>4, GaveUpListed DEF OrphanEntered, GiveUpOrphans
<1>5. CASE ~m.got.err
  <2>1. Become(t, r) /\ result' = result
    BY <1>5 DEF OrphanEntered
  <2> HIDE DEF m
  <2>2. NULL \in Got
    BY DEF Got
  <2>3. /\ r \in FindRec /\ r.pc = "scan" /\ r.found = m.found /\ r.todo = m.todo
        /\ r.subdirs = m.subdirs
    BY <1>2, <2>2 DEF FindRec
  <2> HIDE DEF r
  <2>4. FindGood(Vol, list_inum_named, r, TRUE)
    BY <1>2, <1>3, <2>3 DEF FindGood
  <2> QED
    BY <1>1, <2>1, <2>3, <2>4, FindListed
<1> QED
  BY <1>4, <1>5

LEMMA FinishOrphansListed ==
  ASSUME WalksOk, ListsOk, AllWalkable, NEW t \in Threads, FinishOrphans(t)
  PROVE  ListsOk'
<1> DEFINE m == Me(t)
<1>1. /\ Running(t, "find_orphans", "scan") /\ m.todo = {}
      /\ orphan_dir' = Dedup(m.found, m.subdirs) /\ Return(t, Opened(orphan_dir'))
      /\ UNCHANGED <<fs, list_inum_named>>
  BY DEF FinishOrphans
<1>2. m.pc = "scan" /\ Vol \in Volumes
  BY <1>1, FindIs
<1>3. FindGood(Vol, list_inum_named, m, TRUE)
  BY <1>1, GoodTop
<1>4. /\ m.found \in Seq(Orphaned(Vol)) /\ m.subdirs \in SUBSET Under(Vol, Range(m.found))
      /\ Orphaned(Vol) \subseteq Range(m.found) \cup m.subdirs
  BY <1>1, <1>2, <1>3 DEF FindGood
<1>5. GoodNames(Vol, orphan_dir')
  BY <1>1, <1>2, <1>4, OrphansKept
<1>6. /\ Opened(orphan_dir') \in OpenResult /\ Opened(orphan_dir').fn = "open"
      /\ GoodGot(Vol, Opened(orphan_dir'))
  BY <1>2, <1>5, OpenedGood
<1> QED
  BY <1>1, <1>5, <1>6, FindReturned

-----------------------------------------------------------------------------
(* The invariant.                                                          *)
LEMMA ListsOkInit == Init => ListsOk
<1> SUFFICES ASSUME Init PROVE ListsOk
  OBVIOUS
<1>1. /\ list_inum_named = {} /\ orphan_dir = NULL
      /\ \A t \in Threads : stack[t] = <<>> /\ result[t] = NoResult
  BY DEF Init
<1>2. StackGood(Vol, list_inum_named, <<>>) /\ ResultGood(Vol, NoResult)
  BY DEF StackGood, ResultGood, NoResult
<1> QED
  BY <1>1, <1>2 DEF ListsOk

LEMMA StartListed ==
  ASSUME WalksOk, ListsOk, NEW t \in Threads, NEW r \in Records,
         RecGood(Vol, list_inum_named, r, NULL, TRUE),
         stack' = [stack EXCEPT ![t] = <<r>>], result' = [result EXCEPT ![t] = NoResult],
         UNCHANGED <<fs, orphan_dir, list_inum_named>>
  PROVE  ListsOk'
<1> DEFINE s == <<r>>
<1>1. Len(s) = 1 /\ s[1] = r /\ Below(s, 1) = NULL
  BY DEF Below
<1> HIDE DEF s
<1>2. \A k \in 1 .. Len(s) : k = 1 /\ (k = Len(s)) = TRUE
  BY <1>1
<1>3. StackGood(Vol, list_inum_named, s)
  <2>1. \A k \in 1 .. Len(s) : RecGood(Vol, list_inum_named, s[k], Below(s, k), k = Len(s))
    BY <1>1, <1>2
  <2> QED
    BY <2>1 DEF StackGood
<1>4. ResultGood(Vol, NoResult)
  BY DEF ResultGood, NoResult
<1>5. orphan_dir' # NULL => GoodNames(Vol, orphan_dir')
  BY DEF ListsOk
<1> QED
  BY <1>3, <1>4, <1>5, ListsKept DEF s

LEMMA CallWalkListed ==
  ASSUME WalksOk, ListsOk, NEW t \in Threads, CallWalk(t)
  PROVE  ListsOk'
<1>1. PICK flags \in WalkFlags : stack' = [stack EXCEPT ![t] = <<Walk("user", Root, flags)>>]
  BY DEF CallWalk
<1> DEFINE w == Walk("user", Root, flags)
<1>2. /\ flags \in Flags /\ Root \in Nat
      /\ NULL \in Got /\ <<>> \in Seq(Nat) /\ <<>> \in Seq(FrameRec)
  BY DirAssumption DEF Got
<1>3. w \in WalkRec
  BY <1>2 DEF Walk, WalkRec, Rets
<1>4. /\ w.fn = "walk" /\ w.cb = "user" /\ w.pc = "begin" /\ w.seen = <<>> /\ w.path = <<>>
      /\ w.list = {} /\ ~w.saving
  BY DEF Walk
<1>5. stack' = [stack EXCEPT ![t] = <<w>>]
  BY <1>1
<1> HIDE DEF w
<1>6. Saves(Vol, w) /\ Quiet(w) /\ Informs(Vol, list_inum_named, w)
  BY <1>4 DEF Saves, Quiet, Informs
<1>7. Opens(Vol, w, NULL) /\ Hunts(Vol, w)
  BY <1>4 DEF Opens, Hunts, Hunting
<1>8. RecGood(Vol, list_inum_named, w, NULL, TRUE) /\ w \in Records
  BY <1>3, <1>4, <1>6, <1>7 DEF WalkGood, RecGood, Records
<1> QED
  BY <1>5, <1>8, StartListed DEF CallWalk

LEMMA CallOpenOrphansListed ==
  ASSUME WalksOk, ListsOk, NEW t \in Threads, CallOpenOrphans(t)
  PROVE  ListsOk'
<1> DEFINE r == FindOrphans
<1>1. stack' = [stack EXCEPT ![t] = <<r>>]
  BY DEF CallOpenOrphans
<1>2. NULL \in Got /\ <<>> \in Seq(Nat) /\ <<>> \in Seq(Orphaned(Vol))
  BY DEF Got
<1>3. /\ r \in FindRec /\ r.fn = "find_orphans" /\ r.pc = "lock" /\ r.found = <<>>
      /\ r.subdirs = {}
  BY <1>2 DEF FindOrphans, FindRec
<1> HIDE DEF r
<1>4. RecGood(Vol, list_inum_named, r, NULL, TRUE) /\ r \in Records
  BY <1>2, <1>3 DEF FindGood, RecGood, Records
<1> QED
  BY <1>1, <1>4, StartListed DEF CallOpenOrphans

LEMMA ListsOkNext ==
  ASSUME WalksOk, ListsOk, AllWalkable, GoesOn, [Next]_vars
  PROVE  ListsOk'
<1>1. CASE Next
  <2>1. PICK t \in Threads : CallWalk(t) \/ CallOpenOrphans(t) \/ Step(t)
    BY <1>1 DEF Next
  <2> QED
    BY <2>1, CallWalkListed, CallOpenOrphansListed, BeginWalkListed, OpenDirListed,
       OpenOrphanDirListed, OrphanDirOpenedListed, WalkNameListed, WalkOrphanNameListed,
       EndDirListed, EndWalkListed, LockOrphansListed, LoadNamedListed, NamedLoadedListed,
       ScanInodeListed, OrphanEnteredListed, FinishOrphansListed DEF Step
<1>2. CASE UNCHANGED vars
  <2>1. UNCHANGED <<fs, stack, result, orphan_dir, list_inum_named>>
    BY <1>2 DEF vars
  <2>2. Vol' = Vol
    BY <2>1 DEF Vol
  <2> QED
    BY <2>1, <2>2 DEF ListsOk
<1> QED
  BY <1>1, <1>2

(* Whatever the walks of several threads do to the list and the orphans,   *)
(* every record of every stack is as ListsOk says: fs_dir.c:596-834 and    *)
(* 926-1244.                                                               *)
THEOREM ListsOkAlways ==
  ASSUME AllWalkable, GoesOn
  PROVE  Spec => []ListsOk
<1>1. Init => ListsOk
  BY ListsOkInit
<1>2. AllWalkable /\ GoesOn /\ WalksOk /\ ListsOk /\ [Next]_vars => ListsOk'
  BY ListsOkNext
<1> QED
  BY <1>1, <1>2, WalksOkAlways, PTL DEF Spec

-----------------------------------------------------------------------------
(* What the properties say, in the terms of the proofs.                    *)
LEMMA NamedIs ==
  ASSUME fs \in DOMAIN FileSystems
  PROVE  /\ Vol \in Volumes /\ DOMAIN Inodes = DOMAIN Vol.meta
         /\ DeletedInodes = Gone(Vol)
         /\ Named \cap DeletedInodes = NamedGone(Vol)
         /\ Orphans = Orphaned(Vol)
         /\ \A a \in DOMAIN Vol.meta : InodesBelow(a) = Inside(Vol, a)
<1>1. Vol \in Volumes /\ Vol = FileSystems[fs]
  BY DEF Vol, Volumes
<1>2. DOMAIN Inodes = DOMAIN Vol.meta /\ DOMAIN Inodes \subseteq Nat /\ Root \in DOMAIN Vol.meta
  BY <1>1, VolumeIs DEF Inodes
<1>3. DeletedInodes = Gone(Vol)
  BY <1>1, <1>2, DeletedIs DEF DeletedInodes, Gone
<1>4. \A a \in DOMAIN Vol.meta : NamesBelow[fs][a] = Beneath(Vol, a, {})
  BY <1>1, NamesBelowIs
<1>5. Named = {e.addr : e \in Beneath(Vol, Root, {})}
  BY <1>2, <1>4 DEF Named
<1>6. \A a \in DOMAIN Vol.meta : InodesBelow(a) = Inside(Vol, a)
  BY <1>4 DEF InodesBelow, Inside
<1> QED
  BY <1>1, <1>2, <1>3, <1>5, <1>6 DEF NamedGone, Orphaned, Orphans

(* The shared list is never a part of what it should be (fs_dir.c:820-833): *)
(* it has exactly the unallocated inodes that the names below the root      *)
(* point to, whoever publishes it and however walks overlap; if no callback *)
(* answers with an error (715, 824), no name leads back to the root (638)   *)
(* and no path comes to the limits of a walk (682).                         *)
THEOREM SharedListCompleteAlways ==
  ASSUME AllWalkable, GoesOn
  PROVE  Spec => []SharedListComplete
<1>1. WalksOk /\ ListsOk => SharedListComplete
  <2> SUFFICES ASSUME WalksOk, ListsOk, list_inum_named # {}
               PROVE  list_inum_named = Named \cap DeletedInodes
    BY DEF SharedListComplete
  <2>1. list_inum_named = NamedGone(Vol)
    BY DEF ListsOk
  <2> QED
    BY <2>1, NamedIs DEF WalksOk
<1> QED
  BY <1>1, WalksOkAlways, ListsOkAlways, PTL

(* What $OrphanFiles shows is deleted and unnamed (fs_dir.c:1053-1067): no  *)
(* file that a name leads to is taken for an orphan, under the conditions   *)
(* under which the shared list is whole (SharedListCompleteAlways).         *)
THEOREM OrphansUnnamedAlways ==
  ASSUME AllWalkable, GoesOn
  PROVE  Spec => []OrphansUnnamed
<1>1. WalksOk /\ ListsOk => OrphansUnnamed
  <2> SUFFICES ASSUME WalksOk, ListsOk, orphan_dir # NULL
               PROVE  Range(orphan_dir) \subseteq Orphans
    BY DEF OrphansUnnamed
  <2>1. orphan_dir \in Seq(Orphaned(Vol))
    BY DEF ListsOk, GoodNames
  <2>2. Range(orphan_dir) \subseteq Orphaned(Vol)
    <3>1. \A i \in DOMAIN orphan_dir : orphan_dir[i] \in Orphaned(Vol)
      BY <2>1, LenProperties, ElementOfSeq
    <3> QED
      BY <3>1 DEF Range
  <2> QED
    BY <2>2, NamedIs DEF WalksOk
<1> QED
  BY <1>1, WalksOkAlways, ListsOkAlways, PTL

LEMMA AcyclicIs ==
  ASSUME WalksOk, KindsAgree(Vol), OrphansAcyclic
  PROVE  Orderly(Vol)
<1>1. Vol \in Volumes /\ Orphans = Orphaned(Vol)
  BY NamedIs DEF WalksOk
<1>2. \A a \in DOMAIN Vol.meta : InodesBelow(a) = Inside(Vol, a)
  BY NamedIs DEF WalksOk
<1>3. Orphaned(Vol) \subseteq DOMAIN Vol.meta
  BY DEF Orphaned, Gone
<1> QED
  BY <1>1, <1>2, <1>3 DEF Orderly, OrphansAcyclic

(* De-duplication and the early ends of the walks of orphan directories     *)
(* (fs_dir.c:1004-1027, 1226-1240) lose nothing: an orphan that is not in   *)
(* $OrphanFiles is below a directory that is.                               *)
THEOREM NoOrphanLostAlways ==
  ASSUME AllWalkable, GoesOn
  PROVE  Spec => []NoOrphanLost
<1>1. WalksOk /\ ListsOk => NoOrphanLost
  <2> SUFFICES ASSUME WalksOk, ListsOk, orphan_dir # NULL, OrphansAcyclic, NEW x \in Orphans,
                      KindsAgree(Vol), x \notin Range(orphan_dir)
               PROVE  \E a \in Range(orphan_dir) : x \in InodesBelow(a)
    BY DEF NoOrphanLost, Vol
  <2>1. /\ Orphans = Orphaned(Vol)
        /\ \A a \in DOMAIN Vol.meta : InodesBelow(a) = Inside(Vol, a)
    BY NamedIs DEF WalksOk
  <2>2. Orphaned(Vol) \subseteq Range(orphan_dir) \cup Under(Vol, Range(orphan_dir))
    BY AcyclicIs DEF ListsOk, GoodNames
  <2>3. Range(orphan_dir) \subseteq DOMAIN Vol.meta
    <3>1. orphan_dir \in Seq(Orphaned(Vol))
      BY DEF ListsOk, GoodNames
    <3>2. \A i \in DOMAIN orphan_dir : orphan_dir[i] \in Orphaned(Vol)
      BY <3>1, LenProperties, ElementOfSeq
    <3> QED
      BY <3>2 DEF Range, Orphaned, Gone
  <2>4. x \in Under(Vol, Range(orphan_dir))
    BY <2>1, <2>2
  <2> QED
    BY <2>1, <2>3, <2>4 DEF Under
<1> QED
  BY <1>1, WalksOkAlways, ListsOkAlways, PTL

(* A walk of everything that was not stopped has shown every deleted inode, *)
(* by its name or as an orphan, if all directories can be opened.           *)
THEOREM EveryDeletedFileShownAlways ==
  ASSUME AllWalkable, GoesOn
  PROVE  Spec => []EveryDeletedFileShown
<1>1. WalksOk /\ ListsOk => EveryDeletedFileShown
  <2> SUFFICES ASSUME WalksOk, ListsOk, NEW t \in Threads, result[t].fn = "walk",
                      ~result[t].err, result[t].asked = "cont", result[t].flags = Whole,
                      AllOpen(Vol), KindsAgree(Vol), OrphansAcyclic
               PROVE  DeletedInodes \subseteq result[t].shown
    BY DEF EveryDeletedFileShown, Whole, Vol
  <2> DEFINE x == result[t]
  <2>1. /\ DeletedInodes = Gone(Vol) /\ Vol \in Volumes /\ Root \in DOMAIN Vol.meta
        /\ NamesBelow[fs][Root] = Beneath(Vol, Root, {})
    <3>1. DeletedInodes = Gone(Vol) /\ Vol \in Volumes
      BY NamedIs DEF WalksOk
    <3> QED
      BY <3>1, VolumeIs, NamesBelowIs DEF Vol, WalksOk
  <2>2. Orphaned(Vol) \subseteq x.shown
    BY AcyclicIs DEF ListsOk, ResultGood
  <2>3. ASSUME NEW e \in Beneath(Vol, Root, {}) PROVE e.addr \in x.shown
    <3>1. e \in NameRec
      BY <2>1, BeneathNames
    <3>2. e.alloc \in Shows(x.flags) /\ x.flags.recurse
      BY <3>1 DEF NameRec, Shows, Whole
    <3>3. x \in WalkResult /\ Beneath(Vol, Root, {}) \subseteq Shown(x.flags, x.shown)
      <4>1. ResultOk(Vol, x)
        BY DEF WalksOk
      <4> HIDE DEF x
      <4>2. x.fn = "walk" /\ ~x.err /\ x.asked = "cont"
        BY DEF x
      <4>3. x # NoResult /\ x \notin OpenResult
        <5>1. NoResult.fn = "none" /\ NotOpened.fn = "open"
          BY DEF NoResult, NotOpened
        <5>2. \A y \in [fn : {"open"}, err : {FALSE}, names : Seq(Nat)] : y.fn = "open"
          OBVIOUS
        <5> QED
          BY <4>2, <5>1, <5>2 DEF OpenResult
      <4> QED
        BY <3>2, <4>1, <4>2, <4>3 DEF ResultOk
    <3> QED
      BY <3>2, <3>3 DEF Shown
  <2>4. NamedGone(Vol) \subseteq x.shown
    BY <2>3 DEF NamedGone
  <2> QED
    BY <2>1, <2>2, <2>4 DEF Orphaned
<1> QED
  BY <1>1, WalksOkAlways, ListsOkAlways, PTL
=============================================================================
