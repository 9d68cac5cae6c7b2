-------------------------- MODULE HashIndexProofs --------------------------
(***************************************************************************)
(* For every database, every number of threads and of lookups, as long as  *)
(* the last make_index has succeeded: the table from prefixes to lines     *)
(* belongs to the index, a lookup that answers says truly whether the hash *)
(* is in the database, and one with a callback calls it once for every row *)
(* that has the hash.                                                      *)
(***************************************************************************)
EXTENDS HashIndex, FiniteSetTheorems, WellFoundedInduction, TLAPS

(* A set of natural numbers that is not empty has a least one: what stands *)
(* in for induction (what fails somewhere fails somewhere first).          *)
(* Of the intervals from 0 to the numbers of the set one has none of the   *)
(* others strictly inside it.                                              *)
LEMMA LeastNat ==
  ASSUME NEW T, T \subseteq Nat, T # {}
  PROVE  \E x \in T : \A y \in T : x <= y
<1> DEFINE D == {0 .. x : x \in T}
           R == StrictSubsetOrdering(Nat)
<1>1. IsWellFoundedOn(R, FiniteSubsetsOf(Nat))
  BY FS_StrictSubsetOrderingWellFounded
<1>2. \A x \in Nat : 0 .. x \in FiniteSubsetsOf(Nat)
  <2> TAKE x \in Nat
  <2>1. IsFiniteSet(0 .. x)
    BY FS_Interval
  <2>2. 0 .. x \subseteq Nat
    OBVIOUS
  <2> QED
    BY <2>1, <2>2 DEF FiniteSubsetsOf
<1>3. D \subseteq FiniteSubsetsOf(Nat) /\ D # {}
  BY <1>2
<1>4. PICK d \in D : \A e \in D : ~(<<e, d>> \in R)
  <2> HIDE DEF D, R
  <2> QED
    BY <1>1, <1>3, WFMin
<1>5. PICK x \in T : d = 0 .. x
  OBVIOUS
<1>6. ASSUME NEW y \in T, y < x PROVE FALSE
  <2>1. 0 .. y \subseteq d /\ 0 .. y # d
    BY <1>5, <1>6
  <2>2. <<0 .. y, d>> \in R
    BY <2>1, <1>5 DEF StrictSubsetOrdering
  <2> QED
    BY <1>4, <2>2
<1> QED
  BY <1>6


Line == [hash : Hashes, row : Nat]

(* A sorted index of a database *)
Indexes(lines, d) == lines \in Seq(Line) /\ IsIndexOf(lines, d)

HasLine(lines, h) == \E i \in 1 .. Len(lines) : lines[i].hash = h

(* Where the lines of a hash are *)
Bracket(lines, h, l, u) ==
  /\ l \in 1 .. Len(lines) + 1 /\ u \in l .. Len(lines) + 1
  /\ \A i \in 1 .. Len(lines) : (i < l => lines[i].hash < h) /\ (i >= u => lines[i].hash > h)

-----------------------------------------------------------------------------
(* What sort(1) makes is an index. *)
LEMMA SortedIsIndex ==
  ASSUME NEW d \in Seq(Hashes \union {Junk}), NEW s \in IndexesOf(d)
  PROVE  Indexes(s, d)
<1>1. Starts(d) \subseteq 1 .. Len(d)
  BY DEF Starts, Parsed
<1>2. IsFiniteSet(Starts(d))
  <2>1. IsFiniteSet(1 .. Len(d))
    BY FS_Interval
  <2> QED
    BY <1>1, <2>1, FS_Subset
<1>3. Cardinality(Starts(d)) \in Nat
  BY <1>2, FS_CardinalityType
<1>4. Lines(d) \subseteq Line
  <2>1. \A r \in Starts(d) : d[r] \in Hashes /\ r \in Nat
    BY <1>1 DEF Starts, Parsed
  <2> QED
    BY <2>1 DEF Lines, Line
<1>5. s \in [1 .. Cardinality(Starts(d)) -> Lines(d)] /\ IsIndexOf(s, d)
  BY DEF IndexesOf
<1> DEFINE n == Cardinality(Starts(d))
<1>6. s \in [1 .. n -> Line] /\ n \in Nat
  BY <1>3, <1>4, <1>5
<1> HIDE DEF n
<1>7. s \in Seq(Line)
  BY <1>6
<1> QED
  BY <1>5, <1>7 DEF Indexes

(* Lines ascend, and so do their prefixes. *)
LEMMA Ascending ==
  ASSUME NEW lines, NEW d, Indexes(lines, d)
  PROVE  /\ Len(lines) \in Nat
         /\ \A i \in 1 .. Len(lines) :
              /\ lines[i].hash \in Hashes /\ lines[i].hash \in Nat
              /\ Prefix[lines[i].hash] \in 0 .. PrefixCount - 1
         /\ \A i, j \in 1 .. Len(lines) : i <= j => lines[i].hash <= lines[j].hash
<1>1. lines \in Seq(Line)
  BY DEF Indexes
<1>2. \A i \in 1 .. Len(lines) : lines[i] \in Line
  BY <1>1
<1>3. \A i \in 1 .. Len(lines) : lines[i].hash \in Hashes
  BY <1>2 DEF Line
<1>4. \A i \in 1 .. Len(lines) :
        lines[i].hash \in Nat /\ Prefix[lines[i].hash] \in 0 .. PrefixCount - 1
  <2> TAKE i \in 1 .. Len(lines)
  <2> DEFINE h == lines[i].hash
  <2>1. h \in Hashes
    BY <1>3
  <2> HIDE DEF h
  <2>2. h \in Nat /\ Prefix[h] \in 0 .. PrefixCount - 1
    BY <2>1, HashAssumption
  <2> QED
    BY <2>2 DEF h
<1>5. ASSUME NEW i \in 1 .. Len(lines), NEW j \in 1 .. Len(lines), i <= j
      PROVE  lines[i].hash <= lines[j].hash
  <2> DEFINE g == lines[i].hash
             h == lines[j].hash
  <2>1. g \in Nat /\ h \in Nat
    BY <1>4
  <2>2. CASE i = j
    <3>1. g = h
      BY <2>2
    <3> HIDE DEF g, h
    <3>2. g <= h
      BY <2>1, <3>1
    <3> QED
      BY <3>2 DEF g, h
  <2>3. CASE i < j
    <3>1. Before(lines[i], lines[j])
      BY <2>3 DEF Indexes, IsIndexOf
    <3>2. g < h \/ g = h
      BY <3>1 DEF Before
    <3> HIDE DEF g, h
    <3>3. g <= h
      BY <2>1, <3>2
    <3> QED
      BY <3>3 DEF g, h
  <2>4. i \in Int /\ j \in Int
    OBVIOUS
  <2> QED
    BY <1>5, <2>2, <2>3, <2>4
<1>6. Len(lines) \in Nat
  BY <1>1
<1> QED
  BY <1>3, <1>4, <1>5, <1>6

(* A hash that is not all zeros has a line if it has a row: its first row  *)
(* does not have the hash of the one before.                               *)
LEMMA LinesAreRows ==
  ASSUME NEW d \in Seq(Hashes \union {Junk}), NEW lines, Indexes(lines, d),
         NEW h \in Hashes, h # 0
  PROVE  HasLine(lines, h) <=> \E r \in Parsed(d) : d[r] = h
<1>1. {lines[i] : i \in 1 .. Len(lines)} = {[hash |-> d[r], row |-> r] : r \in Starts(d)}
  BY DEF Indexes, IsIndexOf
<1>2. ASSUME HasLine(lines, h) PROVE \E r \in Parsed(d) : d[r] = h
  <2>1. PICK i \in 1 .. Len(lines) : lines[i].hash = h
    BY <1>2 DEF HasLine
  <2>2. PICK r \in Starts(d) : lines[i] = [hash |-> d[r], row |-> r]
    BY <1>1
  <2> QED
    BY <2>1, <2>2 DEF Starts
<1>3. ASSUME \E r \in Parsed(d) : d[r] = h PROVE HasLine(lines, h)
  <2> DEFINE T == {r \in Parsed(d) : d[r] = h}
  <2>0. Parsed(d) \subseteq Nat
    BY DEF Parsed
  <2>1. PICK r \in T : \A q \in T : r <= q
    <3>1. T \subseteq Nat /\ T # {}
      BY <1>3, <2>0
    <3> HIDE DEF T
    <3> QED
      BY <3>1, LeastNat
  <2>2. PreviousHash(d, r) # h
    <3> DEFINE before == {q \in Parsed(d) : q < r}
    <3>1. CASE before = {}
      BY <3>1 DEF PreviousHash
    <3>2. CASE before # {}
      <4> DEFINE S == {r - q : q \in before}
      <4>1. r \in Nat /\ before \subseteq Nat
        BY <2>0
      <4>2. S \subseteq Nat /\ S # {}
        BY <3>2, <4>1
      <4>3. PICK x \in S : \A y \in S : x <= y
        <5> HIDE DEF S
        <5> QED
          BY <4>2, LeastNat
      <4>4. PICK q \in before : x = r - q
        OBVIOUS
      <4>5. \A p \in before : p <= q
        <5> TAKE p \in before
        <5>1. r - q <= r - p
          BY <4>3, <4>4
        <5>2. p \in Nat /\ q \in Nat
          BY <4>1
        <5> QED
          BY <4>1, <5>1, <5>2
      <4> DEFINE c == CHOOSE z \in before : \A p \in before : p <= z
      <4>6. c \in before
        <5> HIDE DEF before
        <5> QED
          BY <4>5
      <4>7. PreviousHash(d, r) = d[c]
        BY <3>2 DEF PreviousHash
      <4> HIDE DEF c
      <4>8. c \in Parsed(d) /\ c < r /\ c \in Nat
        BY <4>1, <4>6
      <4>9. ~(r <= c)
        BY <4>1, <4>8
      <4> QED
        BY <2>1, <4>7, <4>8, <4>9
    <3> QED
      BY <3>1, <3>2
  <2>3. r \in Starts(d) /\ d[r] = h
    BY <2>2 DEF Starts
  <2>4. PICK i \in 1 .. Len(lines) : lines[i] = [hash |-> d[r], row |-> r]
    BY <1>1, <2>3
  <2> QED
    BY <2>3, <2>4 DEF HasLine
<1> QED
  BY <1>2, <1>3

-----------------------------------------------------------------------------
(* The table of an index: the first line of each prefix that has lines *)
LEMMA FirstLineIs ==
  ASSUME NEW lines, NEW d, Indexes(lines, d), NEW p \in 0 .. PrefixCount - 1
  PROVE  LET f == FirstLines(lines)[p] IN
         /\ f = NotSet => \A i \in 1 .. Len(lines) : Prefix[lines[i].hash] # p
         /\ f # NotSet => /\ f \in 1 .. Len(lines) /\ Prefix[lines[f].hash] = p
                          /\ \A i \in 1 .. Len(lines) : Prefix[lines[i].hash] = p => f <= i
<1> DEFINE own == {i \in 1 .. Len(lines) : Prefix[lines[i].hash] = p}
           f == FirstLines(lines)[p]
<1>1. f = IF own = {} THEN NotSet ELSE CHOOSE i \in own : \A j \in own : i <= j
  BY DEF FirstLines
<1>2. Len(lines) \in Nat
  BY Ascending
<1>3. CASE own = {}
  BY <1>1, <1>3 DEF NotSet
<1>4. CASE own # {}
  <2>1. \E i \in own : \A j \in own : i <= j
    <3>1. own \subseteq Nat
      BY <1>2
    <3> HIDE DEF own
    <3> QED
      BY <1>4, <3>1, LeastNat
  <2>2. f = CHOOSE i \in own : \A j \in own : i <= j
    BY <1>1, <1>4
  <2> HIDE DEF f
  <2>3. f \in own /\ \A j \in own : f <= j
    <3> HIDE DEF own
    <3> QED
      BY <2>1, <2>2
  <2>4. f # NotSet
    BY <1>2, <2>3 DEF NotSet
  <2> QED
    BY <2>3, <2>4 DEF f
<1> QED
  BY <1>3, <1>4

LEMMA TableLeads ==
  ASSUME NEW lines, NEW d, Indexes(lines, d)
  PROVE  Leads(FirstLines(lines), lines)
<1> SUFFICES ASSUME NEW i \in 1 .. Len(lines), NEW p, p = Prefix[lines[i].hash]
             PROVE  /\ FirstLines(lines)[p] \in 1 .. i
                    /\ \A q \in p + 1 .. PrefixCount - 1 :
                         FirstLines(lines)[q] = NotSet \/ FirstLines(lines)[q] > i
  BY DEF Leads
<1>1. p \in 0 .. PrefixCount - 1 /\ PrefixCount \in Nat /\ Len(lines) \in Nat
  BY Ascending, HashAssumption
<1>2. FirstLines(lines)[p] \in 1 .. i
  <2> DEFINE f == FirstLines(lines)[p]
  <2>1. f # NotSet /\ f \in 1 .. Len(lines) /\ f <= i
    BY <1>1, FirstLineIs
  <2> HIDE DEF f
  <2>2. f \in 1 .. i
    BY <1>1, <2>1
  <2> QED
    BY <2>2 DEF f
<1>3. ASSUME NEW q \in p + 1 .. PrefixCount - 1, FirstLines(lines)[q] # NotSet
      PROVE  FirstLines(lines)[q] > i
  <2> DEFINE f == FirstLines(lines)[q]
  <2>1. q \in 0 .. PrefixCount - 1 /\ q > p
    BY <1>1
  <2>2. f \in 1 .. Len(lines) /\ Prefix[lines[f].hash] = q
    BY <1>3, <2>1, FirstLineIs
  <2> HIDE DEF f
  <2>3. ASSUME f <= i PROVE FALSE
    <3> DEFINE g == lines[f].hash
               h == lines[i].hash
    <3>1. g \in Hashes /\ h \in Hashes /\ g <= h /\ Prefix[g] = q /\ Prefix[h] = p
      BY <2>2, <2>3, Ascending
    <3> HIDE DEF g, h
    <3>2. q <= p
      BY <3>1, HashAssumption
    <3> QED
      BY <1>1, <2>1, <3>2
  <2>4. f > i
    BY <1>1, <2>2, <2>3
  <2> QED
    BY <2>4 DEF f
<1> QED
  BY <1>2, <1>3

(* It brackets the lines of a hash. *)
After(f, p) == {q \in p + 1 .. PrefixCount - 1 : f[q] # NotSet}

UpTo(f, p, n) ==
  IF After(f, p) = {} THEN n + 1
  ELSE f[CHOOSE q \in After(f, p) : \A r \in After(f, p) : q <= r]

LEMMA TableBrackets ==
  ASSUME NEW lines, NEW d, Indexes(lines, d), NEW h \in Hashes,
         FirstLines(lines)[Prefix[h]] # NotSet
  PROVE  Bracket(lines, h, FirstLines(lines)[Prefix[h]],
                 UpTo(FirstLines(lines), Prefix[h], Len(lines)))
<1> DEFINE f == FirstLines(lines)
           p == Prefix[h]
           l == f[p]
           u == UpTo(f, p, Len(lines))
           H(i) == lines[i].hash
<1>1. p \in 0 .. PrefixCount - 1 /\ PrefixCount \in Nat /\ h \in Nat
  BY HashAssumption
<1>2. /\ Len(lines) \in Nat
      /\ \A i \in 1 .. Len(lines) : H(i) \in Hashes /\ H(i) \in Nat
      /\ \A i, j \in 1 .. Len(lines) : i <= j => H(i) <= H(j)
  BY Ascending
<1>3. \A g, k \in Hashes : g <= k => Prefix[g] <= Prefix[k]
  BY HashAssumption
<1>3a. \A g \in Hashes : g \in Nat /\ Prefix[g] \in Nat
  BY HashAssumption
<1>4. l \in 1 .. Len(lines) /\ Prefix[H(l)] = p
      /\ \A i \in 1 .. Len(lines) : Prefix[H(i)] = p => l <= i
  BY <1>1, FirstLineIs
<1>5. ASSUME NEW i \in 1 .. Len(lines), i < l PROVE lines[i].hash < h
  <2> HIDE DEF l
  <2>1. H(i) \in Hashes /\ H(l) \in Hashes /\ H(i) <= H(l)
    BY <1>2, <1>4, <1>5
  <2> DEFINE g == lines[i].hash
             k == lines[l].hash
  <2>2. g \in Hashes /\ k \in Hashes /\ g <= k /\ Prefix[k] = p /\ Prefix[g] # p
    BY <1>2, <1>4, <1>5, <2>1
  <2> HIDE DEF g, k, p
  <2>3. ~(h <= g)
    <3> SUFFICES ASSUME h <= g PROVE FALSE
      OBVIOUS
    <3>1. Prefix[h] <= Prefix[g] /\ Prefix[g] <= Prefix[k]
      BY <1>3, <2>2
    <3>2. Prefix[h] = p
      BY DEF p
    <3> QED
      BY <1>3a, <2>2, <3>1, <3>2
  <2>4. g < h
    BY <1>1, <1>3a, <2>2, <2>3
  <2> QED
    BY <2>4 DEF g
<1>6. CASE After(f, p) = {}
  <2>1. u = Len(lines) + 1
    BY <1>6 DEF UpTo
  <2> HIDE DEF u, l
  <2> QED
    BY <1>2, <1>4, <1>5, <2>1 DEF Bracket, u, l
<1>7. CASE After(f, p) # {}
  <2> DEFINE q == CHOOSE r \in After(f, p) : \A s \in After(f, p) : r <= s
  <2>1. q \in After(f, p)
    <3>1. After(f, p) \subseteq Nat
      BY <1>1 DEF After
    <3>2. \E r \in After(f, p) : \A s \in After(f, p) : r <= s
      <4> HIDE DEF p, f
      <4> QED
        BY <1>7, <3>1, LeastNat
    <3> HIDE DEF p, f
    <3> QED
      BY <3>2
  <2>2. u = f[q]
    BY <1>7 DEF UpTo
  <2> HIDE DEF q
  <2>3. q \in 0 .. PrefixCount - 1 /\ q > p /\ f[q] # NotSet
    BY <1>1, <2>1 DEF After
  <2>4. u \in 1 .. Len(lines) /\ Prefix[H(u)] = q
    BY <2>2, <2>3, FirstLineIs
  <2>5. ASSUME NEW i \in 1 .. Len(lines), i >= u PROVE lines[i].hash > h
    <3> DEFINE g == lines[i].hash
               k == lines[u].hash
    <3> HIDE DEF u
    <3>1. g \in Hashes /\ k \in Hashes /\ k <= g /\ Prefix[k] = q
      BY <1>2, <2>4, <2>5
    <3> HIDE DEF g, k
    <3>2. ~(g <= h)
      <4> SUFFICES ASSUME g <= h PROVE FALSE
        OBVIOUS
      <4>1. Prefix[k] <= Prefix[g] /\ Prefix[g] <= p
        BY <1>3, <3>1
      <4> QED
        BY <1>1, <1>3a, <2>3, <3>1, <4>1
    <3>3. g > h
      BY <1>1, <1>3a, <3>1, <3>2
    <3> QED
      BY <3>3 DEF g
  <2>6. l <= u
    <3>1. lines[u].hash > h
      BY <1>2, <2>4, <2>5
    <3>2. ASSUME u < l PROVE FALSE
      <4>1. lines[u].hash < h
        BY <1>5, <2>4, <3>2
      <4> DEFINE k == lines[u].hash
      <4>2. k \in Nat /\ k < h /\ k > h
        BY <1>2, <2>4, <3>1, <4>1
      <4> HIDE DEF k
      <4> QED
        BY <1>1, <4>2
    <3> HIDE DEF u, l
    <3> QED
      BY <1>2, <1>4, <2>4, <3>2
  <2> HIDE DEF u, l
  <2>7. l \in 1 .. Len(lines) + 1 /\ u \in l .. Len(lines) + 1
    BY <1>2, <1>4, <2>4, <2>6
  <2> QED
    BY <1>5, <2>5, <2>7 DEF Bracket, u, l
<1> QED
  BY <1>6, <1>7

-----------------------------------------------------------------------------
MdLines == idx["md5"].lines

(* While the last make_index has succeeded, the files on disk are of the   *)
(* database that is there, ...                                             *)
FilesFit ==
  made => /\ idx["md5"].kind = "index" /\ Indexes(MdLines, db)
          /\ idx2.kind = "table" => idx2.at = FirstLines(MdLines)

(* ... and so is what the handle has of them.                              *)
HandleFits ==
  made => /\ hash_type = "none" => ~hIdx /\ idx_offsets.kind = "none"
          /\ hash_type = "md5" /\ idx_offsets.kind = "table" =>
               idx_offsets.at = FirstLines(MdLines)
          /\ hash_type = "md5" /\ hIdx => idx_size = Len(MdLines)

(* Making an index: nobody looks anything up, and what has been sorted are *)
(* the lines of the database.                                              *)
MakerInv ==
  /\ making \in {"no", "sorting", "sorted"}
  /\ making # "no" => ~made /\ pc = Idle /\ hash_type \in Types
  /\ making = "sorted" /\ idx[hash_type].kind = "index" =>
       hash_type = "md5" /\ Indexes(MdLines, db)

TypesInv ==
  /\ db \in Databases
  /\ idx = [ty \in Types |-> idx[ty]]
  /\ hash_type \in Types \union {"none"}
  /\ call \in [Threads -> [type : Types, hash : Hashes \union {0}, quick : BOOLEAN,
                        all : BOOLEAN]]
  /\ pc = [t \in Threads |-> pc[t]] /\ ret = [t \in Threads |-> ret[t]]
  /\ low = [t \in Threads |-> low[t]] /\ up = [t \in Threads |-> up[t]]
  /\ at = [t \in Threads |-> at[t]]

Holding == {"opening", "search", "compare", "previous", "following"}
Searching == {"bounded", "search", "compare", "previous", "following"}

(* A thread searches for a hash of the handle's type, which never changes. *)
OwnType(t) ==
  /\ pc[t] # "idle" => call[t].hash \in Hashes
  /\ pc[t] \in Searching => call[t].type = hash_type

(* The handle is for MD5, or for whatever the first call will be. *)
ForMd5 == made /\ hash_type \in {"none", "md5"}

(* Where a thread is *)
Placed(t) ==
  /\ pc[t] # "refused"
  /\ pc[t] \in Holding => lock = t
  /\ hash_type = "none" => pc[t] \in {"idle", "open", "opening"}
  /\ pc[t] \in Searching \union {"bounds"} => hIdx

(* What it knows of the lines *)
Bounded(t) ==
  /\ pc[t] \in {"bounded", "search", "compare"} =>
       Bracket(MdLines, call[t].hash, low[t], up[t])
  /\ pc[t] = "compare" => idx_lbuf = at[t] /\ at[t] \in low[t] .. up[t] - 1
  /\ pc[t] \in {"previous", "following"} => HasLine(MdLines, call[t].hash)

ThreadOk(t) == OwnType(t) /\ (ForMd5 => Placed(t) /\ Bounded(t))

ThreadsInv == \A t \in Threads : ThreadOk(t)

LookupInv == TypesInv /\ FilesFit /\ HandleFits /\ MakerInv /\ ThreadsInv

(* What a step of a thread leaves to the others *)
Frame(u) ==
  /\ UNCHANGED <<db, idx, idx2, making, made>> /\ making = "no"
  /\ hash_type' = hash_type \/ (hash_type = "none" /\ hash_type' \in Types)
  /\ hIdx => hIdx'
  /\ idx_lbuf' = idx_lbuf \/ pc[u] \in Holding
  /\ lock' = lock \/ lock = NoThread \/ pc[u] \in Holding \union {"refused"}
  /\ \A t \in Threads \ {u} :
       /\ pc'[t] = pc[t] /\ call'[t] = call[t]
       /\ low'[t] = low[t] /\ up'[t] = up[t] /\ at'[t] = at[t]

LEMMA LookupInvInit == Init => LookupInv
<1> SUFFICES ASSUME Init PROVE LookupInv
  OBVIOUS
<1>0. db \in Databases /\ db \in Seq(Hashes \union {Junk})
  BY DatabaseAssumption DEF Init
<1>1. /\ pc = Idle /\ call = All(NoQuery) /\ ret = All(-1)
      /\ low = All(0) /\ up = All(0) /\ at = All(0)
      /\ hash_type = "none" /\ hIdx = FALSE /\ idx_offsets = NoTable /\ making = "no"
  BY DEF Init
<1>2. ThreadsInv
  BY <1>1 DEF ThreadsInv, ThreadOk, OwnType, Placed, Bounded, Searching, Holding, Idle, All
<1>3. call \in [Threads -> [type : Types, hash : Hashes \union {0}, quick : BOOLEAN,
                        all : BOOLEAN]]
  BY <1>1 DEF All, NoQuery, Types
<1>4. idx = [ty \in Types |-> idx[ty]]
  BY DEF Init, Types
<1>5. TypesInv
  BY <1>0, <1>1, <1>3, <1>4 DEF TypesInv, Idle, All
<1>6. FilesFit
  <2>1. CASE made = FALSE
    BY <2>1 DEF FilesFit
  <2>2. ASSUME NEW s \in IndexesOf(db), idx = [md5 |-> Index(s), sha1 |-> Missing],
               idx2 \in {NoTable, Table(FirstLines(s))}
        PROVE  FilesFit
    <3>1. MdLines = s /\ idx["md5"].kind = "index"
      BY <2>2 DEF MdLines, Index
    <3>2. Indexes(s, db)
      BY <1>0, SortedIsIndex
    <3>3. idx2.kind = "table" => idx2.at = FirstLines(s)
      BY <2>2 DEF NoTable, Table
    <3> QED
      BY <3>1, <3>2, <3>3 DEF FilesFit
  <2> QED
    BY <2>1, <2>2 DEF Init
<1>7. HandleFits /\ MakerInv
  BY <1>1 DEF HandleFits, MakerInv, NoTable
<1> QED
  BY <1>2, <1>5, <1>6, <1>7 DEF LookupInv

(* The others are where they were, and so is the line that was read. *)
LEMMA Others ==
  ASSUME LookupInv, NEW u \in Threads, Frame(u), NEW t \in Threads, t # u
  PROVE  ThreadOk(t)'
<1>1. /\ pc'[t] = pc[t] /\ call'[t] = call[t]
      /\ low'[t] = low[t] /\ up'[t] = up[t] /\ at'[t] = at[t]
      /\ idx' = idx /\ made' = made
  BY DEF Frame
<1>2. OwnType(t) /\ call[t].type \in Types
  BY DEF LookupInv, ThreadsInv, ThreadOk, TypesInv
<1>3. OwnType(t)'
  BY <1>1, <1>2 DEF OwnType, Frame, Types
<1>4. ASSUME ForMd5' PROVE Placed(t)' /\ Bounded(t)'
  <2>1. ForMd5
    BY <1>4 DEF ForMd5, Frame
  <2>2. Placed(t) /\ Bounded(t) /\ Placed(u)
    BY <2>1 DEF LookupInv, ThreadsInv, ThreadOk
  <2>3. ASSUME pc[t] \in Holding PROVE lock' = lock /\ idx_lbuf' = idx_lbuf
    <3>1. lock = t /\ lock # NoThread
      BY <2>2, <2>3, ThreadsAssumption DEF Placed
    <3>2. ~(pc[u] \in Holding \union {"refused"})
      BY <2>2, <3>1 DEF Placed
    <3> QED
      BY <3>1, <3>2 DEF Frame
  <2>4. Placed(t)'
    <3>1. pc'[t] \in Holding => lock' = t
      BY <1>1, <2>2, <2>3 DEF Placed
    <3>2. hash_type' = "none" => hash_type = "none"
      BY DEF Frame, Types
    <3>3. hIdx => hIdx'
      BY DEF Frame
    <3> QED
      BY <1>1, <2>2, <3>1, <3>2, <3>3 DEF Placed
  <2>5. Bounded(t)'
    BY <1>1, <2>2, <2>3 DEF Bounded, MdLines, Holding
  <2> QED
    BY <2>4, <2>5
<1> QED
  BY <1>3, <1>4 DEF ThreadOk

(* So it is the step of the thread itself that matters. *)
LEMMA StepKeeps ==
  ASSUME LookupInv, NEW u \in Threads, Frame(u), TypesInv', HandleFits', ThreadOk(u)'
  PROVE  LookupInv'
<1>1. ThreadsInv'
  BY Others DEF ThreadsInv
<1>2. FilesFit'
  BY DEF LookupInv, FilesFit, Frame, MdLines
<1>3. MakerInv'
  BY DEF MakerInv, Frame
<1> QED
  BY <1>1, <1>2, <1>3 DEF LookupInv

(* The facts about a thread that is not idle *)
LEMMA Here ==
  ASSUME LookupInv, NEW t \in Threads
  PROVE  /\ pc[t] # "idle" => making = "no" /\ call[t].hash \in Hashes
         /\ call[t].type \in Types /\ call[t].hash \in Hashes \union {0}
         /\ OwnType(t)
         /\ ForMd5 => /\ Placed(t) /\ Bounded(t)
                      /\ idx["md5"].kind = "index" /\ Indexes(MdLines, db)
  BY DEF LookupInv, TypesInv, FilesFit, MakerInv, ThreadsInv, ThreadOk, OwnType, ForMd5, Idle, All

(* A thread that moves nothing but itself, and takes the lock or lets it go *)
Going(u, l) ==
  /\ pc[u] # "idle"
  /\ pc' = [pc EXCEPT ![u] = l]
  /\ UNCHANGED <<disk, hash_type, hIdx, idx_size, idx_offsets, call, maker>>
  /\ low' = [t \in Threads |-> low'[t]] /\ up' = [t \in Threads |-> up'[t]]
  /\ at' = [t \in Threads |-> at'[t]] /\ ret' = [t \in Threads |-> ret'[t]]
  /\ \A t \in Threads \ {u} : low'[t] = low[t] /\ up'[t] = up[t] /\ at'[t] = at[t]
  /\ idx_lbuf' = idx_lbuf \/ pc[u] \in Holding
  /\ lock' = lock \/ lock = NoThread \/ pc[u] \in Holding \union {"refused"}

LEMMA GoingKeeps ==
  ASSUME LookupInv, NEW u \in Threads, NEW l, Going(u, l)
  PROVE  Frame(u) /\ TypesInv' /\ HandleFits' /\ pc'[u] = l
<1>1. making = "no"
  BY Here DEF Going
<1>2. TypesInv
  BY DEF LookupInv
<1>3. pc'[u] = l /\ pc' = [t \in Threads |-> pc'[t]]
      /\ \A t \in Threads \ {u} : pc'[t] = pc[t]
  BY <1>2 DEF Going, TypesInv
<1>4. TypesInv'
  BY <1>2, <1>3 DEF TypesInv, Going, disk
<1>5. HandleFits'
  BY DEF LookupInv, HandleFits, Going, disk, maker, MdLines
<1>6. Frame(u)
  BY <1>1, <1>3 DEF Frame, Going, disk, maker
<1> QED
  BY <1>3, <1>4, <1>5, <1>6

(* Those that do not come to search or stop to, *)
LEMMA GoingOut ==
  ASSUME LookupInv, NEW u \in Threads, Going(u, "idle")
  PROVE  LookupInv'
<1>1. Frame(u) /\ TypesInv' /\ HandleFits' /\ pc'[u] = "idle"
  BY GoingKeeps
<1>2. ThreadOk(u)'
  BY <1>1 DEF ThreadOk, OwnType, Placed, Bounded, Holding, Searching
<1> QED
  BY <1>1, <1>2, StepKeeps

LEMMA Unmoved ==
  ASSUME LookupInv
  PROVE  /\ low = [t \in Threads |-> low[t]] /\ up = [t \in Threads |-> up[t]]
         /\ at = [t \in Threads |-> at[t]] /\ ret = [t \in Threads |-> ret[t]]
  BY DEF LookupInv, TypesInv

(* the ways out of a lookup *)
LEMMA LeavesKeeps ==
  ASSUME LookupInv, NEW u \in Threads,
         \/ OpenRefused(u) \/ OtherType(u) \/ NoSuchPrefix(u) \/ NotThere(u)
         \/ PastEndOfFile(u) \/ FoundQuick(u) \/ ShowFails(u) \/ LastFollowing(u)
  PROVE  LookupInv'
<1> USE DEF Going, Return, Goto, Release, disk, handle, maker, Holding
<1>1. CASE OpenRefused(u)
  BY <1>1, Unmoved, GoingOut DEF OpenRefused
<1>2. CASE OtherType(u)
  BY <1>2, Unmoved, GoingOut DEF OtherType
<1>3. CASE NoSuchPrefix(u)
  BY <1>3, Unmoved, GoingOut DEF NoSuchPrefix
<1>4. CASE NotThere(u)
  BY <1>4, Unmoved, GoingOut DEF NotThere
<1>5. CASE PastEndOfFile(u)
  BY <1>5, Unmoved, GoingOut DEF PastEndOfFile
<1>6. CASE FoundQuick(u)
  BY <1>6, Unmoved, GoingOut DEF FoundQuick
<1>7. CASE ShowFails(u)
  BY <1>7, Unmoved, GoingOut DEF ShowFails, Reading
<1>8. CASE LastFollowing(u)
  BY <1>8, Unmoved, GoingOut DEF LastFollowing
<1> QED
  BY <1>1, <1>2, <1>3, <1>4, <1>5, <1>6, <1>7, <1>8

(* The start of a lookup *)
LEMMA LookupKeeps ==
  ASSUME LookupInv, NEW u \in Threads, Lookup(u)
  PROVE  LookupInv'
<1>1. PICK q \in Queries : call' = [call EXCEPT ![u] = q]
  BY DEF Lookup
<1>2. q \in [type : Types, hash : Hashes, quick : BOOLEAN, all : BOOLEAN]
  BY QueryAssumption DEF Types
<1>3. /\ pc' = [pc EXCEPT ![u] = "open"]
      /\ low' = [low EXCEPT ![u] = 0] /\ up' = [up EXCEPT ![u] = 0]
      /\ at' = [at EXCEPT ![u] = 0] /\ ret' = [ret EXCEPT ![u] = -1]
      /\ UNCHANGED <<db, idx, idx2, hash_type, hIdx, idx_size, idx_lbuf, idx_offsets, lock,
                     making, made>>
      /\ making = "no"
  BY DEF Lookup, Goto, disk, handle, maker
<1>4. TypesInv
  BY DEF LookupInv
<1>5. TypesInv'
  <2>1. call' \in [Threads -> [type : Types, hash : Hashes \union {0}, quick : BOOLEAN,
                        all : BOOLEAN]]
    BY <1>1, <1>2, <1>4 DEF TypesInv
  <2> QED
    BY <1>3, <1>4, <2>1 DEF TypesInv
<1>6. Frame(u)
  BY <1>1, <1>3, <1>4 DEF Frame, TypesInv
<1>7. HandleFits'
  BY <1>3 DEF LookupInv, HandleFits, MdLines
<1>8. pc'[u] = "open" /\ call'[u] \in [type : Types, hash : Hashes, quick : BOOLEAN, all : BOOLEAN]
  BY <1>1, <1>2, <1>3, <1>4 DEF TypesInv
<1>9. ThreadOk(u)'
  BY <1>8 DEF ThreadOk, OwnType, Placed, Bounded, Holding, Searching
<1> QED
  BY <1>5, <1>6, <1>7, <1>9, StepKeeps

-----------------------------------------------------------------------------
(* Opening the index *)
LEMMA OpenKeeps ==
  ASSUME LookupInv, NEW u \in Threads,
         OpenLock(u) \/ AlreadyOpen(u) \/ OpenMissing(u) \/ OpenBad(u) \/ OpenIndex(u)
  PROVE  LookupInv'
<1>0. TypesInv /\ HandleFits /\ FilesFit
  BY DEF LookupInv
<1>1. CASE OpenLock(u)
  <2>1. Going(u, "opening")
    BY <1>1, Unmoved DEF OpenLock, Going, Goto, Acquire, disk, handle, maker
  <2>2. Frame(u) /\ TypesInv' /\ HandleFits' /\ pc'[u] = "opening" /\ lock' = u
    BY <1>1, <2>1, GoingKeeps DEF OpenLock, Acquire
  <2>3. call' = call
    BY <1>1 DEF OpenLock
  <2>4. ThreadOk(u)'
    BY <1>1, <2>2, <2>3, Here DEF ThreadOk, OwnType, Placed, Bounded, Holding, Searching, OpenLock
  <2> QED
    BY <2>2, <2>4, StepKeeps
<1>2. CASE AlreadyOpen(u)
  <2>1. Going(u, "bounds")
    BY <1>2, Unmoved DEF AlreadyOpen, Going, Goto, Release, disk, handle, maker, Holding
  <2>2. Frame(u) /\ TypesInv' /\ HandleFits' /\ pc'[u] = "bounds"
    BY <2>1, GoingKeeps
  <2>3. UNCHANGED <<call, hash_type, hIdx>> /\ hIdx /\ made' = made /\ pc[u] = "opening"
    BY <1>2 DEF AlreadyOpen, handle, maker
  <2>4. made => hash_type # "none"
    BY <1>0, <2>3 DEF HandleFits
  <2>5. ThreadOk(u)'
    BY <2>2, <2>3, <2>4, Here
    DEF ThreadOk, OwnType, Placed, Bounded, Holding, Searching, ForMd5
  <2> QED
    BY <2>2, <2>5, StepKeeps
<1>3. call[u].type \in Types /\ TypeAfter(u) \in Types
      /\ (hash_type # "none" => TypeAfter(u) = hash_type)
  BY <1>0, Here DEF TypeAfter, TypesInv
<1>4. ASSUME OpenMissing(u) \/ OpenBad(u) PROVE LookupInv'
  <2>1. /\ pc[u] = "opening" /\ ~hIdx /\ hash_type' = TypeAfter(u)
        /\ idx[TypeAfter(u)].kind # "index"
        /\ pc' = [pc EXCEPT ![u] = "refused"] /\ lock' = NoThread
        /\ UNCHANGED <<db, idx, idx2, idx_lbuf, idx_offsets, call, low, up, at, ret, making, made>>
    BY <1>4 DEF OpenMissing, OpenBad, Goto, Release, disk, maker
  <2>2. made => TypeAfter(u) = "sha1"
    BY <1>0, <1>3, <2>1 DEF FilesFit, Types
  <2>3. TypesInv'
    BY <1>0, <1>3, <2>1 DEF TypesInv
  <2>4. HandleFits'
    BY <2>1, <2>2 DEF HandleFits
  <2>5. making = "no"
    BY <2>1, Here
  <2>6. Frame(u)
    BY <1>0, <1>3, <2>1, <2>5 DEF Frame, TypesInv, Holding
  <2>7. pc'[u] = "refused" /\ ~ForMd5'
    BY <1>0, <2>1, <2>2 DEF TypesInv, ForMd5
  <2>8. ThreadOk(u)'
    BY <2>1, <2>7, Here DEF ThreadOk, OwnType, Searching
  <2> QED
    BY <2>3, <2>4, <2>6, <2>8, StepKeeps
<1>5. CASE OpenIndex(u)
  <2>1. /\ pc[u] = "opening" /\ ~hIdx /\ hash_type' = TypeAfter(u)
        /\ hIdx' = TRUE /\ idx_size' = Len(idx[TypeAfter(u)].lines)
        /\ lock' = NoThread
        /\ UNCHANGED <<db, idx, idx2, call, low, up, at, making, made>>
    BY <1>5 DEF OpenIndex, OpenFile, Release, disk, maker
  <2>2. \/ /\ pc' = [pc EXCEPT ![u] = "bounds"] /\ ret' = ret
           /\ idx_offsets' = IF idx2 = NoTable THEN idx_offsets ELSE idx2
        \/ /\ pc' = [pc EXCEPT ![u] = "idle"] /\ ret' = [ret EXCEPT ![u] = -1]
           /\ idx_offsets' = idx_offsets
    BY <1>5 DEF OpenIndex, Goto, Return
  <2>3. TypesInv'
    BY <1>0, <1>3, <2>1, <2>2 DEF TypesInv
  <2>4. HandleFits'
    <3> SUFFICES ASSUME made, hash_type' = "md5"
                 PROVE  /\ idx_offsets'.kind = "table" => idx_offsets'.at = FirstLines(MdLines)
                        /\ idx_size' = Len(MdLines)
      BY <1>3, <2>1 DEF HandleFits, MdLines, Types
    <3>1. idx_size' = Len(MdLines)
      BY <2>1 DEF MdLines
    <3>2. hash_type \in {"none", "md5"}
      BY <1>0, <1>3, <2>1 DEF TypesInv, Types
    <3>3. idx_offsets.kind = "table" => idx_offsets.at = FirstLines(MdLines)
      BY <1>0, <3>2 DEF HandleFits
    <3>4. idx2.kind = "table" => idx2.at = FirstLines(MdLines)
      BY <1>0 DEF FilesFit
    <3> QED
      BY <2>2, <3>1, <3>3, <3>4
  <2>5. making = "no"
    BY <2>1, Here
  <2>6. Frame(u)
    <3>1. \A t \in Threads \ {u} : pc'[t] = pc[t]
      BY <1>0, <2>2 DEF TypesInv
    <3> QED
      BY <1>0, <1>3, <2>1, <2>5, <3>1 DEF Frame, TypesInv, Holding
  <2>7. pc'[u] \in {"bounds", "idle"} /\ hash_type' # "none"
    BY <1>0, <1>3, <2>1, <2>2 DEF TypesInv, Types
  <2>8. ThreadOk(u)'
    BY <2>1, <2>7, Here DEF ThreadOk, OwnType, Placed, Bounded, Holding, Searching
  <2> QED
    BY <2>3, <2>4, <2>6, <2>8, StepKeeps
<1> QED
  BY <1>1, <1>2, <1>4, <1>5

-----------------------------------------------------------------------------
(* The bounds of the search *)
LEMMA BoundsKeeps ==
  ASSUME LookupInv, NEW u \in Threads, WholeFile(u) \/ OwnPrefix(u)
  PROVE  LookupInv'
<1>1. /\ pc[u] = "bounds" /\ hash_type = call[u].type
      /\ UNCHANGED <<idx, hash_type, hIdx, call, made>>
  BY DEF WholeFile, OwnPrefix, disk, handle, maker
<1>2. Going(u, "bounded")
  BY Unmoved DEF WholeFile, OwnPrefix, LookupInv, TypesInv, Going, Goto, disk, handle, maker
<1>3. Frame(u) /\ TypesInv' /\ HandleFits' /\ pc'[u] = "bounded"
  BY <1>2, GoingKeeps
<1>4. OwnType(u)'
  BY <1>1, <1>3, Here DEF OwnType
<1>5. ASSUME ForMd5' PROVE Placed(u)' /\ Bounded(u)'
  <2>1. ForMd5 /\ hash_type = "md5" /\ call[u].hash \in Hashes
    BY <1>1, <1>5, Here DEF ForMd5, Types
  <2>2. Placed(u) /\ Indexes(MdLines, db) /\ hIdx
    BY <1>1, <2>1, Here DEF Placed
  <2>3. Placed(u)'
    BY <1>1, <1>3, <2>1, <2>2 DEF Placed, Holding
  <2>4. /\ idx_size = Len(MdLines) /\ Len(MdLines) \in Nat
        /\ idx_offsets.kind = "table" => idx_offsets.at = FirstLines(MdLines)
    BY <2>1, <2>2, Ascending DEF LookupInv, HandleFits, ForMd5
  <2>5. Bracket(MdLines, call[u].hash, low'[u], up'[u])
    <3>1. CASE WholeFile(u)
      <4>1. low'[u] = 1 /\ up'[u] = Len(MdLines) + 1
        BY <2>4, <3>1 DEF WholeFile, LookupInv, TypesInv
      <4> QED
        BY <2>4, <4>1 DEF Bracket
    <3>2. CASE OwnPrefix(u)
      <4> DEFINE p == Prefix[call[u].hash]
      <4>1. /\ idx_offsets.at = FirstLines(MdLines) /\ idx_offsets.at[p] # NotSet
            /\ low'[u] = idx_offsets.at[p] /\ up'[u] = UpperBound(p)
        BY <2>4, <3>2 DEF OwnPrefix, LookupInv, TypesInv
      <4>2. UpperBound(p) = UpTo(FirstLines(MdLines), p, Len(MdLines))
        BY <2>4, <4>1 DEF UpperBound, SetAfter, UpTo, After
      <4> QED
        BY <2>1, <2>2, <4>1, <4>2, TableBrackets
    <3> QED
      BY <3>1, <3>2
  <2>6. Bounded(u)'
    BY <1>1, <1>3, <2>5 DEF Bounded, MdLines
  <2> QED
    BY <2>3, <2>6
<1> QED
  BY <1>3, <1>4, <1>5, StepKeeps DEF ThreadOk

-----------------------------------------------------------------------------
(* The search.  The lines that are read are those of the MD5 index. *)
LEMMA HereInSearch ==
  ASSUME LookupInv, NEW u \in Threads, ForMd5, pc[u] \in Searching
  PROVE  /\ hash_type = "md5" /\ Lines1 = MdLines /\ Indexes(MdLines, db) /\ hIdx
         /\ Len(MdLines) \in Nat /\ call[u].hash \in Hashes /\ call[u].hash \in Nat
         /\ pc[u] \in Holding => lock = u
<1>1. OwnType(u) /\ Placed(u) /\ Indexes(MdLines, db)
  BY Here
<1>2. hash_type = "md5"
  BY <1>1 DEF Placed, ForMd5, Searching
<1>3. Lines1 = MdLines
  BY <1>2 DEF Lines1, MdLines
<1>4. call[u].hash \in Hashes
  BY <1>1 DEF OwnType, Searching
<1>5. call[u].hash \in Nat
  BY <1>4, HashAssumption
<1>6. Len(MdLines) \in Nat
  BY <1>1, Ascending
<1> QED
  BY <1>1, <1>2, <1>3, <1>4, <1>5, <1>6 DEF Placed, Searching

LEMMA HalfIsLess == \A n \in Nat \ {0} : Half(n) \in 0 .. n - 1
  BY DEF Half

LEMMA MiddleIsInside ==
  ASSUME NEW u \in Threads, NEW lines, Len(lines) \in Nat, NEW h,
         Bracket(lines, h, low[u], up[u]), up[u] # low[u]
  PROVE  Middle(u) \in low[u] .. up[u] - 1 /\ Middle(u) \in 1 .. Len(lines)
<1> DEFINE l == low[u]
           n == up[u] - low[u]
<1>1. l \in Nat /\ l >= 1 /\ n \in Nat \ {0} /\ up[u] = l + n /\ l + n <= Len(lines) + 1
  BY DEF Bracket
<1>2. Middle(u) = l + Half(n)
  BY DEF Middle
<1> HIDE DEF l, n
<1>3. Half(n) \in 0 .. n - 1
  BY <1>1, HalfIsLess
<1>4. l + Half(n) \in l .. l + n - 1 /\ l + Half(n) \in 1 .. Len(lines)
  BY <1>1, <1>3
<1>5. low[u] = l
  BY DEF l
<1> QED
  BY <1>1, <1>2, <1>4, <1>5

LEMMA SearchKeeps ==
  ASSUME LookupInv, NEW u \in Threads, SearchLock(u) \/ Probe(u) \/ Narrow(u)
  PROVE  LookupInv'
<1>0. UNCHANGED <<db, idx, hash_type, hIdx, call, made>> /\ pc[u] \in Searching
  BY DEF SearchLock, Probe, Narrow, disk, handle, maker, Searching
<1>1. \A l : Frame(u) /\ TypesInv' /\ HandleFits' /\ pc'[u] = l /\ l \in Searching
              /\ (ForMd5 => Placed(u)' /\ Bounded(u)') => LookupInv'
  <2> SUFFICES ASSUME NEW l, Frame(u), TypesInv', HandleFits', pc'[u] = l, l \in Searching,
                      ForMd5 => Placed(u)' /\ Bounded(u)'
               PROVE  LookupInv'
    OBVIOUS
  <2>1. OwnType(u)'
    BY <1>0, Here DEF OwnType, Searching
  <2>2. ForMd5' => ForMd5
    BY <1>0 DEF ForMd5
  <2> QED
    BY <2>1, <2>2, StepKeeps DEF ThreadOk
<1>2. CASE SearchLock(u)
  <2>1. Going(u, "search")
    BY <1>2, Unmoved DEF SearchLock, Going, Goto, Acquire, disk, handle, maker
  <2>2. Frame(u) /\ TypesInv' /\ HandleFits' /\ pc'[u] = "search" /\ lock' = u
    BY <1>2, <2>1, GoingKeeps DEF SearchLock, Acquire
  <2>3. UNCHANGED <<low, up>> /\ pc[u] = "bounded"
    BY <1>2 DEF SearchLock
  <2>4. ASSUME ForMd5 PROVE Placed(u)' /\ Bounded(u)'
    <3>1. hash_type = "md5" /\ hIdx /\ Bounded(u)
      BY <1>0, <2>4, Here, HereInSearch
    <3> QED
      BY <1>0, <2>2, <2>3, <3>1 DEF Placed, Bounded, MdLines
  <2> QED
    BY <1>1, <2>2, <2>4 DEF Searching
<1>3. CASE Probe(u)
  <2>1. Going(u, "compare")
    BY <1>3, Unmoved DEF Probe, Going, Goto, LookupInv, TypesInv, ReadLine, disk, maker, Holding
  <2>2. Frame(u) /\ TypesInv' /\ HandleFits' /\ pc'[u] = "compare"
    BY <2>1, GoingKeeps
  <2>3. UNCHANGED <<low, up, lock>> /\ pc[u] = "search" /\ up[u] # low[u]
        /\ idx_lbuf' = Middle(u) /\ at'[u] = Middle(u)
    BY <1>3 DEF Probe, ReadLine, LookupInv, TypesInv
  <2>4. ASSUME ForMd5 PROVE Placed(u)' /\ Bounded(u)'
    <3>1. hash_type = "md5" /\ hIdx /\ Bounded(u) /\ Len(MdLines) \in Nat /\ lock = u
      BY <1>0, <2>3, <2>4, Here, HereInSearch DEF Holding
    <3>2. Bracket(MdLines, call[u].hash, low[u], up[u])
      BY <2>3, <3>1 DEF Bounded
    <3>3. Middle(u) \in low[u] .. up[u] - 1
      BY <2>3, <3>1, <3>2, MiddleIsInside
    <3>4. Placed(u)'
      BY <1>0, <2>2, <2>3, <3>1 DEF Placed
    <3>5. Bounded(u)'
      BY <1>0, <2>2, <2>3, <3>2, <3>3 DEF Bounded, MdLines
    <3> QED
      BY <3>4, <3>5
  <2> QED
    BY <1>1, <2>2, <2>4 DEF Searching
<1>4. CASE Narrow(u)
  <2>1. Going(u, "search")
    BY <1>4, Unmoved DEF Narrow, Going, Goto, LookupInv, TypesInv, disk, handle, maker
  <2>2. Frame(u) /\ TypesInv' /\ HandleFits' /\ pc'[u] = "search"
    BY <2>1, GoingKeeps
  <2>3. lock' = lock /\ pc[u] = "compare" /\ LineRead.hash # call[u].hash
        /\ \/ LineRead.hash < call[u].hash /\ low'[u] = at[u] + 1 /\ up' = up
           \/ ~(LineRead.hash < call[u].hash) /\ up'[u] = at[u] /\ low' = low
    BY <1>4 DEF Narrow, LookupInv, TypesInv
  <2>4. ASSUME ForMd5 PROVE Placed(u)' /\ Bounded(u)'
    <3>1. /\ hash_type = "md5" /\ hIdx /\ Bounded(u) /\ Len(MdLines) \in Nat /\ lock = u
          /\ Lines1 = MdLines /\ call[u].hash \in Nat /\ Indexes(MdLines, db)
      BY <1>0, <2>3, <2>4, Here, HereInSearch DEF Holding
    <3> DEFINE h == call[u].hash
               a == at[u]
               l == low[u]
               n == up[u]
    <3>2. Bracket(MdLines, h, l, n) /\ LineRead = MdLines[a] /\ a \in l .. n - 1
      BY <2>3, <3>1 DEF Bounded, LineRead
    <3>3. Bracket(MdLines, h, low'[u], up'[u])
      <4>0. \/ MdLines[a].hash < h /\ low'[u] = a + 1 /\ up'[u] = n
            \/ MdLines[a].hash # h /\ ~(MdLines[a].hash < h) /\ up'[u] = a /\ low'[u] = l
        BY <2>3, <3>2
      <4> DEFINE H(i) == MdLines[i].hash
      <4> HIDE DEF h, a, l, n
      <4>1. /\ l \in 1 .. Len(MdLines) + 1 /\ n \in l .. Len(MdLines) + 1
            /\ \A i \in 1 .. Len(MdLines) : (i < l => H(i) < h) /\ (i >= n => H(i) > h)
        BY <3>2 DEF Bracket
      <4>2. /\ \A i \in 1 .. Len(MdLines) : H(i) \in Nat
            /\ \A i, j \in 1 .. Len(MdLines) : i <= j => H(i) <= H(j)
        BY <3>1, Ascending
      <4>3. h \in Nat /\ a \in 1 .. Len(MdLines)
        BY <3>1, <3>2, <4>1 DEF h
      <4> HIDE DEF H
      <4>4. CASE H(a) < h
        <5>1. low'[u] = a + 1 /\ up'[u] = n
          BY <4>0, <4>4 DEF H
        <5>2. a + 1 \in 1 .. Len(MdLines) + 1 /\ n \in a + 1 .. Len(MdLines) + 1
          BY <3>1, <3>2, <4>1
        <5>3. \A i \in 1 .. Len(MdLines) : i < a + 1 => H(i) < h
          <6> TAKE i \in 1 .. Len(MdLines)
          <6> HAVE i < a + 1
          <6>1. i <= a
            BY <4>3
          <6>2. H(i) <= H(a) /\ H(i) \in Nat /\ H(a) \in Nat
            BY <4>2, <4>3, <6>1
          <6> QED
            BY <4>3, <4>4, <6>2
        <5> QED
          BY <4>1, <5>1, <5>2, <5>3 DEF Bracket, H
      <4>5. CASE ~(H(a) < h) /\ H(a) # h
        <5>1. low'[u] = l /\ up'[u] = a
          BY <4>0, <4>5 DEF H
        <5>2. l \in 1 .. Len(MdLines) + 1 /\ a \in l .. Len(MdLines) + 1
          BY <3>1, <3>2, <4>1
        <5>3. \A i \in 1 .. Len(MdLines) : i >= a => H(i) > h
          <6> TAKE i \in 1 .. Len(MdLines)
          <6> HAVE i >= a
          <6>1. H(a) <= H(i) /\ H(i) \in Nat /\ H(a) \in Nat
            BY <4>2, <4>3
          <6> QED
            BY <4>3, <4>5, <6>1
        <5> QED
          BY <4>1, <5>1, <5>2, <5>3 DEF Bracket, H
      <4> QED
        BY <4>0, <4>4, <4>5 DEF H
    <3>4. Placed(u)'
      BY <1>0, <2>2, <2>3, <3>1 DEF Placed
    <3>5. Bounded(u)'
      BY <1>0, <2>2, <3>3 DEF Bounded, MdLines
    <3> QED
      BY <3>4, <3>5
  <2> QED
    BY <1>1, <2>2, <2>4 DEF Searching
<1> QED
  BY <1>2, <1>3, <1>4

(* From a line that has the hash to those around it *)
LEMMA ShowKeeps ==
  ASSUME LookupInv, NEW u \in Threads,
         ShowFound(u) \/ ShowPrevious(u) \/ LastPrevious(u) \/ ShowFollowing(u)
  PROVE  LookupInv'
<1>1. /\ pc[u] \in {"compare", "previous", "following"}
      /\ pc[u] = "compare" => LineRead.hash = call[u].hash
      /\ UNCHANGED <<disk, hash_type, hIdx, idx_size, idx_offsets, call, low, up, at, maker>>
  BY DEF ShowFound, ShowPrevious, LastPrevious, ShowFollowing, Shows, Matches, otherThanShown
<1>2. \/ pc' = [pc EXCEPT ![u] = "idle"] /\ ret' = [ret EXCEPT ![u] = 1]
      \/ \E l \in {"previous", "following"} :
           pc' = [pc EXCEPT ![u] = l] /\ ret' = ret /\ lock' = lock
  BY DEF ShowFound, ShowPrevious, LastPrevious, ShowFollowing, Downwards, Upwards, Goto, Return
<1>3. ASSUME NEW l, pc' = [pc EXCEPT ![u] = l], ret' = [t \in Threads |-> ret'[t]]
      PROVE  Going(u, l)
  BY <1>1, <1>3, Unmoved DEF Going, Holding
<1>4. CASE pc' = [pc EXCEPT ![u] = "idle"] /\ ret' = [ret EXCEPT ![u] = 1]
  BY <1>3, <1>4, Unmoved, GoingOut
<1>5. ASSUME NEW l \in {"previous", "following"}, pc' = [pc EXCEPT ![u] = l],
             ret' = ret, lock' = lock
      PROVE  LookupInv'
  <2>1. Frame(u) /\ TypesInv' /\ HandleFits' /\ pc'[u] = l
    BY <1>3, <1>5, Unmoved, GoingKeeps
  <2>2. UNCHANGED <<idx, hash_type, hIdx, call, made>> /\ pc[u] \in Searching
    BY <1>1 DEF disk, maker, Searching
  <2>3. OwnType(u)'
    BY <2>1, <2>2, Here DEF OwnType, Searching
  <2>4. ASSUME ForMd5 PROVE Placed(u)' /\ Bounded(u)'
    <3>1. /\ hash_type = "md5" /\ hIdx /\ Bounded(u) /\ Len(MdLines) \in Nat /\ lock = u
          /\ Lines1 = MdLines
      BY <1>1, <2>2, <2>4, Here, HereInSearch DEF Holding
    <3>2. HasLine(MdLines, call[u].hash)
      <4>1. CASE pc[u] = "compare"
        <5>1. LineRead = MdLines[at[u]] /\ at[u] \in low[u] .. up[u] - 1
          BY <3>1, <4>1 DEF Bounded, LineRead
        <5>2. Bracket(MdLines, call[u].hash, low[u], up[u])
          BY <3>1, <4>1 DEF Bounded
        <5>3. at[u] \in 1 .. Len(MdLines)
          BY <3>1, <5>1, <5>2 DEF Bracket
        <5> QED
          BY <1>1, <4>1, <5>1, <5>3 DEF HasLine
      <4>2. CASE pc[u] # "compare"
        BY <1>1, <3>1, <4>2 DEF Bounded
      <4> QED
        BY <4>1, <4>2
    <3>3. Placed(u)'
      BY <1>5, <2>1, <2>2, <3>1 DEF Placed
    <3>4. Bounded(u)'
      BY <2>1, <2>2, <3>2 DEF Bounded, MdLines
    <3> QED
      BY <3>3, <3>4
  <2>5. ForMd5' => ForMd5
    BY <2>2 DEF ForMd5
  <2> QED
    BY <2>1, <2>3, <2>4, <2>5, StepKeeps DEF ThreadOk
<1> QED
  BY <1>2, <1>4, <1>5

-----------------------------------------------------------------------------
(* While nobody looks anything up *)
LEMMA RestartKeeps == LookupInv /\ Restart => LookupInv'
<1> SUFFICES ASSUME LookupInv, Restart PROVE LookupInv'
  OBVIOUS
<1>1. /\ UNCHANGED <<db, idx, idx2, made>> /\ making' = "no" /\ pc' = Idle'
      /\ hash_type' = "none" /\ ~hIdx' /\ idx_offsets' = NoTable
  BY DEF Restart, FreshHandle, disk, Idle, All
<1>2. TypesInv'
  <2>1. call' \in [Threads -> [type : Types, hash : Hashes \union {0}, quick : BOOLEAN,
                        all : BOOLEAN]]
    BY DEF Restart, All, NoQuery, Types
  <2> QED
    BY <1>1, <2>1 DEF LookupInv, TypesInv, Restart, Idle, All
<1>3. ThreadsInv'
  BY <1>1 DEF ThreadsInv, ThreadOk, OwnType, Placed, Bounded, Holding, Searching, Idle, All
<1>4. FilesFit'
  BY <1>1 DEF LookupInv, FilesFit, MdLines
<1>5. HandleFits' /\ MakerInv'
  BY <1>1 DEF HandleFits, MakerInv, NoTable
<1> QED
  BY <1>2, <1>3, <1>4, <1>5 DEF LookupInv

LEMMA MakingKeeps ==
  LookupInv /\ (NothingToIndex \/ MakeIndex \/ Making) => LookupInv'
<1> SUFFICES ASSUME LookupInv, NothingToIndex \/ MakeIndex \/ Making PROVE LookupInv'
  OBVIOUS
<1>1. pc = Idle /\ UNCHANGED <<lock, pc, call, low, up, at, ret>>
  BY DEF NothingToIndex, MakeIndex, Making, SortFails, Sort, MakeBadIndex, TableNotCreated,
         TableNotWritten, MakeTable, NobodyLooksUp, KeepLocals, locals, LookupInv, MakerInv
<1>2. pc' = Idle' /\ ThreadsInv'
  BY <1>1 DEF ThreadsInv, ThreadOk, OwnType, Placed, Bounded, Holding, Searching, Idle, All
<1>3. ASSUME db' \in Databases, idx' = [ty \in Types |-> idx'[ty]],
             hash_type' \in Types \union {"none"}
      PROVE  TypesInv'
  BY <1>1, <1>3 DEF LookupInv, TypesInv
<1>4. ASSUME ~made' PROVE FilesFit' /\ HandleFits'
  BY <1>4 DEF FilesFit, HandleFits
<1>5. TypesInv /\ MakerInv
  BY DEF LookupInv
<1>6. CASE NothingToIndex
  <2>1. ~made' /\ db' \in Databases /\ hash_type' = TypeMade /\ making' = "no" /\ idx' = idx
    BY <1>6 DEF NothingToIndex, NobodyLooksUp
  <2>2. TypesInv' /\ MakerInv'
    BY <1>3, <1>5, <2>1 DEF TypesInv, MakerInv, TypeMade, Types
  <2> QED
    BY <1>2, <1>4, <2>1, <2>2 DEF LookupInv
<1>7. CASE MakeIndex
  <2>1. ~made' /\ db' \in Databases /\ hash_type' = TypeMade /\ making' = "sorting" /\ idx' = idx
    BY <1>7 DEF MakeIndex
  <2>2. TypesInv' /\ MakerInv'
    BY <1>2, <1>3, <1>5, <2>1 DEF TypesInv, MakerInv, TypeMade, Types
  <2> QED
    BY <1>2, <1>4, <2>1, <2>2 DEF LookupInv
<1>8. CASE SortFails
  <2>1. ~made' /\ db' = db /\ hash_type' = hash_type /\ making' = "no"
        /\ idx' \in {idx, [idx EXCEPT ![hash_type] = Bad]}
    BY <1>5, <1>8 DEF SortFails, handle, MakerInv
  <2>2. TypesInv' /\ MakerInv'
    BY <1>3, <1>5, <2>1 DEF TypesInv, MakerInv
  <2> QED
    BY <1>2, <1>4, <2>1, <2>2 DEF LookupInv
<1>9. CASE Sort
  <2>1. PICK s \in IndexesOf(db) :
          idx' = [idx EXCEPT ![hash_type] = IF hash_type = "md5" THEN Index(s) ELSE Bad]
    BY <1>9 DEF Sort
  <2>2. /\ ~made' /\ db' = db /\ hash_type' = hash_type /\ making' = "sorted"
        /\ hash_type \in Types
    BY <1>5, <1>9 DEF Sort, handle, MakerInv
  <2>3. TypesInv'
    BY <1>3, <1>5, <2>1, <2>2 DEF TypesInv
  <2>4. idx'[hash_type] = IF hash_type = "md5" THEN Index(s) ELSE Bad
    BY <1>5, <2>1, <2>2 DEF TypesInv
  <2>5. Indexes(s, db)
    BY <1>5, SortedIsIndex, DatabaseAssumption DEF TypesInv
  <2>6. idx'[hash_type].kind = "index" => hash_type = "md5" /\ Indexes(MdLines', db)
    BY <2>4, <2>5 DEF Bad, Index, MdLines
  <2>7. MakerInv'
    BY <1>2, <2>2, <2>6 DEF MakerInv
  <2> QED
    BY <1>2, <1>4, <2>2, <2>3, <2>7 DEF LookupInv
<1>10. ASSUME MakeBadIndex \/ TableNotCreated \/ TableNotWritten PROVE LookupInv'
  <2>1. ~made' /\ db' = db /\ idx' = idx /\ hash_type' = hash_type /\ making' = "no"
    BY <1>5, <1>10 DEF MakeBadIndex, TableNotCreated, TableNotWritten, disk, MakerInv
  <2>2. TypesInv' /\ MakerInv'
    BY <1>3, <1>5, <2>1 DEF TypesInv, MakerInv
  <2> QED
    BY <1>2, <1>4, <2>1, <2>2 DEF LookupInv
<1>11. CASE MakeTable
  <2>1. /\ db' = db /\ idx' = idx /\ hash_type' = hash_type /\ making' = "no" /\ hIdx'
        /\ idx[hash_type].kind = "index" /\ making = "sorted"
        /\ idx_size' = Len(idx[hash_type].lines)
        /\ idx_offsets' = Table(FirstLines(Lines1)) /\ idx2' = idx_offsets'
    BY <1>11 DEF MakeTable, OpenFile
  <2>2. hash_type = "md5" /\ Indexes(MdLines, db) /\ Lines1 = MdLines
    BY <1>5, <2>1 DEF MakerInv, Lines1, MdLines
  <2>3. TypesInv' /\ MakerInv'
    BY <1>3, <1>5, <2>1 DEF TypesInv, MakerInv
  <2>4. FilesFit' /\ HandleFits'
    BY <2>1, <2>2 DEF FilesFit, HandleFits, MdLines, Table
  <2> QED
    BY <1>2, <2>3, <2>4 DEF LookupInv
<1> QED
  BY <1>6, <1>7, <1>8, <1>9, <1>10, <1>11 DEF Making

LEMMA StutterKeeps == LookupInv /\ UNCHANGED vars => LookupInv'
<1> SUFFICES ASSUME LookupInv, UNCHANGED vars PROVE LookupInv'
  OBVIOUS
<1>1. /\ UNCHANGED <<db, idx, idx2, hash_type, hIdx, idx_size, idx_lbuf, idx_offsets, lock>>
      /\ UNCHANGED <<pc, call, low, up, at, got, ret, making, made>>
  BY DEF vars, disk, handle, locals, maker
<1>2. TypesInv' /\ FilesFit' /\ HandleFits' /\ MakerInv'
  BY <1>1 DEF LookupInv, TypesInv, FilesFit, HandleFits, MakerInv, MdLines, Idle, All
<1>3. ThreadsInv'
  BY <1>1 DEF LookupInv, ThreadsInv, ThreadOk, OwnType, ForMd5, Placed, Bounded, MdLines
<1> QED
  BY <1>2, <1>3 DEF LookupInv

(* The inductive invariant of lookups and of making an index *)
THEOREM LookupInvariance == Spec => []LookupInv
<1>1. LookupInv /\ [Next]_vars => LookupInv'
  <2> SUFFICES ASSUME LookupInv, [Next]_vars PROVE LookupInv'
    OBVIOUS
  <2>1. ASSUME NEW t \in Threads, Step(t) PROVE LookupInv'
    BY <2>1, LeavesKeeps, OpenKeeps, BoundsKeeps, SearchKeeps, ShowKeeps, RestartKeeps
    DEF Step, ReadWithoutBuffer
  <2>2. CASE Crash
    BY <2>2, RestartKeeps DEF Crash
  <2> QED
    BY <2>1, <2>2, LookupKeeps, MakingKeeps, StutterKeeps DEF Next
<1> QED
  BY <1>1, LookupInvInit, PTL DEF Spec

(* The table leads every line's hash to a range of lines that holds it,    *)
(* and the open handle knows the index that is on disk, as long as the     *)
(* last make_index (binsrch_index.cpp) has succeeded.                      *)
THEOREM TableIsOfIndex == Spec => []TableFits
<1>1. LookupInv => TableFits
  <2> SUFFICES ASSUME LookupInv, made
               PROVE  /\ idx2.kind = "table" => Leads(idx2.at, MdLines)
                      /\ hash_type = "md5" /\ idx_offsets.kind = "table" =>
                           Leads(idx_offsets.at, MdLines)
                      /\ hash_type = "md5" /\ hIdx => idx_size = Len(MdLines)
    BY DEF TableFits, MdLines
  <2>1. Leads(FirstLines(MdLines), MdLines)
    BY TableLeads DEF LookupInv, FilesFit
  <2> QED
    BY <2>1 DEF LookupInv, FilesFit, HandleFits
<1> QED
  BY <1>1, LookupInvariance, PTL

-----------------------------------------------------------------------------
(* The steps with which a thread answers *)
AnswersYes(t) ==
  \/ FoundQuick(t) \/ ShowFound(t) \/ ShowPrevious(t) \/ LastPrevious(t)
  \/ ShowFollowing(t) \/ LastFollowing(t)

AnswersNo(t) == NoSuchPrefix(t) \/ NotThere(t) \/ PastEndOfFile(t)

LEMMA AnswerIs ==
  ASSUME LookupInv, NEW t \in Threads, [Next]_vars, NEW n \in {0, 1}, Answers(t, n)
  PROVE  (n = 1 /\ AnswersYes(t)) \/ (n = 0 /\ AnswersNo(t))
<1>0. pc[t] # "idle" /\ pc'[t] = "idle" /\ ret'[t] = n /\ n # -1
  BY DEF Answers
<1>1. pc = [r \in Threads |-> pc[r]] /\ ret = [r \in Threads |-> ret[r]]
  BY DEF LookupInv, TypesInv
<1>2. ASSUME NEW u \in Threads, u # t, NEW l, pc' = [pc EXCEPT ![u] = l] PROVE FALSE
  BY <1>0, <1>1, <1>2
<1>3. ASSUME pc' = pc PROVE FALSE
  BY <1>0, <1>3
<1>4. ASSUME Restart PROVE FALSE
  BY <1>0, <1>4 DEF Restart, All
<1>5. ASSUME NEW l, l # "idle", pc' = [pc EXCEPT ![t] = l] PROVE FALSE
  BY <1>0, <1>1, <1>5
<1>6. ASSUME NEW m, m # n, ret' = [ret EXCEPT ![t] = m] PROVE FALSE
  BY <1>0, <1>1, <1>6
<1>7. ASSUME NEW u \in Threads, Lookup(u) \/ Step(u) PROVE u = t
  <2>1. Restart \/ \E l : pc' = [pc EXCEPT ![u] = l]
    BY <1>7 DEF Lookup, Step, OpenLock, AlreadyOpen, OpenMissing, OpenBad, OpenRefused,
      OpenIndex, OtherType, WholeFile, OwnPrefix, NoSuchPrefix, SearchLock, NotThere, Probe,
      PastEndOfFile, Narrow, FoundQuick, ShowFails, ShowFound, ShowPrevious, LastPrevious,
      ShowFollowing, LastFollowing, ReadWithoutBuffer, Downwards, Upwards, Goto, Return
  <2> QED
    BY <1>2, <1>4, <2>1
<1>8. Step(t)
  <2>1. ~(NothingToIndex \/ MakeIndex \/ Making \/ UNCHANGED vars)
    BY <1>3 DEF NothingToIndex, MakeIndex, Making, SortFails, Sort, MakeBadIndex,
      TableNotCreated, TableNotWritten, MakeTable, KeepLocals, locals, vars
  <2>2. ~Crash
    BY <1>4 DEF Crash
  <2>3. ~Lookup(t)
    BY <1>0 DEF Lookup
  <2>4. PICK u \in Threads : Lookup(u) \/ Step(u)
    BY <2>1, <2>2 DEF Next
  <2> QED
    BY <1>7, <2>3, <2>4
<1>9. ~(OpenLock(t) \/ AlreadyOpen(t) \/ OpenMissing(t) \/ OpenBad(t) \/ WholeFile(t)
        \/ OwnPrefix(t) \/ SearchLock(t) \/ Probe(t) \/ Narrow(t))
  BY <1>5 DEF OpenLock, AlreadyOpen, OpenMissing, OpenBad, WholeFile, OwnPrefix, SearchLock,
    Probe, Narrow, Goto
<1>10. ~(OpenRefused(t) \/ OpenIndex(t) \/ OtherType(t) \/ ShowFails(t) \/ ReadWithoutBuffer(t))
  BY <1>0, <1>4, <1>5, <1>6
  DEF OpenRefused, OpenIndex, OtherType, ShowFails, ReadWithoutBuffer, Goto, Return
<1>11. ASSUME AnswersYes(t) PROVE n = 1
  <2>1. ret' = [ret EXCEPT ![t] = 1] \/ \E l \in {"previous", "following"} : pc' = [pc EXCEPT ![t] = l]
    BY <1>11 DEF AnswersYes, FoundQuick, ShowFound, ShowPrevious, LastPrevious, ShowFollowing,
      LastFollowing, Downwards, Upwards, Goto, Return
  <2> QED
    BY <1>5, <1>6, <2>1
<1>12. ASSUME AnswersNo(t) PROVE n = 0
  BY <1>6, <1>12 DEF AnswersNo, NoSuchPrefix, NotThere, PastEndOfFile, Return
<1> QED
  BY <1>8, <1>9, <1>10, <1>11, <1>12 DEF Step, AnswersYes, AnswersNo

(* Who answers 1 has come upon a line, ... *)
LEMMA YesIsRight ==
  ASSUME LookupInv, NEW t \in Threads, made, call[t].type = "md5", AnswersYes(t)
  PROVE  HasLine(MdLines, call[t].hash)
<1>1. pc[t] \in {"compare", "previous", "following"} /\ pc[t] \in Searching
      /\ (pc[t] = "compare" => LineRead.hash = call[t].hash)
  BY DEF AnswersYes, FoundQuick, ShowFound, ShowPrevious, LastPrevious, ShowFollowing,
    LastFollowing, Shows, Matches, Searching
<1>2. ForMd5
  BY <1>1, Here DEF OwnType, ForMd5
<1>3. Bounded(t) /\ Lines1 = MdLines /\ Len(MdLines) \in Nat
  BY <1>1, <1>2, Here, HereInSearch
<1>4. CASE pc[t] = "compare"
  <2>1. LineRead = MdLines[at[t]] /\ at[t] \in low[t] .. up[t] - 1
    BY <1>3, <1>4 DEF Bounded, LineRead
  <2>2. Bracket(MdLines, call[t].hash, low[t], up[t])
    BY <1>3, <1>4 DEF Bounded
  <2>3. at[t] \in 1 .. Len(MdLines)
    BY <1>3, <2>1, <2>2 DEF Bracket
  <2> QED
    BY <1>1, <1>4, <2>1, <2>3 DEF HasLine
<1>5. CASE pc[t] # "compare"
  BY <1>1, <1>3, <1>5 DEF Bounded
<1> QED
  BY <1>4, <1>5

(* ... and who answers 0 has no place left for one. *)
LEMMA NoIsRight ==
  ASSUME LookupInv, NEW t \in Threads, made, call[t].type = "md5", AnswersNo(t)
  PROVE  ~HasLine(MdLines, call[t].hash)
<1>1. CASE NoSuchPrefix(t)
  <2> DEFINE p == Prefix[call[t].hash]
  <2>1. /\ hash_type = "md5" /\ idx_offsets.kind = "table" /\ idx_offsets.at[p] = NotSet
        /\ pc[t] # "idle"
    BY <1>1 DEF NoSuchPrefix
  <2>2. idx_offsets.at = FirstLines(MdLines) /\ Indexes(MdLines, db)
    BY <2>1 DEF LookupInv, HandleFits, FilesFit
  <2>3. p \in 0 .. PrefixCount - 1
    BY <2>1, Here, HashAssumption
  <2>4. \A i \in 1 .. Len(MdLines) : Prefix[MdLines[i].hash] # p
    BY <2>1, <2>2, <2>3, FirstLineIs
  <2> QED
    BY <2>4 DEF HasLine
<1>2. ASSUME NotThere(t) \/ PastEndOfFile(t) PROVE ~HasLine(MdLines, call[t].hash)
  <2>1. pc[t] = "search" /\ pc[t] \in Searching
    BY <1>2 DEF NotThere, PastEndOfFile, Searching
  <2>2. ForMd5
    BY <2>1, Here DEF OwnType, ForMd5
  <2>3. /\ Bounded(t) /\ Lines1 = MdLines /\ Len(MdLines) \in Nat /\ Indexes(MdLines, db)
        /\ call[t].hash \in Nat
    BY <2>1, <2>2, Here, HereInSearch
  <2>4. Bracket(MdLines, call[t].hash, low[t], up[t])
    BY <2>1, <2>3 DEF Bounded
  <2>5. up[t] = low[t]
    <3>1. ~PastEndOfFile(t) \/ up[t] = low[t]
      BY <2>3, <2>4, MiddleIsInside DEF PastEndOfFile
    <3> QED
      BY <1>2, <3>1 DEF NotThere
  <2>6. ASSUME NEW i \in 1 .. Len(MdLines), MdLines[i].hash = call[t].hash PROVE FALSE
    <3> DEFINE h == call[t].hash
               l == low[t]
    <3>1. (i < l => MdLines[i].hash < h) /\ (i >= l => MdLines[i].hash > h) /\ l \in Int
      BY <2>4, <2>5 DEF Bracket
    <3>2. MdLines[i].hash = h /\ h \in Nat
      BY <2>3, <2>6
    <3> HIDE DEF h, l
    <3>3. i < l \/ i >= l
      BY <3>1
    <3> QED
      BY <3>1, <3>2, <3>3
  <2> QED
    BY <2>6 DEF HasLine
<1> QED
  BY <1>1, <1>2 DEF AnswersNo

(* A lookup that answers (hdb_binsrch_lookup_str) says truly whether the   *)
(* hash is in the database, for any number of threads that share the       *)
(* buffer and the file position, with and without an index of the index.   *)
THEOREM LookupIsExact == Spec => LookupExact
<1> DEFINE Exact(t) ==
      call[t].type = "md5" /\ call[t].hash # 0 /\ made =>
         /\ Answers(t, 1) => RowsOf(call[t].hash) # {}
         /\ Answers(t, 0) => RowsOf(call[t].hash) = {}
<1>1. LookupInv /\ [Next]_vars => [\A t \in Threads : Exact(t)]_vars
  <2> SUFFICES ASSUME LookupInv, [Next]_vars, NEW t \in Threads,
                      call[t].type = "md5", call[t].hash # 0, made
               PROVE  /\ Answers(t, 1) => RowsOf(call[t].hash) # {}
                      /\ Answers(t, 0) => RowsOf(call[t].hash) = {}
    OBVIOUS
  <2>1. db \in Seq(Hashes \union {Junk}) /\ Indexes(MdLines, db)
    BY DatabaseAssumption DEF LookupInv, TypesInv, FilesFit
  <2>2. call[t].hash \in Hashes
    BY Here
  <2>3. HasLine(MdLines, call[t].hash) <=> RowsOf(call[t].hash) # {}
    BY <2>1, <2>2, LinesAreRows DEF RowsOf
  <2>4. Answers(t, 1) => AnswersYes(t)
    BY AnswerIs
  <2>5. Answers(t, 0) => AnswersNo(t)
    BY AnswerIs
  <2> QED
    BY <2>3, <2>4, <2>5, YesIsRight, NoIsRight
<1> QED
  BY <1>1, LookupInvariance, PTL DEF Spec, LookupExact

-----------------------------------------------------------------------------
(* The rows that get_entry shows from row r on: those with the same hash up *)
(* to the first with another one.                                           *)
RunEndIn(d, r, h) ==
  CHOOSE e \in r .. Len(d) + r :
    /\ e > Len(d) \/ d[e] # h
    /\ \A q \in r .. e - 1 : q \in DOMAIN d /\ d[q] = h

Run(d, r, h) == r .. RunEndIn(d, r, h) - 1

RunFails(d, r, h) ==
  LET e == RunEndIn(d, r, h) IN e = r \/ (e \in DOMAIN d /\ d[e] = Junk)

LEMMA RunIs ==
  ASSUME NEW d \in Seq(Hashes \union {Junk}), NEW r \in Nat \ {0}, NEW h
  PROVE  LET e == RunEndIn(d, r, h)
         IN  /\ e \in Nat /\ e >= r /\ (e > Len(d) \/ d[e] # h)
             /\ \A q \in r .. e - 1 : q \in 1 .. Len(d) /\ d[q] = h
<1> DEFINE n == Len(d)
           T == {e \in Nat : e >= r /\ (e > n \/ d[e] # h)}
           P(e) == /\ e > n \/ d[e] # h
                   /\ \A q \in r .. e - 1 : q \in DOMAIN d /\ d[q] = h
<1>1. n \in Nat /\ DOMAIN d = 1 .. n
  OBVIOUS
<1> HIDE DEF n
<1>2. PICK x \in T : \A y \in T : x <= y
  <2>1. n + r \in T
    BY <1>1
  <2>2. T \subseteq Nat /\ T # {}
    BY <2>1
  <2> HIDE DEF T
  <2> QED
    BY <2>2, LeastNat
<1>3. x \in Nat /\ x >= r /\ (x > n \/ d[x] # h) /\ x <= n + r
  <2>1. n + r \in T
    BY <1>1
  <2> QED
    BY <1>2, <2>1
<1>4. \A q \in r .. x - 1 : q \in 1 .. n /\ d[q] = h
  <2> TAKE q \in r .. x - 1
  <2>1. q \in Nat /\ q >= r /\ q < x
    BY <1>3
  <2>2. q \notin T
    BY <1>2, <1>3, <2>1
  <2> QED
    BY <1>1, <2>1, <2>2
<1>5. x \in r .. n + r /\ P(x)
  BY <1>1, <1>3, <1>4
<1> DEFINE c == CHOOSE e \in r .. n + r : P(e)
<1>6. c \in r .. n + r /\ P(c)
  <2> HIDE DEF P
  <2> QED
    BY <1>5
<1>7. RunEndIn(d, r, h) = c
  BY DEF RunEndIn, n
<1> HIDE DEF c
<1> QED
  BY <1>1, <1>6, <1>7 DEF n

(* The row before, among those that can be parsed *)
LEMMA PreviousIs ==
  ASSUME NEW d \in Seq(Hashes \union {Junk}), NEW s \in Nat, NEW p \in Parsed(d), p < s,
         \A z \in Parsed(d) : z < s => z <= p
  PROVE  PreviousHash(d, s) = d[p]
<1> DEFINE before == {q \in Parsed(d) : q < s}
           c == CHOOSE z \in before : \A q \in before : q <= z
<1>1. before \subseteq Nat
  BY DEF Parsed
<1>2. p \in before /\ \A q \in before : q <= p
  OBVIOUS
<1>3. PreviousHash(d, s) = d[c]
  BY <1>2 DEF PreviousHash
<1> HIDE DEF before
<1>4. c \in before /\ \A q \in before : q <= c
  BY <1>2
<1> HIDE DEF c
<1>5. c <= p /\ p <= c /\ c \in Nat /\ p \in Nat
  BY <1>1, <1>2, <1>4
<1>6. c = p
  BY <1>5
<1> QED
  BY <1>3, <1>6

(* A run has no line inside it: the row before has the same hash.           *)
LEMMA NoStartInside ==
  ASSUME NEW d \in Seq(Hashes \union {Junk}), NEW h \in Hashes,
         NEW r \in Starts(d), NEW s \in Starts(d), d[s] = h, r < s, s \in Run(d, r, h)
  PROVE  FALSE
<1>1. r \in Nat \ {0} /\ s \in Nat \ {0} /\ Parsed(d) \subseteq Nat
  BY DEF Starts, Parsed
<1>2. s - 1 \in Run(d, r, h)
  <2>1. RunEndIn(d, r, h) \in Nat
    BY <1>1, RunIs
  <2> QED
    BY <1>1, <2>1 DEF Run
<1>3. s - 1 \in 1 .. Len(d) /\ d[s - 1] = h
  BY <1>1, <1>2, RunIs DEF Run
<1>4. s - 1 \in Parsed(d)
  BY <1>3, HashAssumption DEF Parsed
<1>5. \A z \in Parsed(d) : z < s => z <= s - 1
  BY <1>1
<1>6. PreviousHash(d, s) = d[s - 1]
  BY <1>1, <1>4, <1>5, PreviousIs
<1> QED
  BY <1>3, <1>6 DEF Starts

(* What row a line is of *)
LEMMA LineIs ==
  ASSUME NEW d \in Seq(Hashes \union {Junk}), NEW lines, Indexes(lines, d),
         NEW i \in 1 .. Len(lines)
  PROVE  /\ lines[i].row \in Starts(d) /\ lines[i].row \in Nat \ {0}
         /\ d[lines[i].row] = lines[i].hash
<1>1. {lines[k] : k \in 1 .. Len(lines)} = {[hash |-> d[r], row |-> r] : r \in Starts(d)}
  BY DEF Indexes, IsIndexOf
<1>2. PICK r \in Starts(d) : lines[i] = [hash |-> d[r], row |-> r]
  BY <1>1
<1>3. r \in Nat \ {0}
  BY DEF Starts, Parsed
<1> QED
  BY <1>2, <1>3

LEMMA RunsApart ==
  ASSUME NEW d \in Seq(Hashes \union {Junk}), NEW lines, Indexes(lines, d), NEW h \in Hashes,
         NEW i \in 1 .. Len(lines), NEW j \in 1 .. Len(lines), i < j,
         lines[i].hash = h, lines[j].hash = h,
         NEW q, q \in Run(d, lines[i].row, h), q \in Run(d, lines[j].row, h)
  PROVE  FALSE
<1> DEFINE r == lines[i].row s == lines[j].row
<1>1. r \in Starts(d) /\ s \in Starts(d) /\ r \in Nat \ {0} /\ s \in Nat \ {0} /\ d[s] = h
  BY LineIs
<1>2. r < s
  <2>1. Before(lines[i], lines[j])
    BY DEF Indexes, IsIndexOf
  <2>2. ~(h < h)
    BY HashAssumption
  <2> QED
    BY <2>1, <2>2 DEF Before
<1>3. q \in Run(d, r, h) /\ q \in Run(d, s, h)
  OBVIOUS
<1> HIDE DEF r, s
<1>4. RunEndIn(d, r, h) \in Nat /\ RunEndIn(d, s, h) \in Nat
  BY <1>1, RunIs
<1>5. s \in Run(d, r, h)
  BY <1>1, <1>2, <1>3, <1>4 DEF Run
<1> QED
  BY <1>1, <1>2, <1>5, NoStartInside

-----------------------------------------------------------------------------
LinesOf(lines, h) == {i \in 1 .. Len(lines) : lines[i].hash = h}

(* g are the rows of the lines L, each of them once. *)
Covers(d, lines, h, g, L) ==
  /\ g \in Seq(Nat)
  /\ \A i, j \in 1 .. Len(g) : g[i] = g[j] => i = j
  /\ \A i \in 1 .. Len(g) : \E k \in L : g[i] \in Run(d, lines[k].row, h)
  /\ \A k \in L : \A q \in Run(d, lines[k].row, h) : \E i \in 1 .. Len(g) : g[i] = q
  /\ \A k \in L : k \in LinesOf(lines, h) /\ ~RunFails(d, lines[k].row, h)

RunSeq(d, r, h) == [i \in 1 .. RunEndIn(d, r, h) - r |-> r + i - 1]

(* f is the members of S, each of them once. *)
Enumerates(f, S) ==
  /\ f \in Seq(Nat) /\ \A i, j \in 1 .. Len(f) : f[i] = f[j] => i = j
  /\ \A i \in 1 .. Len(f) : f[i] \in S
  /\ \A q \in S : \E i \in 1 .. Len(f) : f[i] = q

LEMMA RunSeqIs ==
  ASSUME NEW d \in Seq(Hashes \union {Junk}), NEW r \in Nat \ {0}, NEW h
  PROVE  Enumerates(RunSeq(d, r, h), Run(d, r, h))
<1> DEFINE e == RunEndIn(d, r, h) n == e - r g == [i \in 1 .. n |-> r + i - 1]
<1>1. e \in Nat /\ n \in Nat /\ e = r + n
  BY RunIs
<1> HIDE DEF e, n
<1>2. \A i \in 1 .. n : r + i - 1 \in Nat
  BY <1>1
<1>3. g \in Seq(Nat) /\ Len(g) = n
  BY <1>1, <1>2
<1>4. \A i \in 1 .. n : g[i] = r + i - 1 /\ g[i] \in r .. e - 1
  BY <1>1
<1>5. \A q \in r .. e - 1 : q - r + 1 \in 1 .. n /\ g[q - r + 1] = q
  BY <1>1
<1>6. \A i, j \in 1 .. n : g[i] = g[j] => i = j
  BY <1>1
<1>7. RunSeq(d, r, h) = g /\ Run(d, r, h) = r .. e - 1
  BY DEF RunSeq, Run, e, n
<1> HIDE DEF g
<1> QED
  BY <1>3, <1>4, <1>5, <1>6, <1>7 DEF Enumerates

LEMMA JoinedIs ==
  ASSUME NEW f \in Seq(Nat), NEW g \in Seq(Nat), NEW m, m = Len(f), NEW s, s = f \o g
  PROVE  /\ s \in Seq(Nat) /\ Len(s) = m + Len(g) /\ m \in Nat /\ Len(g) \in Nat
         /\ \A i \in 1 .. m : i \in 1 .. Len(s) /\ s[i] = f[i]
         /\ \A i \in 1 .. Len(g) : m + i \in 1 .. Len(s) /\ s[m + i] = g[i]
         /\ \A i \in 1 .. Len(s) : i \in 1 .. m \/ (i - m \in 1 .. Len(g) /\ s[i] = g[i - m])
<1>1. s \in Seq(Nat) /\ Len(s) = m + Len(g) /\ m \in Nat /\ Len(g) \in Nat
  OBVIOUS
<1>2. \A i \in 1 .. Len(s) : s[i] = IF i <= m THEN f[i] ELSE g[i - m]
  OBVIOUS
<1> DEFINE n == Len(g)
<1>3. \A i \in 1 .. m : i \in 1 .. m + n /\ s[i] = f[i]
  BY <1>1, <1>2
<1>4. ASSUME NEW i \in 1 .. n PROVE m + i \in 1 .. m + n /\ s[m + i] = g[i]
  <2> HIDE DEF n
  <2>1. m + i \in 1 .. m + n /\ ~(m + i <= m) /\ (m + i) - m = i
    BY <1>1 DEF n
  <2> QED
    BY <1>1, <1>2, <2>1 DEF n
<1>5. \A i \in 1 .. m + n : i \in 1 .. m \/ (i - m \in 1 .. n /\ s[i] = g[i - m])
  BY <1>1, <1>2
<1> QED
  BY <1>1, <1>3, <1>4, <1>5, Zenon

(* One more line *)
LEMMA CoverOne ==
  ASSUME NEW d \in Seq(Hashes \union {Junk}), NEW lines, Indexes(lines, d), NEW h \in Hashes,
         NEW g, NEW L, Covers(d, lines, h, g, L),
         NEW k \in LinesOf(lines, h), k \notin L, ~RunFails(d, lines[k].row, h)
  PROVE  Covers(d, lines, h, g \o RunSeq(d, lines[k].row, h), L \union {k})
<1> DEFINE r == lines[k].row f == RunSeq(d, r, h) m == Len(g) s == g \o f
<1>1. r \in Nat \ {0}
  BY LineIs DEF LinesOf
<1>2. /\ f \in Seq(Nat) /\ \A i, j \in 1 .. Len(f) : f[i] = f[j] => i = j
      /\ \A i \in 1 .. Len(f) : f[i] \in Run(d, r, h)
      /\ \A q \in Run(d, r, h) : \E i \in 1 .. Len(f) : f[i] = q
  <2> HIDE DEF r
  <2>1. Enumerates(f, Run(d, r, h))
    BY <1>1, RunSeqIs
  <2> HIDE DEF f
  <2> QED
    BY <2>1 DEF Enumerates
<1>3. /\ g \in Seq(Nat)
      /\ \A i, j \in 1 .. Len(g) : g[i] = g[j] => i = j
      /\ \A i \in 1 .. Len(g) : \E l \in L : g[i] \in Run(d, lines[l].row, h)
      /\ \A l \in L : \A q \in Run(d, lines[l].row, h) : \E i \in 1 .. Len(g) : g[i] = q
      /\ \A l \in L : l \in LinesOf(lines, h) /\ ~RunFails(d, lines[l].row, h)
  BY DEF Covers
<1>4. \A l \in L : \A q : ~(q \in Run(d, lines[l].row, h) /\ q \in Run(d, r, h))
  <2> SUFFICES ASSUME NEW l \in L, NEW q, q \in Run(d, lines[l].row, h), q \in Run(d, r, h)
               PROVE  FALSE
    OBVIOUS
  <2>1. l \in 1 .. Len(lines) /\ k \in 1 .. Len(lines) /\ lines[l].hash = h /\ lines[k].hash = h
    BY <1>3 DEF LinesOf
  <2>2. l < k \/ k < l
    BY <2>1
  <2> QED
    BY <2>1, <2>2, RunsApart
<1> HIDE DEF f, r
<1>5. /\ s \in Seq(Nat) /\ m \in Nat /\ Len(f) \in Nat /\ Len(s) = m + Len(f)
      /\ \A i \in 1 .. m : i \in 1 .. Len(s) /\ s[i] = g[i]
      /\ \A i \in 1 .. Len(f) : m + i \in 1 .. Len(s) /\ s[m + i] = f[i]
      /\ \A i \in 1 .. Len(s) : i \in 1 .. m \/ (i - m \in 1 .. Len(f) /\ s[i] = f[i - m])
  BY <1>2, <1>3, JoinedIs
<1> HIDE DEF s
<1>6. ASSUME NEW i \in 1 .. Len(s), NEW j \in 1 .. Len(s), s[i] = s[j] PROVE i = j
  <2>1. CASE i \in 1 .. m /\ j \in 1 .. m
    BY <1>3, <1>5, <1>6, <2>1
  <2>2. ASSUME NEW x \in 1 .. m, NEW y \in 1 .. Len(s), y \notin 1 .. m, s[x] = s[y] PROVE FALSE
    <3>1. s[y] \in Run(d, r, h)
      BY <1>2, <1>5, <2>2
    <3>2. \E l \in L : s[x] \in Run(d, lines[l].row, h)
      BY <1>3, <1>5, <2>2
    <3> QED
      BY <1>4, <2>2, <3>1, <3>2
  <2>3. CASE i \notin 1 .. m /\ j \notin 1 .. m
    <3>1. i - m \in 1 .. Len(f) /\ j - m \in 1 .. Len(f) /\ f[i - m] = f[j - m]
      BY <1>5, <1>6, <2>3
    <3>2. i - m = j - m
      BY <1>2, <3>1
    <3> QED
      BY <1>5, <3>2
  <2> QED
    BY <1>6, <2>1, <2>2, <2>3
<1>7. ASSUME NEW i \in 1 .. Len(s)
      PROVE  \E l \in L \union {k} : s[i] \in Run(d, lines[l].row, h)
  <2>1. CASE i \in 1 .. m
    BY <1>3, <1>5, <2>1
  <2>2. CASE i \notin 1 .. m
    <3>1. s[i] \in Run(d, r, h)
      BY <1>2, <1>5, <2>2
    <3> QED
      BY <3>1 DEF r
  <2> QED
    BY <2>1, <2>2
<1>8. ASSUME NEW l \in L \union {k}, NEW q \in Run(d, lines[l].row, h)
      PROVE  \E i \in 1 .. Len(s) : s[i] = q
  <2>1. CASE l \in L
    <3>1. PICK i \in 1 .. m : g[i] = q
      BY <1>3, <2>1
    <3> QED
      BY <1>5, <3>1
  <2>2. CASE l = k
    <3>1. PICK i \in 1 .. Len(f) : f[i] = q
      BY <1>2, <2>2 DEF r
    <3> QED
      BY <1>5, <3>1
  <2> QED
    BY <2>1, <2>2
<1>9. Covers(d, lines, h, s, L \union {k})
  BY <1>3, <1>5, <1>6, <1>7, <1>8 DEF Covers
<1> QED
  BY <1>9 DEF s, f, r

(* The rows of the hash are in the runs of its lines, if no run ends at a   *)
(* row that cannot be parsed: a first one that is in none would have a line *)
(* of its own or be next to the end of a run.                               *)
LEMMA RowsInRuns ==
  ASSUME NEW d \in Seq(Hashes \union {Junk}), NEW lines, Indexes(lines, d),
         NEW h \in Hashes, h # 0,
         \A k \in LinesOf(lines, h) : ~RunFails(d, lines[k].row, h)
  PROVE  \A q \in Parsed(d) : d[q] = h => \E k \in LinesOf(lines, h) : q \in Run(d, lines[k].row, h)
<1> DEFINE In(q) == \E k \in LinesOf(lines, h) : q \in Run(d, lines[k].row, h)
           T == {q \in Parsed(d) : d[q] = h /\ ~In(q)}
<1>1. Parsed(d) \subseteq Nat \ {0} /\ \A q \in Parsed(d) : q \in 1 .. Len(d)
  BY DEF Parsed
<1>2. ASSUME T # {} PROVE FALSE
  <2>1. PICK q \in T : \A y \in T : q <= y
    <3>1. T \subseteq Nat
      BY <1>1
    <3> HIDE DEF T
    <3> QED
      BY <1>2, <3>1, LeastNat
  <2>2. q \in Parsed(d) /\ d[q] = h /\ ~In(q) /\ q \in Nat \ {0}
    BY <1>1, <2>1
  <2>3. q \notin Starts(d)
    <3> SUFFICES ASSUME q \in Starts(d) PROVE FALSE
      OBVIOUS
    <3>1. PICK k \in 1 .. Len(lines) : lines[k] = [hash |-> h, row |-> q]
      BY <2>2 DEF Indexes, IsIndexOf
    <3>2. k \in LinesOf(lines, h) /\ lines[k].row = q
      BY <3>1 DEF LinesOf
    <3>3. RunEndIn(d, q, h) # q
      BY <3>2 DEF RunFails
    <3>4. RunEndIn(d, q, h) \in Nat /\ RunEndIn(d, q, h) >= q
      BY <2>2, RunIs
    <3>5. q \in Run(d, q, h)
      BY <2>2, <3>3, <3>4 DEF Run
    <3> QED
      BY <2>2, <3>2, <3>5
  <2>4. PreviousHash(d, q) = h
    BY <2>2, <2>3 DEF Starts
  <2>5. PICK p \in Parsed(d) : p < q /\ \A z \in Parsed(d) : z < q => z <= p
    <3> DEFINE before == {z \in Parsed(d) : z < q}
               S == {q - z : z \in before}
    <3>1. before # {}
      BY <2>4 DEF PreviousHash
    <3>2. S \subseteq Nat /\ S # {}
      BY <1>1, <2>2, <3>1
    <3>3. PICK x \in S : \A y \in S : x <= y
      <4> HIDE DEF S
      <4> QED
        BY <3>2, LeastNat
    <3>4. PICK p \in before : x = q - p
      OBVIOUS
    <3>5. \A z \in before : z <= p
      <4> TAKE z \in before
      <4>1. q - p <= q - z
        BY <3>3, <3>4
      <4>2. z \in Nat /\ p \in Nat
        BY <1>1
      <4> QED
        BY <2>2, <4>1, <4>2
    <3> QED
      BY <3>5
  <2>6. d[p] = h
    BY <2>2, <2>4, <2>5, PreviousIs
  <2>7. PICK k \in LinesOf(lines, h) : p \in Run(d, lines[k].row, h)
    <3>1. p \in Nat /\ ~(q <= p)
      BY <1>1, <2>2, <2>5
    <3> QED
      BY <2>1, <2>6, <3>1
  <2> DEFINE r == lines[k].row e == RunEndIn(d, r, h)
  <2>8. r \in Nat \ {0} /\ ~RunFails(d, r, h)
    BY LineIs DEF LinesOf
  <2> HIDE DEF r
  <2>9. e \in Nat /\ e >= r /\ (e > Len(d) \/ d[e] # h)
    BY <2>8, RunIs
  <2>10. r <= p /\ p < e /\ p \in Nat
    BY <1>1, <2>7, <2>8, <2>9 DEF Run, r
  <2>11. ~(q < e)
    <3>1. ~(q \in r .. e - 1)
      BY <2>2, <2>7 DEF Run, r
    <3> HIDE DEF e
    <3> QED
      BY <2>2, <2>5, <2>8, <2>9, <2>10, <3>1
  <2>12. e < q /\ e \in 1 .. Len(d)
    <3>1. q \in 1 .. Len(d)
      BY <1>1
    <3>2. e # q
      BY <2>2, <2>9, <3>1
    <3> HIDE DEF e
    <3> QED
      BY <2>2, <2>8, <2>9, <2>11, <3>1, <3>2
  <2>13. e \in Parsed(d)
    BY <2>8, <2>12 DEF RunFails, Parsed
  <2> QED
    BY <2>5, <2>9, <2>10, <2>12, <2>13
<1> QED
  BY <1>2

(* When all lines of the hash are covered, so are its rows. *)
RowsWith(d, h) == {r \in Parsed(d) : d[r] = h}

LEMMA CoversAll ==
  ASSUME NEW d \in Seq(Hashes \union {Junk}), NEW lines, Indexes(lines, d),
         NEW h \in Hashes, h # 0, NEW g, Covers(d, lines, h, g, LinesOf(lines, h))
  PROVE  /\ {g[i] : i \in DOMAIN g} = RowsWith(d, h)
         /\ Len(g) = Cardinality(RowsWith(d, h))
<1> DEFINE rows == {r \in Parsed(d) : d[r] = h} n == Len(g)
<1>1. /\ g \in Seq(Nat) /\ n \in Nat /\ DOMAIN g = 1 .. n
      /\ \A i, j \in 1 .. n : g[i] = g[j] => i = j
      /\ \A i \in 1 .. n : \E k \in LinesOf(lines, h) : g[i] \in Run(d, lines[k].row, h)
      /\ \A k \in LinesOf(lines, h) :
           \A q \in Run(d, lines[k].row, h) : \E i \in 1 .. n : g[i] = q
      /\ \A k \in LinesOf(lines, h) : ~RunFails(d, lines[k].row, h)
  BY DEF Covers
<1>2. \A i \in 1 .. n : g[i] \in rows
  <2> TAKE i \in 1 .. n
  <2>1. PICK k \in LinesOf(lines, h) : g[i] \in Run(d, lines[k].row, h)
    BY <1>1
  <2>2. lines[k].row \in Nat \ {0}
    BY LineIs DEF LinesOf
  <2>3. g[i] \in 1 .. Len(d) /\ d[g[i]] = h
    BY <2>1, <2>2, RunIs DEF Run
  <2> QED
    BY <2>3, HashAssumption DEF Parsed
<1>3. ASSUME NEW q \in rows PROVE \E i \in 1 .. n : g[i] = q
  <2>1. PICK k \in LinesOf(lines, h) : q \in Run(d, lines[k].row, h)
    BY <1>1, RowsInRuns
  <2> QED
    BY <1>1, <2>1
<1> HIDE DEF n, rows
<1>4. {g[i] : i \in DOMAIN g} = rows
  BY <1>1, <1>2, <1>3
<1>5. g \in [1 .. n -> rows]
  <2>1. g = [i \in 1 .. n |-> g[i]]
    BY <1>1 DEF n
  <2> QED
    BY <1>2, <2>1
<1>6. g \in Bijection(1 .. n, rows)
  <2>1. IsInjective(g)
    BY <1>1 DEF IsInjective
  <2> QED
    BY <1>3, <1>5, <2>1 DEF Bijection, Injection, Surjection
<1>7. Cardinality(rows) = n
  <2>1. ExistsBijection(1 .. n, rows)
    BY <1>6 DEF ExistsBijection
  <2>2. IsFiniteSet(1 .. n) /\ Cardinality(1 .. n) = n
    BY <1>1, FS_Interval
  <2> QED
    BY <2>1, <2>2, FS_Bijection
<1> QED
  BY <1>4, <1>7 DEF n, rows, RowsWith

-----------------------------------------------------------------------------
(* What the callback has been called for: nothing before a line is found,  *)
(* then the rows of the lines from the one found down to the line read     *)
(* last, at last those of all lines before it, for a callback that always  *)
(* goes on.                                                                *)
Early == {"open", "opening", "refused", "bounds", "bounded", "search", "compare"}
Beyond == {"previous", "following"}

ShownBy(t, g, L) ==
  LET h == call[t].hash
  IN  call[t].all => Covers(db, MdLines, h, g, {k \in LinesOf(MdLines, h) : k \in L})

Shown(t, L) == ShownBy(t, got[t], L)

Among(t) ==
  /\ Bracket(MdLines, call[t].hash, low[t], up[t])
  /\ at[t] \in LinesOf(MdLines, call[t].hash)

Backward(t) ==
  Among(t) /\ idx_lbuf \in low[t] .. at[t] - 1 /\ Shown(t, idx_lbuf + 1 .. at[t])

Forward(t) ==
  Among(t) /\ idx_lbuf \in at[t] + 1 .. up[t] - 1 /\ Shown(t, 1 .. idx_lbuf - 1)

ShowsSo(t) ==
  /\ pc[t] \in Early => got[t] = <<>>
  /\ pc[t] \in Beyond \union {"compare"} => call[t].type = "md5"
  /\ ForMd5 /\ pc[t] = "previous" => Backward(t)
  /\ ForMd5 /\ pc[t] = "following" => Forward(t)

ShownInv ==
  /\ got = [t \in Threads |-> got[t]]
  /\ idx["sha1"].lines = <<>>
  /\ \A t \in Threads : ShowsSo(t)

LEMMA ShownInvInit == Init => ShownInv
<1> SUFFICES ASSUME Init PROVE ShownInv
  OBVIOUS
<1>1. pc = All("idle") /\ got = All(<<>>) /\ idx["sha1"] = Missing
  BY DEF Init, Idle, Types
<1> QED
  BY <1>1 DEF ShownInv, ShowsSo, All, Missing, Early, Beyond

(* Nobody looks anything up, before or after. *)
LEMMA QuietShown ==
  ASSUME ShownInv, LookupInv, NothingToIndex \/ MakeIndex \/ Making \/ Restart
  PROVE  ShownInv'
<1>1. TypesInv /\ MakerInv
  BY DEF LookupInv
<1>2. pc' = All("idle")
  BY <1>1 DEF NothingToIndex, MakeIndex, Making, SortFails, Sort, MakeBadIndex, TableNotCreated,
         TableNotWritten, MakeTable, Restart, NobodyLooksUp, KeepLocals, locals, MakerInv, Idle, All
<1>3. got' = got \/ got' = All(<<>>)
  BY DEF NothingToIndex, MakeIndex, Making, SortFails, Sort, MakeBadIndex, TableNotCreated,
         TableNotWritten, MakeTable, Restart, KeepLocals, locals
<1>4. idx'["sha1"].lines = <<>>
  <2>1. idx["sha1"].lines = <<>>
    BY DEF ShownInv
  <2>2. CASE SortFails
    <3>1. idx' \in {idx, [idx EXCEPT ![hash_type] = Bad]}
      BY <2>2 DEF SortFails
    <3> QED
      BY <1>1, <2>1, <3>1 DEF TypesInv, Types, Bad
  <2>3. CASE Sort
    <3>1. PICK s \in IndexesOf(db) :
            idx' = [idx EXCEPT ![hash_type] = IF hash_type = "md5" THEN Index(s) ELSE Bad]
      BY <2>3 DEF Sort
    <3>2. CASE hash_type = "md5"
      BY <1>1, <2>1, <3>1, <3>2 DEF TypesInv, Types
    <3>3. CASE hash_type # "md5"
      BY <1>1, <2>1, <3>1, <3>3 DEF TypesInv, Types, Bad
    <3> QED
      BY <3>2, <3>3
  <2>4. ASSUME ~SortFails, ~Sort PROVE idx' = idx
    BY <2>4 DEF NothingToIndex, MakeIndex, Making, MakeBadIndex, TableNotCreated,
         TableNotWritten, MakeTable, Restart, disk
  <2> QED
    BY <2>1, <2>2, <2>3, <2>4
<1> QED
  BY <1>2, <1>3, <1>4 DEF ShownInv, ShowsSo, All, Early, Beyond

(* What a step of a thread leaves to the others *)
Apart(u) ==
  /\ UNCHANGED <<db, idx, made>>
  /\ hash_type' = hash_type \/ hash_type = "none"
  /\ idx_lbuf' = idx_lbuf \/ pc[u] \in Holding
  /\ got' = [t \in Threads |-> got'[t]]
  /\ \A t \in Threads \ {u} :
       /\ pc'[t] = pc[t] /\ call'[t] = call[t] /\ got'[t] = got[t]
       /\ low'[t] = low[t] /\ up'[t] = up[t] /\ at'[t] = at[t]

LEMMA ShownOthers ==
  ASSUME ShownInv, LookupInv, NEW u \in Threads, Apart(u), ShowsSo(u)'
  PROVE  ShownInv'
<1>1. ASSUME NEW t \in Threads, t # u PROVE ShowsSo(t)'
  <2>1. /\ pc'[t] = pc[t] /\ call'[t] = call[t] /\ got'[t] = got[t]
        /\ low'[t] = low[t] /\ up'[t] = up[t] /\ at'[t] = at[t]
        /\ db' = db /\ MdLines' = MdLines /\ made' = made
    BY <1>1 DEF Apart, MdLines
  <2>2. ShowsSo(t)
    BY DEF ShownInv
  <2>3. ASSUME ForMd5', pc[t] \in Beyond PROVE ForMd5 /\ idx_lbuf' = idx_lbuf
    <3>1. ForMd5
      BY <2>3 DEF ForMd5, Apart
    <3>2. Placed(t) /\ Placed(u)
      BY <3>1, Here
    <3>3. ~(pc[u] \in Holding)
      BY <1>1, <2>3, <3>2 DEF Placed, Holding, Beyond
    <3> QED
      BY <3>1, <3>3 DEF Apart
  <2>4. ForMd5' /\ pc'[t] = "previous" => Backward(t)'
    BY <2>1, <2>2, <2>3 DEF ShowsSo, Backward, Among, Shown, ShownBy, Beyond
  <2>5. ForMd5' /\ pc'[t] = "following" => Forward(t)'
    BY <2>1, <2>2, <2>3 DEF ShowsSo, Forward, Among, Shown, ShownBy, Beyond
  <2> QED
    BY <2>1, <2>2, <2>4, <2>5 DEF ShowsSo
<1>2. idx'["sha1"].lines = <<>> /\ got' = [t \in Threads |-> got'[t]]
  BY DEF ShownInv, Apart
<1> QED
  BY <1>1, <1>2 DEF ShownInv
(* Every step of a thread but one that ends the process *)
LEMMA ApartStep ==
  ASSUME ShownInv, LookupInv, NEW u \in Threads, Lookup(u) \/ (Step(u) /\ ~Restart)
  PROVE  Apart(u)
<1>1. TypesInv /\ got = [t \in Threads |-> got[t]]
  BY DEF LookupInv, ShownInv
<1> USE DEF Apart, TypesInv, Goto, Return, disk, handle, maker, Holding
<1>2. CASE Lookup(u)
  BY <1>1, <1>2 DEF Lookup
<1>3. CASE OpenLock(u) \/ AlreadyOpen(u)
  BY <1>1, <1>3 DEF OpenLock, AlreadyOpen
<1>4. CASE OpenMissing(u) \/ OpenBad(u)
  BY <1>1, <1>4 DEF OpenMissing, OpenBad, TypeAfter
<1>5. CASE OpenRefused(u)
  BY <1>1, <1>5 DEF OpenRefused
<1>6. CASE OpenIndex(u)
  BY <1>1, <1>6 DEF OpenIndex, TypeAfter
<1>7. CASE OtherType(u) \/ NoSuchPrefix(u)
  BY <1>1, <1>7 DEF OtherType, NoSuchPrefix
<1>8. CASE WholeFile(u) \/ OwnPrefix(u)
  BY <1>1, <1>8 DEF WholeFile, OwnPrefix
<1>9. CASE SearchLock(u) \/ NotThere(u) \/ PastEndOfFile(u)
  BY <1>1, <1>9 DEF SearchLock, NotThere, PastEndOfFile
<1>10. CASE Probe(u)
  BY <1>1, <1>10 DEF Probe
<1>11. CASE Narrow(u)
  BY <1>1, <1>11 DEF Narrow
<1>12. CASE FoundQuick(u) \/ LastFollowing(u)
  BY <1>1, <1>12 DEF FoundQuick, LastFollowing
<1>13. CASE ShowFails(u)
  BY <1>1, <1>13 DEF ShowFails, Show, ShowSome, ShowUpTo, Reading
<1>14. ASSUME pc[u] \in Holding, \E l : pc' = [pc EXCEPT ![u] = l],
              UNCHANGED <<db, idx, hash_type, call, low, up, at, made>>,
              \E x : got' = [got EXCEPT ![u] = x]
       PROVE  Apart(u)
  BY <1>1, <1>14
<1>15. CASE ShowFound(u) \/ ShowPrevious(u) \/ LastPrevious(u) \/ ShowFollowing(u)
  <2>1. pc[u] \in Holding /\ UNCHANGED <<db, idx, hash_type, call, low, up, at, made>>
    BY <1>15 DEF ShowFound, ShowPrevious, LastPrevious, ShowFollowing, otherThanShown
  <2>2. \E l : pc' = [pc EXCEPT ![u] = l]
    BY <1>15 DEF ShowFound, ShowPrevious, LastPrevious, ShowFollowing, Downwards, Upwards
  <2>3. \E x : got' = [got EXCEPT ![u] = x]
    <3>1. got' = got \/ Show(u) \/ ShowSome(u)
      BY <1>15 DEF ShowFound, ShowPrevious, LastPrevious, ShowFollowing, Shows
    <3>2. got = [got EXCEPT ![u] = got[u]]
      BY <1>1
    <3> QED
      BY <3>1, <3>2 DEF Show, ShowSome, ShowUpTo
  <2> QED
    BY <1>14, <2>1, <2>2, <2>3
<1>16. ~ReadWithoutBuffer(u) \/ Lookup(u)
  BY DEF ReadWithoutBuffer
<1> QED
  BY <1>2, <1>3, <1>4, <1>5, <1>6, <1>7, <1>8, <1>9, <1>10, <1>11, <1>12, <1>13, <1>15, <1>16
  DEF Step

(* Up to the line that is found nothing is shown. *)
LEMMA EarlyShown ==
  ASSUME ShownInv, LookupInv, NEW u \in Threads,
         \/ Lookup(u) \/ OpenLock(u) \/ AlreadyOpen(u) \/ OpenMissing(u) \/ OpenBad(u)
         \/ OpenIndex(u) \/ WholeFile(u) \/ OwnPrefix(u) \/ SearchLock(u) \/ Narrow(u)
  PROVE  ShowsSo(u)'
<1>1. TypesInv /\ got = [t \in Threads |-> got[t]] /\ (pc[u] \in Early => got[u] = <<>>)
  BY DEF LookupInv, ShownInv, ShowsSo
<1>2. ASSUME Lookup(u) PROVE pc'[u] = "open" /\ got'[u] = <<>>
  BY <1>1, <1>2 DEF Lookup, Goto, TypesInv
<1>3. ASSUME ~Lookup(u) PROVE pc'[u] \in {"opening", "bounds", "refused", "bounded", "search", "idle"}
  BY <1>1, <1>3 DEF OpenLock, AlreadyOpen, OpenMissing, OpenBad, OpenIndex, WholeFile, OwnPrefix,
    SearchLock, Narrow, Goto, Return, TypesInv
<1>4. ASSUME ~Lookup(u) PROVE got'[u] = <<>>
  BY <1>1, <1>4 DEF OpenLock, AlreadyOpen, OpenMissing, OpenBad, OpenIndex, WholeFile, OwnPrefix,
    SearchLock, Narrow, Early
<1> QED
  BY <1>2, <1>3, <1>4 DEF ShowsSo, Beyond

LEMMA ProbeShown ==
  ASSUME ShownInv, LookupInv, NEW u \in Threads, Probe(u)
  PROVE  ShowsSo(u)'
<1>1. TypesInv /\ ShowsSo(u) /\ idx["sha1"].lines = <<>>
  BY DEF LookupInv, ShownInv
<1>2. pc[u] = "search" /\ pc'[u] = "compare" /\ got' = got /\ call' = call
  BY <1>1 DEF Probe, Goto, TypesInv
<1>3. call[u].type = hash_type /\ call[u].type \in Types
  BY <1>2, Here DEF OwnType, Searching
<1>4. call[u].type # "sha1"
  <2> SUFFICES ASSUME call[u].type = "sha1" PROVE FALSE
    OBVIOUS
  <2>1. Lines1 = <<>>
    BY <1>1, <1>3 DEF Lines1
  <2>2. Middle(u) \in 1 .. Len(Lines1)
    BY DEF Probe
  <2> HIDE DEF Middle
  <2> QED
    BY <2>1, <2>2
<1> QED
  BY <1>1, <1>2, <1>3, <1>4 DEF ShowsSo, Early, Beyond, Types

-----------------------------------------------------------------------------
(* Where a step that shows rows leads: to a line before or after, or out,  *)
(* and then all lines of the hash have been shown.                         *)
Settled(u) ==
  /\ pc'[u] \in Beyond \union {"idle"}
  /\ pc'[u] = "previous" => idx_lbuf' \in low[u] .. at[u] - 1
                            /\ ShownBy(u, got'[u], idx_lbuf' + 1 .. at[u])
  /\ pc'[u] = "following" => idx_lbuf' \in at[u] + 1 .. up[u] - 1
                             /\ ShownBy(u, got'[u], 1 .. idx_lbuf' - 1)
  /\ pc'[u] = "idle" => ShownBy(u, got'[u], 1 .. Len(MdLines))

(* Lines outside the bounds are not of the hash. *)
LEMMA SameLines ==
  ASSUME NEW t \in Threads, NEW g, NEW L, NEW M, ShownBy(t, g, L),
         \A k \in LinesOf(MdLines, call[t].hash) : k \in L <=> k \in M
  PROVE  ShownBy(t, g, M)
<1> DEFINE H == LinesOf(MdLines, call[t].hash)
<1>1. {k \in H : k \in L} = {k \in H : k \in M}
  OBVIOUS
<1> QED
  BY <1>1 DEF ShownBy

LEMMA InBounds ==
  ASSUME NEW lines, NEW h \in Hashes, NEW l, NEW u, Bracket(lines, h, l, u),
         Len(lines) \in Nat, NEW k \in LinesOf(lines, h)
  PROVE  k \in l .. u - 1 /\ k \in 1 .. Len(lines)
<1>1. h \in Nat /\ ~(h < h) /\ ~(h > h)
  BY HashAssumption
<1>2. k \in 1 .. Len(lines) /\ lines[k].hash = h
  BY DEF LinesOf
<1>3. ~(k < l) /\ ~(k >= u)
  BY <1>1, <1>2 DEF Bracket
<1>4. l \in Nat /\ u \in Nat
  BY DEF Bracket
<1> QED
  BY <1>2, <1>3, <1>4

(* Among the lines of the MD5 index *)
LEMMA HereAmong ==
  ASSUME LookupInv, NEW u \in Threads, ForMd5, pc[u] \in Searching, Among(u)
  PROVE  /\ Len(MdLines) \in Nat /\ Lines1 = MdLines /\ call[u].hash \in Hashes
         /\ low[u] \in Nat /\ up[u] \in Nat /\ at[u] \in 1 .. Len(MdLines)
         /\ low[u] <= at[u] /\ up[u] <= Len(MdLines) + 1
         /\ \A k \in LinesOf(MdLines, call[u].hash) :
              k \in low[u] .. up[u] - 1 /\ k \in 1 .. Len(MdLines)
<1>1. Len(MdLines) \in Nat /\ Lines1 = MdLines /\ call[u].hash \in Hashes
  BY HereInSearch
<1>2. \A k \in LinesOf(MdLines, call[u].hash) :
        k \in low[u] .. up[u] - 1 /\ k \in 1 .. Len(MdLines)
  BY <1>1, InBounds DEF Among
<1>3. low[u] \in Nat /\ up[u] \in Nat /\ up[u] <= Len(MdLines) + 1
  BY <1>1 DEF Among, Bracket
<1> QED
  BY <1>1, <1>2, <1>3 DEF Among

LEMMA UpwardsShows ==
  ASSUME LookupInv, NEW u \in Threads, ForMd5, pc[u] \in Searching, Among(u),
         NEW i, i \in Nat, i > at[u], Upwards(u, i), ShownBy(u, got'[u], 1 .. i - 1)
  PROVE  Settled(u)
<1>1. /\ Len(MdLines) \in Nat /\ Lines1 = MdLines
      /\ at[u] \in Nat /\ up[u] \in Nat /\ up[u] <= Len(MdLines) + 1
      /\ \A k \in LinesOf(MdLines, call[u].hash) :
           k \in low[u] .. up[u] - 1 /\ k \in 1 .. Len(MdLines)
  BY HereAmong
<1>2. pc = [t \in Threads |-> pc[t]]
  BY DEF LookupInv, TypesInv
<1>3. CASE HasFollowing(u, i)
  <2>1. pc'[u] = "following" /\ idx_lbuf' = i
    BY <1>2, <1>3 DEF Upwards, ReadLine, Goto
  <2>2. i \in at[u] + 1 .. up[u] - 1
    BY <1>1, <1>3 DEF HasFollowing
  <2> QED
    BY <2>1, <2>2 DEF Settled, Beyond
<1>4. CASE ~HasFollowing(u, i)
  <2>1. pc'[u] = "idle"
    BY <1>2, <1>4 DEF Upwards, Return, Goto
  <2>2. i >= up[u] \/ i > Len(MdLines)
    BY <1>1, <1>4 DEF HasFollowing
  <2>3. \A k \in LinesOf(MdLines, call[u].hash) :
          k \in 1 .. i - 1 <=> k \in 1 .. Len(MdLines)
    BY <1>1, <2>2
  <2>4. ShownBy(u, got'[u], 1 .. Len(MdLines))
    BY <2>3, SameLines
  <2> QED
    BY <2>1, <2>4 DEF Settled, Beyond
<1> QED
  BY <1>3, <1>4

LEMMA DownwardsShows ==
  ASSUME LookupInv, NEW u \in Threads, ForMd5, pc[u] \in Searching, Among(u),
         NEW i, i \in Int, i < at[u], Downwards(u, i), ShownBy(u, got'[u], i + 1 .. at[u])
  PROVE  Settled(u)
<1>1. /\ Len(MdLines) \in Nat /\ Lines1 = MdLines
      /\ at[u] \in Nat /\ low[u] \in Nat
      /\ \A k \in LinesOf(MdLines, call[u].hash) :
           k \in low[u] .. up[u] - 1 /\ k \in 1 .. Len(MdLines)
  BY HereAmong
<1>2. pc = [t \in Threads |-> pc[t]]
  BY DEF LookupInv, TypesInv
<1>3. CASE HasPrevious(u, i)
  <2>1. pc'[u] = "previous" /\ idx_lbuf' = i
    BY <1>2, <1>3 DEF Downwards, ReadLine, Goto
  <2>2. i \in low[u] .. at[u] - 1
    BY <1>1, <1>3 DEF HasPrevious
  <2> QED
    BY <2>1, <2>2 DEF Settled, Beyond
<1>4. CASE ~HasPrevious(u, i)
  <2>1. Upwards(u, at[u] + 1)
    BY <1>4 DEF Downwards
  <2>2. i < low[u]
    BY <1>1, <1>4 DEF HasPrevious
  <2>3. \A k \in LinesOf(MdLines, call[u].hash) :
          k \in i + 1 .. at[u] <=> k \in 1 .. (at[u] + 1) - 1
    BY <1>1, <2>2
  <2>4. ShownBy(u, got'[u], 1 .. (at[u] + 1) - 1)
    BY <2>3, SameLines
  <2>5. at[u] + 1 \in Nat /\ at[u] + 1 > at[u]
    BY <1>1
  <2> QED
    BY <2>1, <2>4, <2>5, UpwardsShows
<1> QED
  BY <1>3, <1>4
(* get_entry shows the rows of the line read. *)
LEMMA OneMoreLine ==
  ASSUME ShownInv, LookupInv, NEW u \in Threads, ForMd5, pc[u] \in Searching, Shows(u),
         NEW k \in 1 .. Len(MdLines), idx_lbuf = k,
         NEW L, k \notin L, ShownBy(u, got[u], L)
  PROVE  ShownBy(u, got'[u], L \union {k})
<1> SUFFICES ASSUME call[u].all PROVE ShownBy(u, got'[u], L \union {k})
  BY DEF ShownBy
<1> DEFINE h == call[u].hash
           H == LinesOf(MdLines, h)
           K == {j \in H : j \in L}
<1>1. /\ Lines1 = MdLines /\ h \in Hashes /\ Indexes(MdLines, db)
      /\ db \in Seq(Hashes \union {Junk})
  BY HereInSearch, DatabaseAssumption DEF LookupInv, TypesInv
<1>2. LineRead = MdLines[k] /\ LineRead.hash = h
  BY <1>1 DEF LineRead, Shows, Matches
<1>3. k \in H
  BY <1>2 DEF LinesOf
<1>4. ~RunFails(db, MdLines[k].row, h)
  BY <1>2 DEF Shows, ShowSome, EntryFails, RunFails, RunEnd, RunEndIn
<1>5. got'[u] = got[u] \o RunSeq(db, MdLines[k].row, h)
  <2>1. got' = [got EXCEPT ![u] = got[u] \o RowsShown(LineRead.row, h)]
    BY DEF Shows, ShowSome, Show
  <2>2. got = [t \in Threads |-> got[t]]
    BY DEF ShownInv
  <2>3. RowsShown(LineRead.row, h) = RunSeq(db, MdLines[k].row, h)
    BY <1>2 DEF RowsShown, RunSeq, RunEnd, RunEndIn
  <2> QED
    BY <2>1, <2>2, <2>3
<1>6. Covers(db, MdLines, h, got[u], K)
  BY DEF ShownBy
<1>7. k \notin K
  OBVIOUS
<1>8. {j \in H : j \in L \union {k}} = K \union {k}
  BY <1>3
<1> HIDE DEF h, K
<1>9. Covers(db, MdLines, h, got[u] \o RunSeq(db, MdLines[k].row, h), K \union {k})
  BY <1>1, <1>3, <1>4, <1>6, <1>7, CoverOne, Zenon
<1>10. Covers(db, MdLines, h, got'[u], K \union {k})
  BY <1>5, <1>9
<1> QED
  BY <1>8, <1>10 DEF ShownBy, h, K

LEMMA NothingShown ==
  ASSUME NEW u \in Threads, NEW L, \A k \in LinesOf(MdLines, call[u].hash) : k \notin L
  PROVE  ShownBy(u, <<>>, L)
<1>1. {k \in LinesOf(MdLines, call[u].hash) : k \in L} = {}
  OBVIOUS
<1> QED
  BY <1>1 DEF ShownBy, Covers

LEMMA FoundShows ==
  ASSUME ShownInv, LookupInv, NEW u \in Threads, ForMd5, ShowFound(u)
  PROVE  Among(u) /\ Settled(u)
<1>1. pc[u] = "compare" /\ pc[u] \in Searching /\ Shows(u) /\ Downwards(u, at[u] - 1)
  BY DEF ShowFound, Searching
<1>2. Bounded(u) /\ ShowsSo(u) /\ Lines1 = MdLines /\ Len(MdLines) \in Nat
  BY <1>1, Here, HereInSearch DEF ShownInv
<1>3. /\ Bracket(MdLines, call[u].hash, low[u], up[u]) /\ at[u] \in low[u] .. up[u] - 1
      /\ idx_lbuf = at[u] /\ got[u] = <<>>
  BY <1>1, <1>2 DEF Bounded, ShowsSo, Early
<1>4. at[u] \in 1 .. Len(MdLines)
  BY <1>2, <1>3 DEF Bracket
<1>5. Among(u)
  BY <1>1, <1>2, <1>3, <1>4 DEF Among, LinesOf, Shows, Matches, LineRead
<1>6. ShownBy(u, got[u], {})
  BY <1>3, NothingShown
<1>7. ShownBy(u, got'[u], {} \union {at[u]})
  BY <1>1, <1>3, <1>4, <1>6, OneMoreLine
<1>8. \A k \in LinesOf(MdLines, call[u].hash) :
        k \in {} \union {at[u]} <=> k \in (at[u] - 1) + 1 .. at[u]
  <2>1. \A k \in LinesOf(MdLines, call[u].hash) : k \in Nat
    BY <1>2 DEF LinesOf
  <2> QED
    BY <1>4, <2>1
<1>9. ShownBy(u, got'[u], (at[u] - 1) + 1 .. at[u])
  BY <1>7, <1>8, SameLines
<1>10. at[u] - 1 \in Int /\ at[u] - 1 < at[u]
  BY <1>4
<1> QED
  BY <1>1, <1>5, <1>9, <1>10, DownwardsShows

LEMMA PreviousShows ==
  ASSUME ShownInv, LookupInv, NEW u \in Threads, ForMd5, ShowPrevious(u)
  PROVE  Among(u) /\ Settled(u)
<1>1. pc[u] = "previous" /\ pc[u] \in Searching /\ Shows(u) /\ Downwards(u, idx_lbuf - 1)
  BY DEF ShowPrevious, Searching
<1>2. Among(u) /\ idx_lbuf \in low[u] .. at[u] - 1 /\ ShownBy(u, got[u], idx_lbuf + 1 .. at[u])
  BY <1>1 DEF ShownInv, ShowsSo, Backward, Shown
<1>3. /\ low[u] \in Nat /\ low[u] >= 1 /\ at[u] \in 1 .. Len(MdLines) /\ Len(MdLines) \in Nat
      /\ \A k \in LinesOf(MdLines, call[u].hash) : k \in 1 .. Len(MdLines)
  BY <1>1, <1>2, HereAmong DEF Among, Bracket
<1>4. idx_lbuf \in 1 .. Len(MdLines) /\ idx_lbuf \notin idx_lbuf + 1 .. at[u]
  BY <1>2, <1>3
<1>5. ShownBy(u, got'[u], (idx_lbuf + 1 .. at[u]) \union {idx_lbuf})
  BY <1>1, <1>2, <1>4, OneMoreLine
<1>6. \A k \in LinesOf(MdLines, call[u].hash) :
        k \in (idx_lbuf + 1 .. at[u]) \union {idx_lbuf} <=> k \in (idx_lbuf - 1) + 1 .. at[u]
  BY <1>2, <1>3, <1>4
<1>7. ShownBy(u, got'[u], (idx_lbuf - 1) + 1 .. at[u])
  BY <1>5, <1>6, SameLines
<1>8. idx_lbuf - 1 \in Int /\ idx_lbuf - 1 < at[u]
  BY <1>2, <1>3, <1>4
<1> QED
  BY <1>1, <1>2, <1>7, <1>8, DownwardsShows

LEMMA FollowingShows ==
  ASSUME ShownInv, LookupInv, NEW u \in Threads, ForMd5, ShowFollowing(u)
  PROVE  Among(u) /\ Settled(u)
<1>1. pc[u] = "following" /\ pc[u] \in Searching /\ Shows(u) /\ Upwards(u, idx_lbuf + 1)
  BY DEF ShowFollowing, Searching
<1>2. Among(u) /\ idx_lbuf \in at[u] + 1 .. up[u] - 1 /\ ShownBy(u, got[u], 1 .. idx_lbuf - 1)
  BY <1>1 DEF ShownInv, ShowsSo, Forward, Shown
<1>3. /\ at[u] \in 1 .. Len(MdLines) /\ Len(MdLines) \in Nat
      /\ up[u] \in Nat /\ up[u] <= Len(MdLines) + 1
      /\ \A k \in LinesOf(MdLines, call[u].hash) : k \in 1 .. Len(MdLines)
  BY <1>1, <1>2, HereAmong
<1>4. idx_lbuf \in 1 .. Len(MdLines) /\ idx_lbuf \notin 1 .. idx_lbuf - 1
  BY <1>2, <1>3
<1>5. ShownBy(u, got'[u], (1 .. idx_lbuf - 1) \union {idx_lbuf})
  BY <1>1, <1>2, <1>4, OneMoreLine
<1>6. \A k \in LinesOf(MdLines, call[u].hash) :
        k \in (1 .. idx_lbuf - 1) \union {idx_lbuf} <=> k \in 1 .. (idx_lbuf + 1) - 1
  BY <1>2, <1>3, <1>4
<1>7. ShownBy(u, got'[u], 1 .. (idx_lbuf + 1) - 1)
  BY <1>5, <1>6, SameLines
<1>8. idx_lbuf + 1 \in Nat /\ idx_lbuf + 1 > at[u]
  BY <1>2, <1>3, <1>4
<1> QED
  BY <1>1, <1>2, <1>7, <1>8, UpwardsShows

(* A line of another hash: those beyond it are of other hashes, too. *)
LEMMA OtherLine ==
  ASSUME NEW lines, NEW d, Indexes(lines, d), NEW h \in Hashes,
         NEW i \in LinesOf(lines, h), NEW j \in 1 .. Len(lines), lines[j].hash # h
  PROVE  \A k \in LinesOf(lines, h) : (j < i => j < k) /\ (j > i => j > k)
<1>1. /\ \A k \in 1 .. Len(lines) : lines[k].hash \in Nat
      /\ \A k, l \in 1 .. Len(lines) : k <= l => lines[k].hash <= lines[l].hash
  BY Ascending
<1> SUFFICES ASSUME NEW k \in LinesOf(lines, h) PROVE (j < i => j < k) /\ (j > i => j > k)
  OBVIOUS
<1>2. /\ i \in 1 .. Len(lines) /\ k \in 1 .. Len(lines)
      /\ lines[i].hash = h /\ lines[k].hash = h
  BY DEF LinesOf
<1> DEFINE g == lines[j].hash
<1>3. g \in Nat /\ h \in Nat /\ g # h
  BY <1>1, <1>2
<1>4. /\ j <= i => g <= h
      /\ i <= j => h <= g
      /\ k <= j => h <= g
      /\ j <= k => g <= h
  BY <1>1, <1>2
<1> HIDE DEF g
<1>5. i \in Int /\ j \in Int /\ k \in Int
  BY <1>2
<1> QED
  BY <1>3, <1>4, <1>5

LEMMA LastPreviousShows ==
  ASSUME ShownInv, LookupInv, NEW u \in Threads, ForMd5, LastPrevious(u)
  PROVE  Among(u) /\ Settled(u)
<1>1. /\ pc[u] = "previous" /\ pc[u] \in Searching /\ Upwards(u, at[u] + 1) /\ got' = got
      /\ LineRead.hash # call[u].hash
  BY DEF LastPrevious, Searching
<1>2. Among(u) /\ idx_lbuf \in low[u] .. at[u] - 1 /\ ShownBy(u, got[u], idx_lbuf + 1 .. at[u])
  BY <1>1 DEF ShownInv, ShowsSo, Backward, Shown
<1>3. /\ low[u] \in Nat /\ low[u] >= 1 /\ at[u] \in 1 .. Len(MdLines) /\ Len(MdLines) \in Nat
      /\ call[u].hash \in Hashes /\ Lines1 = MdLines /\ Indexes(MdLines, db)
      /\ \A k \in LinesOf(MdLines, call[u].hash) : k \in 1 .. Len(MdLines)
  BY <1>1, <1>2, HereAmong, HereInSearch DEF Among, Bracket
<1>4. idx_lbuf \in 1 .. Len(MdLines) /\ idx_lbuf < at[u]
  BY <1>2, <1>3
<1>5. MdLines[idx_lbuf].hash # call[u].hash /\ at[u] \in LinesOf(MdLines, call[u].hash)
  BY <1>1, <1>2, <1>3 DEF LineRead, Among
<1>6. \A k \in LinesOf(MdLines, call[u].hash) : idx_lbuf < k
  BY <1>3, <1>4, <1>5, OtherLine
<1>7. \A k \in LinesOf(MdLines, call[u].hash) :
        k \in idx_lbuf + 1 .. at[u] <=> k \in 1 .. (at[u] + 1) - 1
  <2> TAKE k \in LinesOf(MdLines, call[u].hash)
  <2>1. k \in Nat /\ 1 <= k /\ idx_lbuf < k /\ idx_lbuf \in Nat /\ at[u] \in Nat
    BY <1>3, <1>4, <1>6
  <2> QED
    BY <2>1
<1>8. ShownBy(u, got'[u], 1 .. (at[u] + 1) - 1)
  <2>1. ShownBy(u, got'[u], idx_lbuf + 1 .. at[u])
    BY <1>1, <1>2
  <2> QED
    BY <1>7, <2>1, SameLines
<1>9. at[u] + 1 \in Nat /\ at[u] + 1 > at[u]
  BY <1>3
<1> QED
  BY <1>1, <1>2, <1>8, <1>9, UpwardsShows

LEMMA LastFollowingShows ==
  ASSUME ShownInv, LookupInv, NEW u \in Threads, ForMd5, LastFollowing(u)
  PROVE  Among(u) /\ Settled(u)
<1>1. /\ pc[u] = "following" /\ pc[u] \in Searching /\ got' = got
      /\ LineRead.hash # call[u].hash /\ pc' = [pc EXCEPT ![u] = "idle"]
  BY DEF LastFollowing, Searching, Return, Goto
<1>2. Among(u) /\ idx_lbuf \in at[u] + 1 .. up[u] - 1 /\ ShownBy(u, got[u], 1 .. idx_lbuf - 1)
  BY <1>1 DEF ShownInv, ShowsSo, Forward, Shown
<1>3. /\ at[u] \in 1 .. Len(MdLines) /\ Len(MdLines) \in Nat
      /\ up[u] \in Nat /\ up[u] <= Len(MdLines) + 1
      /\ call[u].hash \in Hashes /\ Lines1 = MdLines /\ Indexes(MdLines, db)
      /\ \A k \in LinesOf(MdLines, call[u].hash) : k \in 1 .. Len(MdLines)
  BY <1>1, <1>2, HereAmong, HereInSearch
<1>4. idx_lbuf \in 1 .. Len(MdLines) /\ idx_lbuf > at[u]
  BY <1>2, <1>3
<1>5. MdLines[idx_lbuf].hash # call[u].hash /\ at[u] \in LinesOf(MdLines, call[u].hash)
  BY <1>1, <1>2, <1>3 DEF LineRead, Among
<1>6. \A k \in LinesOf(MdLines, call[u].hash) : idx_lbuf > k
  BY <1>3, <1>4, <1>5, OtherLine
<1>7. \A k \in LinesOf(MdLines, call[u].hash) :
        k \in 1 .. idx_lbuf - 1 <=> k \in 1 .. Len(MdLines)
  BY <1>3, <1>4, <1>6
<1>8. ShownBy(u, got'[u], 1 .. Len(MdLines))
  <2>1. ShownBy(u, got'[u], 1 .. idx_lbuf - 1)
    BY <1>1, <1>2
  <2> QED
    BY <1>7, <2>1, SameLines
<1>9. pc'[u] = "idle"
  BY <1>1 DEF LookupInv, TypesInv
<1> QED
  BY <1>2, <1>8, <1>9 DEF Settled, Beyond
-----------------------------------------------------------------------------
Showing(u) ==
  \/ ShowFound(u) \/ ShowPrevious(u) \/ LastPrevious(u) \/ ShowFollowing(u)
  \/ LastFollowing(u)

LEMMA ShowsSettled ==
  ASSUME ShownInv, LookupInv, NEW u \in Threads, ForMd5, Showing(u)
  PROVE  Among(u) /\ Settled(u)
BY FoundShows, PreviousShows, LastPreviousShows, FollowingShows, LastFollowingShows DEF Showing

LEMMA ShowingShown ==
  ASSUME ShownInv, LookupInv, NEW u \in Threads, Showing(u)
  PROVE  ShowsSo(u)'
<1>1. /\ UNCHANGED <<db, idx, hash_type, made, call, low, up, at>>
      /\ pc[u] \in Beyond \union {"compare"}
      /\ \E l \in Beyond \union {"idle"} : pc' = [pc EXCEPT ![u] = l]
  BY DEF Showing, ShowFound, ShowPrevious, LastPrevious, ShowFollowing, LastFollowing,
    otherThanShown, Downwards, Upwards, Return, Goto, disk, handle, maker, Beyond
<1>2. pc'[u] \in Beyond \union {"idle"}
  BY <1>1 DEF LookupInv, TypesInv
<1>3. call'[u].type = "md5"
  BY <1>1 DEF ShownInv, ShowsSo
<1>4. ASSUME ForMd5', pc'[u] \in Beyond
      PROVE  (pc'[u] = "previous" => Backward(u)') /\ (pc'[u] = "following" => Forward(u)')
  <2>1. ForMd5
    BY <1>1, <1>4 DEF ForMd5
  <2>2. Among(u) /\ Settled(u)
    BY <2>1, ShowsSettled
  <2>3. Among(u)' /\ MdLines' = MdLines
    BY <1>1, <2>2 DEF Among, MdLines
  <2>4. ASSUME NEW L, ShownBy(u, got'[u], L), call'[u].all PROVE Covers(db', MdLines', call'[u].hash, got'[u],
          {k \in LinesOf(MdLines', call'[u].hash) : k \in L})
    BY <1>1, <2>3, <2>4 DEF ShownBy
  <2>5. ASSUME pc'[u] = "previous" PROVE Backward(u)'
    BY <1>1, <2>2, <2>3, <2>4, <2>5 DEF Settled, Backward, Shown, ShownBy
  <2>6. ASSUME pc'[u] = "following" PROVE Forward(u)'
    BY <1>1, <2>2, <2>3, <2>4, <2>6 DEF Settled, Forward, Shown, ShownBy
  <2> QED
    BY <2>5, <2>6
<1> QED
  BY <1>2, <1>3, <1>4 DEF ShowsSo, Beyond, Early

LEMMA ShownStep == ShownInv /\ LookupInv /\ [Next]_vars => ShownInv'
<1> SUFFICES ASSUME ShownInv, LookupInv, [Next]_vars PROVE ShownInv'
  OBVIOUS
<1>1. ASSUME NEW u \in Threads, Lookup(u) \/ Step(u) PROVE ShownInv'
  <2>1. CASE Restart
    BY <2>1, QuietShown
  <2>2. CASE ~Restart
    <3>1. Apart(u)
      BY <1>1, <2>2, ApartStep
    <3>2. ASSUME pc' = [pc EXCEPT ![u] = "idle"] PROVE ShowsSo(u)'
      <4>1. pc'[u] = "idle"
        BY <3>2 DEF LookupInv, TypesInv
      <4> QED
        BY <4>1 DEF ShowsSo, Early, Beyond
    <3>3. ASSUME \/ OpenRefused(u) \/ OtherType(u) \/ NoSuchPrefix(u) \/ NotThere(u)
                 \/ PastEndOfFile(u) \/ FoundQuick(u) \/ ShowFails(u)
          PROVE  pc' = [pc EXCEPT ![u] = "idle"]
      BY <3>3 DEF OpenRefused, OtherType, NoSuchPrefix, NotThere, PastEndOfFile, FoundQuick,
        ShowFails, Return, Goto
    <3>4. ~ReadWithoutBuffer(u)
      BY <2>2 DEF ReadWithoutBuffer
    <3>5. ASSUME \/ Lookup(u) \/ OpenLock(u) \/ AlreadyOpen(u) \/ OpenMissing(u) \/ OpenBad(u)
                 \/ OpenIndex(u) \/ WholeFile(u) \/ OwnPrefix(u) \/ SearchLock(u) \/ Narrow(u)
          PROVE  ShowsSo(u)'
      BY <3>5, EarlyShown
    <3>6. ASSUME Probe(u) \/ Showing(u) PROVE ShowsSo(u)'
      BY <3>6, ProbeShown, ShowingShown
    <3>7. ShowsSo(u)'
      BY <1>1, <3>2, <3>3, <3>4, <3>5, <3>6 DEF Step, Showing
    <3> QED
      BY <3>1, <3>7, ShownOthers
  <2> QED
    BY <2>1, <2>2
<1>2. CASE UNCHANGED vars
  <2>1. /\ UNCHANGED <<db, idx, made, hash_type, idx_lbuf, got, pc, call, low, up, at>>
    BY <1>2 DEF vars, disk, handle, locals, maker
  <2> QED
    BY <2>1 DEF ShownInv, ShowsSo, ForMd5, Backward, Forward, Among, Shown, ShownBy, MdLines
<1> QED
  BY <1>1, <1>2, QuietShown DEF Next, Crash

THEOREM ShownInvariance == Spec => []ShownInv
BY ShownInvInit, ShownStep, LookupInvariance, PTL DEF Spec

(* A lookup that answers 1 (hdb_binsrch_lookup_str) has called a callback  *)
(* that always goes on once for every row that has the hash                *)
(* (md5sum_getentry), however many threads share the buffer meanwhile.     *)
THEOREM EveryRowIsShown == Spec => EveryRowShown
<1> DEFINE AllRows(t) ==
      Answers(t, 1) /\ ~call[t].quick /\ call[t].all /\ call[t].hash # 0 /\ made =>
         LET rows == RowsOf(call[t].hash) IN
         /\ {got'[t][i] : i \in DOMAIN got'[t]} = rows
         /\ Len(got'[t]) = Cardinality(rows)
<1>1. ShownInv /\ LookupInv /\ [Next]_vars => [\A t \in Threads : AllRows(t)]_vars
  <2> SUFFICES ASSUME ShownInv, LookupInv, [Next]_vars, NEW t \in Threads,
                      Answers(t, 1), ~call[t].quick, call[t].all, call[t].hash # 0, made
               PROVE  LET rows == RowsOf(call[t].hash) IN
                      /\ {got'[t][i] : i \in DOMAIN got'[t]} = rows
                      /\ Len(got'[t]) = Cardinality(rows)
    OBVIOUS
  <2>1. Showing(t)
    BY AnswerIs DEF AnswersYes, FoundQuick, Showing
  <2>2. pc[t] \in Beyond \union {"compare"} /\ pc[t] \in Searching
    BY <2>1 DEF Showing, ShowFound, ShowPrevious, LastPrevious, ShowFollowing, LastFollowing,
      Searching, Beyond
  <2>3. call[t].type = "md5" /\ call[t].type = hash_type
    BY <2>2, Here DEF OwnType, ShownInv, ShowsSo
  <2>4. ForMd5
    BY <2>3 DEF ForMd5
  <2>5. ShownBy(t, got'[t], 1 .. Len(MdLines))
    BY <2>1, <2>4, ShowsSettled DEF Settled, Answers
  <2> DEFINE h == call[t].hash
  <2>6. /\ db \in Seq(Hashes \union {Junk}) /\ Indexes(MdLines, db) /\ h \in Hashes
    BY <2>2, <2>4, HereInSearch, DatabaseAssumption DEF LookupInv, TypesInv
  <2>7. Covers(db, MdLines, h, got'[t], LinesOf(MdLines, h))
    <3>1. {k \in LinesOf(MdLines, h) : k \in 1 .. Len(MdLines)} = LinesOf(MdLines, h)
      BY DEF LinesOf
    <3> QED
      BY <2>5, <3>1 DEF ShownBy
  <2> HIDE DEF h
  <2>8. h # 0
    BY DEF h
  <2> DEFINE g == got'[t]
  <2> HIDE DEF g
  <2>9. {g[i] : i \in DOMAIN g} = RowsWith(db, h) /\ Len(g) = Cardinality(RowsWith(db, h))
    <3>1. Covers(db, MdLines, h, g, LinesOf(MdLines, h))
      BY <2>7 DEF g
    <3> QED
      BY <2>6, <2>8, <3>1, CoversAll, Zenon
  <2>10. RowsOf(call[t].hash) = RowsWith(db, h)
    BY DEF RowsOf, RowsWith, h
  <2> QED
    BY <2>9, <2>10 DEF g
<1> QED
  BY <1>1, ShownInvariance, LookupInvariance, PTL DEF Spec, EveryRowShown
=============================================================================
