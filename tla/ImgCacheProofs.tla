--------------------------- MODULE ImgCacheProofs ---------------------------
(* For every number of threads and every image and cache size, a read that *)
(* returns data returns the image's bytes (ImgCache!ReadCorrect), and the   *)
(* cache replaces the least recently used entry (ImgCacheLru).             *)
EXTENDS ImgCacheLru, FiniteSetTheorems, SequenceTheorems, TLAPS

-----------------------------------------------------------------------------
(* Rounding an offset down to a sector never moves it forward, nor back by *)
(* a sector or more (img_io.c:75 and 179).                                 *)
LEMMA SectorStartBounds ==
  ASSUME NEW off \in Nat
  PROVE  /\ off % Sector \in 0 .. Sector - 1
         /\ SectorStart(off) \in Nat
         /\ SectorStart(off) <= off
         /\ off = SectorStart(off) + (off % Sector)
  BY SizeAssumption DEF SectorStart

(* A result without data has the type of a result. *)
LEMMA ErrorType ==
  ASSUME NEW n \in Int, n <= 0
  PROVE  /\ Error(n) = [n |-> Error(n).n, data |-> Error(n).data]
         /\ Error(n).n = n
         /\ Error(n).data \in [0 .. Error(n).n - 1 -> Bytes]
<1>1. 0 .. n - 1 = {} /\ 1 .. 0 = {}
  OBVIOUS
<1>2. <<>> = [i \in 1 .. 0 |-> i]
  OBVIOUS
<1>3. <<>> \in [0 .. n - 1 -> Bytes]
  BY <1>1, <1>2
<1> QED
  BY <1>3 DEF Error

(* Storing a result of the right type keeps the type of all results. *)
LEMMA StoreResult ==
  ASSUME ResultTypeOK, NEW t \in Threads, NEW r,
         r = [n |-> r.n, data |-> r.data],
         r.n \in Int, r.data \in [0 .. r.n - 1 -> Bytes],
         ret' = [ret EXCEPT ![t] = r],
         io' \in [Threads -> [off : Nat, len : Nat, n : Int]]
  PROVE  ResultTypeOK'
<1>1. \A u \in Threads : ret'[u] = IF u = t THEN r ELSE ret[u]
  BY DEF ResultTypeOK
<1>2. \A u \in Threads :
        ret'[u].n \in Int /\ ret'[u].data \in [0 .. ret'[u].n - 1 -> Bytes]
  BY <1>1 DEF ResultTypeOK
<1>3. ret' = [u \in Threads |-> [n |-> ret'[u].n, data |-> ret'[u].data]]
  BY <1>1 DEF ResultTypeOK
<1> QED
  BY <1>2, <1>3 DEF ResultTypeOK

(* The initial state satisfies the inductive invariant. *)
LEMMA InitIInv == Init => IInv
<1> SUFFICES ASSUME Init PROVE IInv
  OBVIOUS
<1>1. CacheTypeOK
  BY SizeAssumption DEF Init, CacheTypeOK, Slots, Bytes, Zero
<1>2. CallTypeOK
  BY SizeAssumption DEF Init, CallTypeOK, Slots, Requests
<1>3. ResultTypeOK
  <2>1. \A t \in Threads : ret[t] = Error(0)
    BY DEF Init
  <2>2. ret = [t \in Threads |-> [n |-> ret[t].n, data |-> ret[t].data]]
    BY <2>1 DEF Init, Error
  <2> QED
    BY <2>1, <2>2, ErrorType DEF Init, ResultTypeOK, NotAsked, Asked
<1>4. LockOwned /\ LoadingForRequest /\ CacheCoherent /\ AnswersRight
  BY ThreadsAssumption
     DEF Init, LockOwned, InCriticalSection, LoadingForRequest, CacheCoherent,
         AnswersRight, Error
<1> QED
  BY <1>1, <1>2, <1>3, <1>4 DEF IInv, TypeOK

(* Only the lock's owner is in the part of tsk_img_read that it guards, so *)
(* the owner sees no entry that another thread is filling.                 *)
LEMMA OwnerAlone ==
  ASSUME LockOwned, NEW t \in Threads, InCriticalSection(t),
         NEW u \in Threads, InCriticalSection(u)
  PROVE  u = t
  BY DEF LockOwned

(* Starting a call, or having one refused, touches nothing shared. *)
LEMMA CallKeepsIInv ==
  ASSUME IInv, NEW t \in Threads, RejectArgs(t) \/ Call(t)
  PROVE  IInv'
<1> USE DEF cacheVars
<1>1. PICK off \in Offsets, len \in Lengths :
        /\ req' = [req EXCEPT ![t] = [off |-> off, len |-> len]]
        /\ off < 0 => pc' = pc
  BY RequestAssumption DEF RejectArgs, Call
<1>2. off \in Int /\ len \in Nat
  BY <1>1, RequestAssumption
<1>3. PICK n \in {0, -1} : ret' = [ret EXCEPT ![t] = Error(n)]
  BY DEF RejectArgs, Call
<1>4. /\ UNCHANGED <<lock, cacheVars, next>>
      /\ pc' \in {pc, [pc EXCEPT ![t] = "wait"]}
      /\ pc[t] = "idle"
      /\ calls' = calls + 1
      /\ io' = [io EXCEPT ![t] = NotAsked]
  BY DEF RejectArgs, Call
<1>5. CacheTypeOK'
  BY <1>4 DEF IInv, TypeOK, CacheTypeOK
<1>6. CallTypeOK'
  BY <1>1, <1>2, <1>4 DEF IInv, TypeOK, CallTypeOK, Requests
<1>7. ResultTypeOK'
  <2>1. io' \in [Threads -> [off : Nat, len : Nat, n : Int]]
    BY <1>4 DEF IInv, TypeOK, ResultTypeOK, NotAsked, Asked
  <2>2. n \in Int /\ n <= 0
    OBVIOUS
  <2>3. /\ Error(n) = [n |-> Error(n).n, data |-> Error(n).data]
        /\ Error(n).n \in Int
        /\ Error(n).data \in [0 .. Error(n).n - 1 -> Bytes]
    BY <2>2, ErrorType
  <2> QED
    BY <1>3, <2>1, <2>3, StoreResult DEF IInv, TypeOK
<1>8. LockOwned'
  BY <1>4 DEF IInv, LockOwned, InCriticalSection, TypeOK, CallTypeOK
<1>9. LoadingForRequest'
  BY <1>1, <1>2, <1>4
     DEF IInv, LoadingForRequest, TypeOK, CallTypeOK, SectorStart
<1>10. CacheCoherent'
  BY <1>4 DEF IInv, CacheCoherent, BeingFilled, TypeOK, CallTypeOK
<1>11. AnswersRight'
  <2>1. ret'[t].n = n
    <3>1. ret'[t] = Error(n)
      BY <1>3 DEF IInv, TypeOK, ResultTypeOK
    <3> QED
      BY <3>1, ErrorType
  <2>2. \A u \in Threads \ {t} :
          ret'[u] = ret[u] /\ io'[u] = io[u] /\ req'[u] = req[u]
    BY <1>1, <1>3, <1>4 DEF IInv, TypeOK, ResultTypeOK, CallTypeOK
  <2>3. ret'[t].n \in Int
    BY <1>7 DEF ResultTypeOK
  <2> QED
    BY <2>1, <2>2, <2>3 DEF IInv, AnswersRight, NotAsked
<1> QED
  BY <1>5, <1>6, <1>7, <1>8, <1>9, <1>10, <1>11 DEF IInv, TypeOK

(* Neither taking nor releasing the lock touches the cache or an answer. *)
LEMMA LockKeepsIInv ==
  ASSUME IInv, NEW t \in Threads, TakeLock(t) \/ Unlock(t)
  PROVE  IInv'
<1>1. /\ UNCHANGED <<cacheVars, req, next, io, ret, calls>>
      /\ \/ pc[t] = "wait" /\ pc' = [pc EXCEPT ![t] = "locked"]
            /\ lock = NoThread /\ lock' = t
         \/ pc[t] = "unlock" /\ pc' = [pc EXCEPT ![t] = "idle"]
            /\ lock' = NoThread
  BY DEF TakeLock, Acquire, Unlock, cacheVars
<1>2. TypeOK'
  BY <1>1 DEF IInv, TypeOK, CacheTypeOK, CallTypeOK, ResultTypeOK, cacheVars
<1>3. LockOwned'
  BY <1>1, ThreadsAssumption
     DEF IInv, LockOwned, InCriticalSection, TypeOK, CallTypeOK
<1>4. LoadingForRequest'
  BY <1>1 DEF IInv, LoadingForRequest, TypeOK, CallTypeOK, SectorStart, cacheVars
<1>5. CacheCoherent'
  BY <1>1 DEF IInv, CacheCoherent, BeingFilled, TypeOK, CallTypeOK, cacheVars
<1>6. AnswersRight'
  BY <1>1 DEF IInv, AnswersRight
<1> QED
  BY <1>2, <1>3, <1>4, <1>5, <1>6 DEF IInv

(* A result that is right when it is stored makes all answers right. *)
LEMMA StoreAnswer ==
  ASSUME AnswersRight, ResultTypeOK, NEW t \in Threads, NEW r,
         ret' = [ret EXCEPT ![t] = r], req' = req,
         NEW a, io' = [io EXCEPT ![t] = a],
         r.n > 0 /\ (a = NotAsked \/ a.n > 0) =>
           /\ r.n <= req[t].len
           /\ \A i \in 0 .. r.n - 1 : r.data[i] = req[t].off + i
  PROVE  AnswersRight'
<1>1. ret'[t] = r /\ io'[t] = a
  BY DEF ResultTypeOK
<1>2. \A u \in Threads \ {t} : ret'[u] = ret[u] /\ io'[u] = io[u]
  BY DEF ResultTypeOK
<1> QED
  BY <1>1, <1>2 DEF AnswersRight, NotAsked, Asked

(* A step that leaves the cache's contents alone and returns a right answer *)
LEMMA ReturnKeepsIInv ==
  ASSUME IInv, NEW t \in Threads, pc[t] = "locked",
         UNCHANGED <<lock, cache, cache_off, cache_len, req, next, calls>>,
         cache_age' \in [Slots -> Int],
         NEW r, Return(t, r), r = [n |-> r.n, data |-> r.data],
         r.n \in Int, r.data \in [0 .. r.n - 1 -> Bytes],
         NEW a \in [off : Nat, len : Nat, n : Int],
         io' = [io EXCEPT ![t] = a],
         r.n > 0 /\ (a = NotAsked \/ a.n > 0) =>
           /\ r.n <= req[t].len
           /\ \A i \in 0 .. r.n - 1 : r.data[i] = req[t].off + i
  PROVE  IInv'
<1>1. ret' = [ret EXCEPT ![t] = r] /\ pc' = [pc EXCEPT ![t] = "unlock"]
  BY DEF Return
<1>2. CacheTypeOK' /\ CallTypeOK'
  BY <1>1 DEF IInv, TypeOK, CacheTypeOK, CallTypeOK
<1>3. LockOwned'
  BY <1>1 DEF IInv, LockOwned, InCriticalSection, TypeOK, CallTypeOK
<1>4. LoadingForRequest'
  BY <1>1 DEF IInv, LoadingForRequest, TypeOK, CallTypeOK, SectorStart
<1>5. CacheCoherent'
  BY <1>1 DEF IInv, CacheCoherent, BeingFilled, TypeOK, CallTypeOK
<1>6. ResultTypeOK'
  <2>1. io' \in [Threads -> [off : Nat, len : Nat, n : Int]]
    BY DEF IInv, TypeOK, ResultTypeOK
  <2> QED
    BY <1>1, <2>1, StoreResult DEF IInv, TypeOK
<1>7. AnswersRight'
  BY <1>1, StoreAnswer DEF IInv, TypeOK
<1> QED
  BY <1>2, <1>3, <1>4, <1>5, <1>6, <1>7 DEF IInv, TypeOK

(* The length handed to the format's read function for a bounced read *)
LEMMA RoundUpBounds ==
  ASSUME NEW len \in Nat
  PROVE  RoundUp(len) \in Nat /\ RoundUp(len) >= len
<1>1. len % SectorSize \in 0 .. SectorSize - 1
  BY SizeAssumption
<1> QED
  BY <1>1, SizeAssumption DEF RoundUp

(* The arguments of a running call *)
LEMMA RequestType ==
  ASSUME IInv, NEW t \in Threads, pc[t] # "idle"
  PROVE  req[t].off \in Nat /\ req[t].len \in Nat
  BY DEF IInv, LoadingForRequest, TypeOK, CallTypeOK, Requests

(* A large read of whole sectors passes the format's answer on. *)
LEMMA BigReadAlignedKeepsIInv ==
  ASSUME IInv, NEW t \in Threads, BigReadAligned(t)
  PROVE  IInv'
<1> DEFINE q == req[t]
<1>1. q.off \in Nat /\ q.len \in Nat
  BY RequestType DEF BigReadAligned
<1>2. PICK n \in Answers(q.off, q.len) :
        /\ io' = [io EXCEPT ![t] = Asked(q.off, q.len, n)]
        /\ Return(t, [n |-> n, data |-> [i \in 0 .. n - 1 |-> q.off + i]])
  BY DEF BigReadAligned
<1>3. n \in Int /\ n <= q.len
  BY <1>1 DEF Answers
<1> DEFINE data == [i \in 0 .. n - 1 |-> q.off + i]
           r == [n |-> n, data |-> data]
<1>4. data \in [0 .. n - 1 -> Bytes] /\ \A i \in 0 .. n - 1 : data[i] = q.off + i
  BY <1>1, <1>3 DEF Bytes
<1>5. Return(t, r)
  BY <1>2
<1>6. Asked(q.off, q.len, n) \in [off : Nat, len : Nat, n : Int]
  BY <1>1, <1>3 DEF Asked
<1> HIDE DEF data
<1>7. r = [n |-> r.n, data |-> r.data] /\ r.n = n /\ r.data = data
  OBVIOUS
<1>8. /\ pc[t] = "locked" /\ cache_age' \in [Slots -> Int]
      /\ UNCHANGED <<lock, cache, cache_off, cache_len, req, next, calls>>
  BY DEF BigReadAligned, cacheVars, IInv, TypeOK, CacheTypeOK
<1> HIDE DEF r
<1> QED
  BY <1>2, <1>3, <1>4, <1>5, <1>6, <1>7, <1>8, ReturnKeepsIInv

(* A large read of part of a sector: when the format delivered something,  *)
(* what is copied from the temporary buffer is the image's.                *)
LEMMA BigReadBounceKeepsIInv ==
  ASSUME IInv, NEW t \in Threads, BigReadBounce(t)
  PROVE  IInv'
<1> DEFINE q == req[t]
           len == RoundUp(q.len)
<1>1. q.off \in Nat /\ q.len \in Nat /\ q.len > 0
  BY RequestType, SizeAssumption DEF BigReadBounce
<1>2. len \in Nat /\ len >= q.len
  BY <1>1, RoundUpBounds
<1>3. PICK n, k :
        /\ n \in Answers(q.off, len)
        /\ k \in Delivered(n, q.off, len)
        /\ io' = [io EXCEPT ![t] = Asked(q.off, len, n)]
        /\ Return(t, BounceAnswer(q, n, k))
  BY DEF BigReadBounce
<1> HIDE DEF len
<1>4. n \in Int /\ k \in Nat /\ (n > 0 => k = n)
  BY <1>2, <1>3 DEF Answers, Delivered
<1> DEFINE got == IF n > 0 /\ n < q.len THEN n ELSE q.len
           data == [i \in 0 .. got - 1 |-> IF i < k THEN q.off + i ELSE Zero]
           r == [n |-> got, data |-> data]
<1>5. got \in Nat /\ got <= q.len /\ (n > 0 => got <= k)
  BY <1>1, <1>4
<1>6. Return(t, r)
  BY <1>3 DEF BounceAnswer
<1>7. /\ data \in [0 .. got - 1 -> Bytes]
      /\ n > 0 => \A i \in 0 .. got - 1 : data[i] = q.off + i
  BY <1>1, <1>4, <1>5 DEF Bytes
<1>8. Asked(q.off, len, n) \in [off : Nat, len : Nat, n : Int]
  BY <1>1, <1>2, <1>4 DEF Asked
<1>9. Asked(q.off, len, n) # NotAsked /\ Asked(q.off, len, n).n = n
  BY <1>1, <1>2 DEF Asked, NotAsked
<1> HIDE DEF got, data
<1>10. r = [n |-> r.n, data |-> r.data] /\ r.n = got /\ r.data = data
  OBVIOUS
<1>11. /\ pc[t] = "locked" /\ cache_age' \in [Slots -> Int]
       /\ UNCHANGED <<lock, cache, cache_off, cache_len, req, next, calls>>
  BY DEF BigReadBounce, cacheVars, IInv, TypeOK, CacheTypeOK
<1> HIDE DEF r
<1> DEFINE a == Asked(q.off, len, n)
<1>12. r.n > 0 /\ (a = NotAsked \/ a.n > 0) =>
         /\ r.n <= req[t].len
         /\ \A i \in 0 .. r.n - 1 : r.data[i] = req[t].off + i
  BY <1>5, <1>7, <1>9, <1>10
<1>13. r.n \in Int /\ r.data \in [0 .. r.n - 1 -> Bytes]
  BY <1>5, <1>7, <1>10
<1>14. io' = [io EXCEPT ![t] = a]
  BY <1>3
<1> HIDE DEF a
<1> QED
  BY <1>6, <1>8, <1>10, <1>11, <1>12, <1>13, <1>14, ReturnKeepsIInv DEF a

(* An error return before the format's read function is asked *)
LEMMA EarlyErrorKeepsIInv ==
  ASSUME IInv, NEW t \in Threads, BigReadNoMemory(t) \/ PastEnd(t)
  PROVE  IInv'
<1>1. /\ pc[t] = "locked" /\ cache_age' \in [Slots -> Int]
      /\ UNCHANGED <<lock, cache, cache_off, cache_len, req, next, calls>>
      /\ Return(t, Error(-1))
  BY DEF BigReadNoMemory, PastEnd, cacheVars, IInv, TypeOK, CacheTypeOK
<1>2. /\ io[t] \in [off : Nat, len : Nat, n : Int]
      /\ io' = [io EXCEPT ![t] = io[t]]
  BY DEF BigReadNoMemory, PastEnd, IInv, TypeOK, ResultTypeOK
<1>3. /\ Error(-1) = [n |-> Error(-1).n, data |-> Error(-1).data]
      /\ Error(-1).n = -1
      /\ Error(-1).data \in [0 .. Error(-1).n - 1 -> Bytes]
  BY ErrorType
<1> DEFINE r == Error(-1)
<1>4. r.n \in Int /\ ~(r.n > 0)
  BY <1>3
<1> HIDE DEF r
<1> QED
  BY <1>1, <1>2, <1>3, <1>4, ReturnKeepsIInv DEF r

(* The first k bytes of a buffer are the image's from off on. *)
HoldsImage(buf, off, k) == \A i \in 0 .. k - 1 : buf[i] = off + i

(* Copying out of a buffer that holds k bytes of the image from off on *)
LEMMA CopyRight ==
  ASSUME NEW buf \in [0 .. CacheLen - 1 -> Bytes], NEW off \in Nat,
         NEW k \in 0 .. CacheLen, HoldsImage(buf, off, k),
         NEW from \in Nat, NEW n \in Nat, from + n <= k
  PROVE  /\ Copy(buf, from, n) \in [0 .. n - 1 -> Bytes]
         /\ HoldsImage(Copy(buf, from, n), off + from, n)
<1>1. \A i \in 0 .. n - 1 : from + i \in 0 .. k - 1 /\ from + i \in 0 .. CacheLen - 1
  BY SizeAssumption
<1>2. \A i \in 0 .. n - 1 : buf[from + i] = off + from + i
  BY <1>1 DEF HoldsImage
<1>3. Copy(buf, from, n) = [i \in 0 .. n - 1 |-> buf[from + i]]
  BY <1>1 DEF Copy
<1> QED
  BY <1>2, <1>3 DEF Bytes, HoldsImage

(* The scan leaves every age an integer. *)
LEMMA AgedType ==
  ASSUME CacheTypeOK, NEW q
  PROVE  Aged(q) \in [Slots -> Int]
<1>1. \A s \in Slots :
        (CASE cache_len[s] = 0 -> cache_age[s]
           [] Hit(s, q)        -> CacheAge
           [] OTHER            -> cache_age[s] - 1) \in Int
  <2> SUFFICES ASSUME NEW s \in Slots
               PROVE (CASE cache_len[s] = 0 -> cache_age[s]
                        [] Hit(s, q)        -> CacheAge
                        [] OTHER            -> cache_age[s] - 1) \in Int
    OBVIOUS
  <2>1. cache_len[s] = 0 => ~Hit(s, q)
    BY DEF Hit, Holds
  <2> QED
    BY <2>1, SizeAssumption DEF CacheTypeOK
<1> QED
  BY <1>1 DEF Aged

(* The length that is left of a request that starts inside the image *)
LEMMA ClippedBounds ==
  ASSUME NEW q, q.off \in Nat, q.len \in Nat, q.off < ImgSize
  PROVE  Clipped(q) \in Nat /\ Clipped(q) <= q.len /\ q.off + Clipped(q) <= ImgSize
  BY SizeAssumption DEF Clipped, Minimum

(* A hit copies from an entry that holds the image's bytes. *)
LEMMA LookupHitKeepsIInv ==
  ASSUME IInv, NEW t \in Threads, LookupHit(t)
  PROVE  IInv'
<1> DEFINE q == req[t]
           m == Clipped(q)
<1>1. q.off \in Nat /\ q.len \in Nat
  BY RequestType DEF LookupHit
<1>2. m \in Nat /\ m <= q.len
  BY <1>1, ClippedBounds DEF LookupHit
<1>3. PICK s \in Slots :
        /\ Hit(s, q)
        /\ Return(t, [n |-> m, data |-> Copy(cache[s], q.off - cache_off[s], m)])
  BY DEF LookupHit
<1> HIDE DEF m
<1>4. ~BeingFilled(s)
  BY OwnerAlone DEF LookupHit, BeingFilled, InCriticalSection, IInv
<1>5. /\ cache[s] \in [0 .. CacheLen - 1 -> Bytes] /\ cache_off[s] \in Nat
      /\ cache_len[s] \in 0 .. CacheLen
      /\ \A i \in 0 .. cache_len[s] - 1 : cache[s][i] = cache_off[s] + i
  BY <1>3, <1>4 DEF IInv, TypeOK, CacheTypeOK, CacheCoherent, Hit, Holds
<1> DEFINE from == q.off - cache_off[s]
           data == Copy(cache[s], from, m)
           r == [n |-> m, data |-> data]
<1>6. from \in Nat /\ from + m <= cache_len[s] /\ cache_off[s] + from = q.off
  BY <1>1, <1>2, <1>3, <1>5 DEF Hit, Holds, m
<1>7. /\ data \in [0 .. m - 1 -> Bytes]
      /\ \A i \in 0 .. m - 1 : data[i] = q.off + i
  <2> DEFINE buf == cache[s]
             off == cache_off[s]
             k == cache_len[s]
  <2>1. /\ buf \in [0 .. CacheLen - 1 -> Bytes] /\ off \in Nat
        /\ k \in 0 .. CacheLen /\ HoldsImage(buf, off, k)
    BY <1>5 DEF HoldsImage
  <2>2. from \in Nat /\ m \in Nat /\ from + m <= k /\ off + from = q.off
    BY <1>2, <1>6
  <2> HIDE DEF buf, off, k, from
  <2>3. /\ Copy(buf, from, m) \in [0 .. m - 1 -> Bytes]
        /\ HoldsImage(Copy(buf, from, m), off + from, m)
    BY <2>1, <2>2, CopyRight
  <2> QED
    BY <2>2, <2>3 DEF buf, HoldsImage
<1>8. Return(t, r)
  BY <1>3
<1>9. /\ pc[t] = "locked" /\ cache_age' \in [Slots -> Int]
      /\ UNCHANGED <<lock, cache, cache_off, cache_len, req, next, calls>>
  BY AgedType DEF LookupHit, IInv, TypeOK
<1>10. /\ io[t] \in [off : Nat, len : Nat, n : Int]
       /\ io' = [io EXCEPT ![t] = io[t]]
  BY DEF LookupHit, IInv, TypeOK, ResultTypeOK
<1> HIDE DEF data
<1>11. r = [n |-> r.n, data |-> r.data] /\ r.n = m /\ r.data = data
  OBVIOUS
<1>12. r.n \in Int /\ r.data \in [0 .. r.n - 1 -> Bytes]
  BY <1>2, <1>7, <1>11
<1>13. /\ r.n <= req[t].len
       /\ \A i \in 0 .. r.n - 1 : r.data[i] = req[t].off + i
  BY <1>2, <1>7, <1>11
<1> HIDE DEF r
<1> QED
  BY <1>8, <1>9, <1>10, <1>11, <1>12, <1>13, ReturnKeepsIInv

(* A miss moves the victim's offset: from here on it is being filled. *)
LEMMA LookupMissKeepsIInv ==
  ASSUME IInv, NEW t \in Threads, LookupMiss(t)
  PROVE  IInv'
<1> DEFINE q == req[t]
<1>1. q.off \in Nat /\ q.len \in Nat /\ q.off < ImgSize
  BY RequestType DEF LookupMiss
<1>2. SectorStart(q.off) \in Nat
  BY <1>1, SectorStartBounds
<1>3. PICK v \in Slots :
        /\ next' = [next EXCEPT ![t] = v]
        /\ cache_off' = [cache_off EXCEPT ![v] = SectorStart(q.off)]
  BY DEF LookupMiss
<1>4. /\ pc[t] = "locked" /\ pc' = [pc EXCEPT ![t] = "load"]
      /\ cache_age' = Aged(q)
      /\ UNCHANGED <<lock, cache, cache_len, req, io, ret, calls>>
  BY DEF LookupMiss
<1>5. \A u \in Threads : pc[u] # "load"
  BY <1>4, OwnerAlone DEF IInv, InCriticalSection
<1>6. CacheTypeOK'
  BY <1>2, <1>3, <1>4, AgedType DEF IInv, TypeOK, CacheTypeOK
<1>7. CallTypeOK' /\ ResultTypeOK'
  BY <1>3, <1>4 DEF IInv, TypeOK, CallTypeOK, ResultTypeOK
<1>8. LockOwned'
  BY <1>4 DEF IInv, LockOwned, InCriticalSection, TypeOK, CallTypeOK
<1>9. LoadingForRequest'
  <2>1. next'[t] = v /\ cache_off'[v] = SectorStart(q.off)
    BY <1>3 DEF IInv, TypeOK, CallTypeOK, CacheTypeOK
  <2>2. \A u \in Threads : pc'[u] = IF u = t THEN "load" ELSE pc[u]
    BY <1>4 DEF IInv, TypeOK, CallTypeOK
  <2>3. \A u \in Threads : SectorStart(req[u].off)' = SectorStart(req[u].off)
    BY <1>4 DEF SectorStart
  <2> QED
    BY <1>1, <1>4, <1>5, <2>1, <2>2, <2>3 DEF IInv, LoadingForRequest
<1>10. CacheCoherent'
  <2>1. BeingFilled(v)'
    BY <1>3, <1>4 DEF BeingFilled, IInv, TypeOK, CallTypeOK
  <2>2. \A s \in Slots \ {v} : cache_off'[s] = cache_off[s]
    BY <1>3 DEF IInv, TypeOK, CacheTypeOK
  <2>3. \A s \in Slots : ~BeingFilled(s)
    BY <1>5 DEF BeingFilled
  <2> QED
    BY <1>4, <2>1, <2>2, <2>3 DEF IInv, CacheCoherent
<1>11. AnswersRight'
  BY <1>4 DEF IInv, AnswersRight
<1> QED
  BY <1>6, <1>7, <1>8, <1>9, <1>10, <1>11 DEF IInv, TypeOK

(* What the format's read function has put into a cache entry *)
LEMMA FilledRight ==
  ASSUME NEW buf \in [0 .. CacheLen - 1 -> Bytes], NEW off \in Nat, NEW k \in Nat
  PROVE  /\ Filled(buf, off, k) \in [0 .. CacheLen - 1 -> Bytes]
         /\ k <= CacheLen =>
              \A i \in 0 .. k - 1 : Filled(buf, off, k)[i] = off + i
  BY SizeAssumption DEF Filled, Bytes

(* A step that ends a load: the entry it filled holds k bytes of the image *)
(* from off on (none if the read failed), and the answer is right.         *)
LEMMA LoadKeepsIInv ==
  ASSUME IInv, NEW t \in Threads, pc[t] = "load",
         UNCHANGED <<lock, req, next, calls>>,
         NEW buf \in [0 .. CacheLen - 1 -> Bytes], NEW off \in Nat,
         NEW k \in 0 .. CacheLen, NEW age \in Int,
         \A i \in 0 .. k - 1 : buf[i] = off + i,
         k > 0 => off + k <= ImgSize,
         cache' = [cache EXCEPT ![next[t]] = buf],
         cache_off' = [cache_off EXCEPT ![next[t]] = off],
         cache_len' = [cache_len EXCEPT ![next[t]] = k],
         cache_age' = [cache_age EXCEPT ![next[t]] = age],
         NEW r, Return(t, r), r = [n |-> r.n, data |-> r.data],
         r.n \in Int, r.data \in [0 .. r.n - 1 -> Bytes],
         NEW a \in [off : Nat, len : Nat, n : Int],
         io' = [io EXCEPT ![t] = a],
         r.n > 0 /\ (a = NotAsked \/ a.n > 0) =>
           /\ r.n <= req[t].len
           /\ \A i \in 0 .. r.n - 1 : r.data[i] = req[t].off + i
  PROVE  IInv'
<1> DEFINE v == next[t]
<1>1. ret' = [ret EXCEPT ![t] = r] /\ pc' = [pc EXCEPT ![t] = "unlock"]
  BY DEF Return
<1>2. v \in Slots
  BY DEF IInv, TypeOK, CallTypeOK
<1>3. \A u \in Threads \ {t} : pc[u] # "load"
  BY OwnerAlone DEF IInv, InCriticalSection
<1>4. \A u \in Threads : pc'[u] # "load"
  BY <1>1, <1>3 DEF IInv, TypeOK, CallTypeOK
<1>5. CacheTypeOK' /\ CallTypeOK'
  BY <1>1 DEF IInv, TypeOK, CacheTypeOK, CallTypeOK
<1>6. LockOwned'
  BY <1>1 DEF IInv, LockOwned, InCriticalSection, TypeOK, CallTypeOK
<1>7. LoadingForRequest'
  <2>1. \A u \in Threads : pc'[u] # "idle" => pc[u] # "idle"
    BY <1>1 DEF IInv, TypeOK, CallTypeOK
  <2> QED
    BY <1>4, <2>1 DEF IInv, LoadingForRequest
<1>8. CacheCoherent'
  <2>1. /\ cache'[v] = buf /\ cache_off'[v] = off /\ cache_len'[v] = k
        /\ \A s \in Slots \ {v} : /\ cache'[s] = cache[s]
                                  /\ cache_off'[s] = cache_off[s]
                                  /\ cache_len'[s] = cache_len[s]
    BY <1>2 DEF IInv, TypeOK, CacheTypeOK
  <2>2. \A s \in Slots \ {v} : ~BeingFilled(s)
    BY <1>3 DEF BeingFilled
  <2> HIDE DEF v
  <2> SUFFICES ASSUME NEW s \in Slots, cache_len'[s] > 0
               PROVE  /\ cache_off'[s] + cache_len'[s] <= ImgSize
                      /\ \A i \in 0 .. cache_len'[s] - 1 :
                           cache'[s][i] = cache_off'[s] + i
    BY DEF CacheCoherent
  <2>3. CASE s = v
    <3>1. cache'[s] = buf /\ cache_off'[s] = off /\ cache_len'[s] = k
      BY <2>1, <2>3
    <3>2. k > 0 => off + k <= ImgSize /\ \A i \in 0 .. k - 1 : buf[i] = off + i
      OBVIOUS
    <3> QED
      BY <3>1, <3>2
  <2>4. CASE s # v
    BY <2>1, <2>2, <2>4, ZenonT(30) DEF IInv, CacheCoherent
  <2> QED
    BY <2>3, <2>4
<1>9. ResultTypeOK'
  <2>1. io' \in [Threads -> [off : Nat, len : Nat, n : Int]]
    BY DEF IInv, TypeOK, ResultTypeOK
  <2> QED
    BY <1>1, <2>1, StoreResult DEF IInv, TypeOK
<1>10. AnswersRight'
  BY <1>1, StoreAnswer DEF IInv, TypeOK
<1> QED
  BY <1>5, <1>6, <1>7, <1>8, <1>9, <1>10 DEF IInv, TypeOK

(* The window that a thread which is loading reads into its victim *)
LEMMA LoadWindow ==
  ASSUME IInv, NEW t \in Threads, pc[t] = "load",
         NEW n \in Answers(cache_off[next[t]], ReadSize(cache_off[next[t]]))
  PROVE  /\ next[t] \in Slots
         /\ cache[next[t]] \in [0 .. CacheLen - 1 -> Bytes]
         /\ cache_off[next[t]] \in Nat
         /\ cache_off[next[t]] <= req[t].off
         /\ req[t].off < ImgSize
         /\ ReadSize(cache_off[next[t]]) \in 0 .. CacheLen
         /\ n \in -1 .. CacheLen
         /\ n > 0 => cache_off[next[t]] + n <= ImgSize
<1>1. /\ next[t] \in Slots /\ req[t].off \in Nat /\ req[t].off < ImgSize
      /\ cache_off[next[t]] = SectorStart(req[t].off)
  BY RequestType DEF IInv, TypeOK, CallTypeOK, LoadingForRequest
<1> DEFINE off == cache_off[next[t]]
<1>2. off \in Nat /\ off <= req[t].off /\ cache[next[t]] \in [0 .. CacheLen - 1 -> Bytes]
  BY <1>1, SectorStartBounds DEF IInv, TypeOK, CacheTypeOK
<1>3. ReadSize(off) \in 0 .. CacheLen
  BY <1>1, <1>2, SizeAssumption DEF ReadSize, Minimum
<1>4. n \in -1 .. CacheLen /\ (n > 0 => off + n <= ImgSize)
  BY <1>2, <1>3, SizeAssumption DEF Answers
<1> QED
  BY <1>1, <1>2, <1>3, <1>4

(* A load that succeeds *)
LEMMA LoadOkKeepsIInv ==
  ASSUME IInv, NEW t \in Threads, LoadOk(t)
  PROVE  IInv'
<1> DEFINE q == req[t]
           v == next[t]
           off == cache_off[v]
<1>1. q.off \in Nat /\ q.len \in Nat
  BY RequestType DEF LoadOk
<1>2. PICK n \in Answers(off, ReadSize(off)) :
        /\ n > 0
        /\ cache' = [cache EXCEPT ![v] = Filled(cache[v], off, n)]
        /\ cache_age' = [cache_age EXCEPT ![v] = CacheAge]
        /\ cache_len' = [cache_len EXCEPT ![v] = n]
        /\ io' = [io EXCEPT ![t] = Asked(off, ReadSize(off), n)]
        /\ Return(t, [n |-> Available(q, off, n),
                      data |-> Copy(Filled(cache[v], off, n), q.off - off,
                                    Available(q, off, n))])
  BY DEF LoadOk
<1>3. /\ v \in Slots /\ off \in Nat /\ off <= q.off /\ q.off < ImgSize
      /\ cache[v] \in [0 .. CacheLen - 1 -> Bytes]
      /\ ReadSize(off) \in Nat
      /\ n \in 0 .. CacheLen
      /\ off + n <= ImgSize
  BY <1>2, LoadWindow DEF LoadOk
<1> DEFINE buf == Filled(cache[v], off, n)
           from == q.off - off
           m == Available(q, off, n)
           data == Copy(buf, from, m)
           r == [n |-> m, data |-> data]
           a == Asked(off, ReadSize(off), n)
<1>4. Return(t, r) /\ io' = [io EXCEPT ![t] = a] /\ cache' = [cache EXCEPT ![v] = buf]
  BY <1>2
<1>5. cache_off' = [cache_off EXCEPT ![v] = off]
  BY <1>3 DEF LoadOk, IInv, TypeOK, CacheTypeOK
<1>6. pc[t] = "load" /\ UNCHANGED <<lock, req, next, calls>>
  BY DEF LoadOk
<1>7. a \in [off : Nat, len : Nat, n : Int]
  BY <1>3 DEF Asked
<1> HIDE DEF off, v
<1>8. /\ buf \in [0 .. CacheLen - 1 -> Bytes]
      /\ \A i \in 0 .. n - 1 : buf[i] = off + i
  <2>1. n \in Nat /\ n <= CacheLen
    BY <1>3, SizeAssumption
  <2> QED
    BY <1>3, <2>1, FilledRight
<1>9. Clipped(q) \in Nat /\ Clipped(q) <= q.len
  BY <1>1, <1>3, ClippedBounds
<1>10. from \in Nat /\ off + from = q.off
  BY <1>1, <1>3
<1>11. m \in Nat /\ m <= q.len /\ (m > 0 => from + m <= n)
  <2>1. n \in Nat
    BY <1>3, SizeAssumption
  <2>2. m = IF from > n THEN 0 ELSE Minimum(Clipped(q), n - from)
    BY DEF Available
  <2> HIDE DEF from, m
  <2> QED
    BY <1>9, <1>10, <2>1, <2>2, <1>1 DEF Minimum
<1> HIDE DEF buf, from, m, q, a
<1>12. /\ data \in [0 .. m - 1 -> Bytes]
       /\ \A i \in 0 .. m - 1 : data[i] = q.off + i
  <2>1. CASE m = 0
    BY <2>1 DEF Copy
  <2>2. CASE m > 0
    <3>1. /\ Copy(buf, from, m) \in [0 .. m - 1 -> Bytes]
          /\ HoldsImage(Copy(buf, from, m), off + from, m)
      <4>1. /\ n \in 0 .. CacheLen /\ off \in Nat /\ from \in Nat
            /\ m \in Nat /\ from + m <= n /\ HoldsImage(buf, off, n)
        BY <1>3, <1>8, <1>10, <1>11, <2>2 DEF HoldsImage
      <4> QED
        BY <1>8, <4>1, CopyRight
    <3> QED
      BY <1>10, <3>1 DEF HoldsImage
  <2> QED
    BY <1>11, <2>1, <2>2
<1> HIDE DEF data
<1>13. r = [n |-> r.n, data |-> r.data] /\ r.n = m /\ r.data = data
  OBVIOUS
<1>14. /\ r.n \in Int /\ r.data \in [0 .. r.n - 1 -> Bytes]
       /\ r.n <= q.len /\ \A i \in 0 .. r.n - 1 : r.data[i] = q.off + i
  BY <1>11, <1>12, <1>13
<1> HIDE DEF r
<1>15. n \in 0 .. CacheLen /\ CacheAge \in Int /\ off \in Nat /\ off + n <= ImgSize
  BY <1>3, SizeAssumption
<1>16. /\ n > 0 => off + n <= ImgSize
       /\ r.n > 0 /\ (a = NotAsked \/ a.n > 0) =>
            /\ r.n <= req[t].len
            /\ \A i \in 0 .. r.n - 1 : r.data[i] = req[t].off + i
  BY <1>14, <1>15 DEF q
<1>17. /\ cache' = [cache EXCEPT ![next[t]] = buf]
       /\ cache_off' = [cache_off EXCEPT ![next[t]] = off]
       /\ cache_len' = [cache_len EXCEPT ![next[t]] = n]
       /\ cache_age' = [cache_age EXCEPT ![next[t]] = CacheAge]
  BY <1>2, <1>4, <1>5 DEF v
<1> QED
  BY <1>4, <1>6, <1>7, <1>8, <1>13, <1>14, <1>15, <1>16, <1>17, LoadKeepsIInv

(* A load that fails: the entry is left unused. *)
LEMMA LoadFailedKeepsIInv ==
  ASSUME IInv, NEW t \in Threads, LoadFailed(t)
  PROVE  IInv'
<1> DEFINE v == next[t]
           off == cache_off[v]
<1>1. PICK n, k :
        /\ n \in Answers(off, ReadSize(off)) /\ n <= 0
        /\ k \in Delivered(n, off, ReadSize(off))
        /\ cache' = [cache EXCEPT ![v] = Filled(cache[v], off, k)]
        /\ io' = [io EXCEPT ![t] = Asked(off, ReadSize(off), n)]
        /\ Return(t, Error(n))
  BY DEF LoadFailed
<1>2. pc[t] = "load" /\ UNCHANGED <<lock, req, next, calls>> /\ Forget(v)
  BY DEF LoadFailed
<1>3. /\ v \in Slots /\ off \in Nat
      /\ cache[v] \in [0 .. CacheLen - 1 -> Bytes]
      /\ ReadSize(off) \in Nat
      /\ n \in Int
  BY <1>1, <1>2, LoadWindow
<1>4. k \in Nat
  BY <1>1, <1>3 DEF Delivered
<1> DEFINE buf == Filled(cache[v], off, k)
           a == Asked(off, ReadSize(off), n)
           r == Error(n)
<1>5. buf \in [0 .. CacheLen - 1 -> Bytes]
  BY <1>3, <1>4, FilledRight
<1>6. a \in [off : Nat, len : Nat, n : Int]
  BY <1>3 DEF Asked
<1>7. /\ r = [n |-> r.n, data |-> r.data]
      /\ r.n \in Int /\ r.n <= 0
      /\ r.data \in [0 .. r.n - 1 -> Bytes]
  BY <1>1, <1>3, ErrorType
<1>8. /\ Return(t, r) /\ io' = [io EXCEPT ![t] = a]
      /\ cache' = [cache EXCEPT ![v] = buf]
      /\ cache_len' = [cache_len EXCEPT ![v] = 0]
      /\ cache_age' = [cache_age EXCEPT ![v] = 0]
      /\ cache_off' = [cache_off EXCEPT ![v] = 0]
  BY <1>1, <1>2 DEF Forget
<1> HIDE DEF buf, a, r
<1>9. /\ 0 \in Nat /\ 0 \in Int /\ 0 \in 0 .. CacheLen
      /\ \A i \in 0 .. 0 - 1 : buf[i] = 0 + i
      /\ ~(0 > 0) /\ ~(r.n > 0)
  BY <1>7, SizeAssumption
<1> QED
  BY <1>2, <1>5, <1>6, <1>7, <1>8, <1>9, LoadKeepsIInv

-----------------------------------------------------------------------------
(* The inductive invariant holds in every reachable state: the cache       *)
(* entries are coherent and every answer is right when it is computed.     *)
THEOREM Invariance == Spec => []IInv
<1>1. IInv /\ [Next]_vars => IInv'
  <2> SUFFICES ASSUME IInv, [Next]_vars PROVE IInv'
    OBVIOUS
  <2>1. CASE Next
    <3>1. PICK t \in Threads : RejectArgs(t) \/ Call(t) \/ Step(t)
      BY <2>1 DEF Next
    <3>2. CASE RejectArgs(t) \/ Call(t)
      BY <3>2, CallKeepsIInv
    <3>3. CASE TakeLock(t) \/ Unlock(t)
      BY <3>3, LockKeepsIInv
    <3>4. CASE BigReadAligned(t)
      BY <3>4, BigReadAlignedKeepsIInv
    <3>5. CASE BigReadBounce(t)
      BY <3>5, BigReadBounceKeepsIInv
    <3>6. CASE BigReadNoMemory(t) \/ PastEnd(t)
      BY <3>6, EarlyErrorKeepsIInv
    <3>7. CASE LookupHit(t)
      BY <3>7, LookupHitKeepsIInv
    <3>8. CASE LookupMiss(t)
      BY <3>8, LookupMissKeepsIInv
    <3>9. CASE LoadOk(t)
      BY <3>9, LoadOkKeepsIInv
    <3>10. CASE LoadFailed(t)
      BY <3>10, LoadFailedKeepsIInv
    <3> QED
      BY <3>1, <3>2, <3>3, <3>4, <3>5, <3>6, <3>7, <3>8, <3>9, <3>10 DEF Step
  <2>2. CASE UNCHANGED vars
    <3>1. /\ CacheTypeOK' /\ CallTypeOK' /\ ResultTypeOK'
      BY <2>2 DEF vars, IInv, TypeOK, CacheTypeOK, CallTypeOK, ResultTypeOK
    <3>2. LockOwned' /\ LoadingForRequest' /\ CacheCoherent' /\ AnswersRight'
      BY <2>2 DEF vars, IInv, LockOwned, InCriticalSection, LoadingForRequest,
                  SectorStart, CacheCoherent, BeingFilled, AnswersRight
    <3> QED
      BY <3>1, <3>2 DEF IInv, TypeOK
  <2> QED
    BY <2>1, <2>2
<1> QED
  BY InitIInv, <1>1, PTL DEF Spec

(* Variables keep their types. *)
THEOREM TypeCorrect == Spec => []TypeOK
<1>1. IInv => TypeOK
  BY DEF IInv
<1> QED
  BY Invariance, <1>1, PTL

(* Entries that nobody is filling hold the image's bytes. *)
THEOREM Coherence == Spec => []CacheCoherent
<1>1. IInv => CacheCoherent
  BY DEF IInv
<1> QED
  BY Invariance, <1>1, PTL

(* A read that has returned data returns the image's bytes at the offsets  *)
(* asked for, however many threads read at the same time.                  *)
THEOREM ReadsAreCorrect == Spec => []ReadCorrect
<1>1. IInv => ReadCorrect
  BY DEF IInv, AnswersRight, ReadCorrect
<1> QED
  BY Invariance, <1>1, PTL
-----------------------------------------------------------------------------
(***************************************************************************)
(* For every number of threads and every geometry of the cache: a read is  *)
(* short only where the image or its format is (ImgCache!FullUnlessShort), *)
(* and a failed load leaves its entry unused (ImgCache!FailureForgotten).  *)
(* Both rest on the inductive invariant IInv and on what is                *)
(* known of a call on its way: the format is asked once at most, and an    *)
(* entry is loaded only for a request that fits into it.                   *)
(***************************************************************************)

(* FullUnlessShort for one thread, without the place that it is in *)
Full(t) ==
  /\ req[t].off \in 0 .. ImgSize - 1 /\ ret[t].n # -1
  /\ io[t].n = Minimum(io[t].len, ImgSize - io[t].off)
  => ret[t].n = Clipped(req[t])

Forgotten(t) ==
  ~TooLarge(req[t]) /\ io[t] # NotAsked /\ io[t].n <= 0
  => ret[t].n = io[t].n /\ cache_len[next[t]] = 0

Outcome(t) ==
  /\ pc[t] \in {"wait", "locked", "load"} => io[t] = NotAsked
  /\ pc[t] = "load" => ~TooLarge(req[t])
  /\ pc[t] \in {"idle", "unlock"} => Full(t)
  /\ pc[t] = "unlock" => Forgotten(t)

OutcomeInv == \A t \in Threads : Outcome(t)

(* What one thread does leaves the others' calls alone; it fills no entry  *)
(* that another thread has found unused and not yet released.              *)
LEMMA OthersKeepOutcome ==
  ASSUME IInv, NEW t \in Threads, NEW u \in Threads \ {t}, Outcome(u),
         RejectArgs(t) \/ Call(t) \/ Step(t)
  PROVE  Outcome(u)'
<1>1. /\ pc'[u] = pc[u] /\ req'[u] = req[u] /\ io'[u] = io[u]
      /\ ret'[u] = ret[u] /\ next'[u] = next[u]
  BY DEF IInv, TypeOK, CallTypeOK, ResultTypeOK, RejectArgs, Call, Step, TakeLock,
         BigReadAligned, BigReadBounce, BigReadNoMemory, PastEnd, LookupHit,
         LookupMiss, LoadOk, LoadFailed, Unlock, Return
<1>2. pc[t] = "load" \/ UNCHANGED cache_len
  BY DEF RejectArgs, Call, Step, TakeLock, BigReadAligned, BigReadBounce,
         BigReadNoMemory, PastEnd, LookupHit, LookupMiss, Unlock, LoadOk,
         LoadFailed, cacheVars
<1>3. pc[u] = "unlock" => UNCHANGED cache_len
  BY <1>2, OwnerAlone DEF IInv, InCriticalSection
<1> QED
  BY <1>1, <1>3 DEF Outcome, Full, Forgotten, Clipped, TooLarge

(* A call that starts has asked nobody; one that is refused is answered.   *)
LEMMA CallOutcome ==
  ASSUME IInv, NEW t \in Threads, RejectArgs(t) \/ Call(t)
  PROVE  Outcome(t)'
<1>1. io'[t] = NotAsked
  BY DEF RejectArgs, Call, IInv, TypeOK, ResultTypeOK
<1>2. CASE RejectArgs(t)
  <2>1. pc'[t] = "idle" /\ req'[t].off < 0
    BY <1>2, RequestAssumption DEF RejectArgs, IInv, TypeOK, CallTypeOK
  <2>2. req'[t].off \in Int
    BY <1>2, CallKeepsIInv DEF IInv, TypeOK, CallTypeOK, Requests
  <2> QED
    BY <2>1, <2>2, SizeAssumption DEF Outcome, Full
<1>3. CASE Call(t)
  BY <1>1, <1>3 DEF Call, Outcome, IInv, TypeOK, CallTypeOK
<1> QED
  BY <1>2, <1>3

LEMMA LockOutcome ==
  ASSUME IInv, NEW t \in Threads, Outcome(t), TakeLock(t) \/ Unlock(t)
  PROVE  Outcome(t)'
<1>1. /\ UNCHANGED <<cache_len, req, next, io, ret>>
      /\ \/ pc[t] = "wait" /\ pc'[t] = "locked"
         \/ pc[t] = "unlock" /\ pc'[t] = "idle"
  BY DEF TakeLock, Unlock, IInv, TypeOK, CallTypeOK, cacheVars
<1> QED
  BY <1>1 DEF Outcome, Full, Clipped

(* A large read passes the format's answer on, cut at what was asked for.  *)
LEMMA BigReadOutcome ==
  ASSUME IInv, NEW t \in Threads,
         BigReadAligned(t) \/ BigReadBounce(t) \/ BigReadNoMemory(t)
  PROVE  Outcome(t)'
<1> DEFINE q == req[t]
<1>1. /\ q.off \in Nat /\ q.len \in Nat /\ TooLarge(q) /\ UNCHANGED req
      /\ pc'[t] = "unlock"
  BY RequestType DEF BigReadAligned, BigReadBounce, BigReadNoMemory, Return,
                     IInv, TypeOK, CallTypeOK
<1>2. Full(t)'
  <2>1. CASE BigReadAligned(t)
    <3>1. PICK n \in Answers(q.off, q.len) :
            /\ io' = [io EXCEPT ![t] = Asked(q.off, q.len, n)]
            /\ ret' = [ret EXCEPT ![t] =
                         [n |-> n, data |-> [i \in 0 .. n - 1 |-> q.off + i]]]
      BY <2>1 DEF BigReadAligned, Return
    <3>2. ret'[t].n = n /\ io'[t] = Asked(q.off, q.len, n)
      BY <3>1 DEF IInv, TypeOK, ResultTypeOK
    <3> QED
      BY <1>1, <3>2 DEF Full, Clipped, Asked
  <2>2. CASE BigReadBounce(t)
    <3> DEFINE len == RoundUp(q.len)
    <3>1. len \in Nat /\ len >= q.len
      BY <1>1, RoundUpBounds
    <3> HIDE DEF len
    <3>2. PICK n \in Answers(q.off, len) :
            /\ io' = [io EXCEPT ![t] = Asked(q.off, len, n)]
            /\ \E k : ret' = [ret EXCEPT ![t] = BounceAnswer(q, n, k)]
      BY <2>2 DEF BigReadBounce, Return, len
    <3>3. /\ ret'[t].n = IF n > 0 /\ n < q.len THEN n ELSE q.len
          /\ io'[t].n = n /\ io'[t].len = len /\ io'[t].off = q.off
      BY <3>2 DEF IInv, TypeOK, ResultTypeOK, BounceAnswer, Asked
    <3>4. n \in Int
      BY <3>1 DEF Answers
    <3>5. q.off < ImgSize /\ n = Minimum(len, ImgSize - q.off) =>
            (IF n > 0 /\ n < q.len THEN n ELSE q.len) = Clipped(q)
      <4>1. q.len # 0
        BY <2>2, SizeAssumption DEF BigReadBounce
      <4> QED
        BY <1>1, <3>1, <3>4, <4>1, SizeAssumption DEF Clipped, Minimum
    <3> QED
      BY <1>1, <3>3, <3>5, SizeAssumption DEF Full
  <2>3. CASE BigReadNoMemory(t)
    BY <2>3 DEF BigReadNoMemory, Return, Error, Full, IInv, TypeOK, ResultTypeOK
  <2> QED
    BY <2>1, <2>2, <2>3
<1> QED
  BY <1>1, <1>2 DEF Outcome, Forgotten, TooLarge

(* Errors before the format is asked, and hits *)
LEMMA EarlyOutcome ==
  ASSUME IInv, NEW t \in Threads, Outcome(t), PastEnd(t) \/ LookupHit(t)
  PROVE  Outcome(t)'
<1>1. pc'[t] = "unlock" /\ UNCHANGED <<req, io>> /\ io[t] = NotAsked
  BY DEF Outcome, PastEnd, LookupHit, Return, IInv, TypeOK, CallTypeOK
<1>2. CASE PastEnd(t)
  <2>1. ret'[t].n = -1
    BY <1>2 DEF PastEnd, Return, Error, IInv, TypeOK, ResultTypeOK
  <2> QED
    BY <1>1, <2>1 DEF Outcome, Full, Forgotten
<1>3. CASE LookupHit(t)
  <2>1. ret'[t].n = Clipped(req[t])
    BY <1>3 DEF LookupHit, Return, IInv, TypeOK, ResultTypeOK
  <2> QED
    BY <1>1, <2>1 DEF Outcome, Full, Forgotten, Clipped
<1> QED
  BY <1>2, <1>3

LEMMA LookupMissOutcome ==
  ASSUME IInv, NEW t \in Threads, Outcome(t), LookupMiss(t)
  PROVE  Outcome(t)'
<1>1. /\ pc'[t] = "load" /\ UNCHANGED <<req, io>> /\ io[t] = NotAsked
      /\ ~TooLarge(req[t])
  BY DEF Outcome, LookupMiss, IInv, TypeOK, CallTypeOK
<1> QED
  BY <1>1 DEF Outcome, TooLarge

(* An entry has room for the request and for the rounding of its offset.   *)
LEMMA EntryHasRoom ==
  ASSUME NEW q, q.off \in Nat, q.len \in Nat, q.off < ImgSize, ~TooLarge(q)
  PROVE  /\ ReadSize(SectorStart(q.off)) > 0
         /\ Available(q, SectorStart(q.off), ReadSize(SectorStart(q.off))) = Clipped(q)
<1> DEFINE off == SectorStart(q.off)
           rel == q.off % Sector
           n == ReadSize(off)
<1>1. rel \in Nat /\ off \in Nat /\ off <= q.off /\ q.off = off + rel
  <2>1. rel \in 0 .. Sector - 1 /\ off \in Nat /\ off <= q.off /\ q.off = off + rel
    BY SectorStartBounds
  <2> HIDE DEF rel, off
  <2> QED
    BY <2>1, SizeAssumption
<1>2. n = IF CacheLen <= ImgSize - off THEN CacheLen ELSE ImgSize - off
  BY DEF ReadSize, Minimum
<1>3. Clipped(q) = IF q.len <= ImgSize - q.off THEN q.len ELSE ImgSize - q.off
  BY DEF Clipped, Minimum
<1>4. q.len + rel <= CacheLen
  BY <1>1, SizeAssumption DEF TooLarge
<1>5. Available(q, off, n) = IF q.off - off > n THEN 0
                             ELSE IF Clipped(q) <= n - (q.off - off) THEN Clipped(q)
                             ELSE n - (q.off - off)
  BY DEF Available, Minimum
<1> HIDE DEF off, rel, n
<1>6. n \in Nat /\ n > 0 /\ rel <= n /\ q.off - off = rel
  BY <1>1, <1>2, <1>4, SizeAssumption
<1>7. Clipped(q) \in Nat /\ Clipped(q) <= n - rel
  BY <1>1, <1>2, <1>3, <1>4, SizeAssumption
<1>8. Available(q, off, n) = Clipped(q)
  BY <1>1, <1>5, <1>6, <1>7
<1> QED
  BY <1>6, <1>8 DEF off, n

LEMMA LoadOkOutcome ==
  ASSUME IInv, NEW t \in Threads, Outcome(t), LoadOk(t)
  PROVE  Outcome(t)'
<1> DEFINE q == req[t]
           off == cache_off[next[t]]
<1>1. /\ pc[t] = "load" /\ q.off \in Nat /\ q.len \in Nat /\ q.off < ImgSize
      /\ off = SectorStart(q.off) /\ ~TooLarge(q)
  BY RequestType DEF LoadOk, Outcome, IInv, LoadingForRequest
<1>2. ReadSize(off) > 0 /\ Available(q, off, ReadSize(off)) = Clipped(q)
  BY <1>1, EntryHasRoom
<1>3. PICK n \in Answers(off, ReadSize(off)) :
        /\ n > 0 /\ io' = [io EXCEPT ![t] = Asked(off, ReadSize(off), n)]
        /\ ret'[t].n = Available(q, off, n)
  <2>1. PICK n \in Answers(off, ReadSize(off)) :
          /\ n > 0 /\ io' = [io EXCEPT ![t] = Asked(off, ReadSize(off), n)]
          /\ \E data :
               ret' = [ret EXCEPT ![t] = [n |-> Available(q, off, n), data |-> data]]
    BY DEF LoadOk, Return
  <2>2. PICK data :
          ret' = [ret EXCEPT ![t] = [n |-> Available(q, off, n), data |-> data]]
    BY <2>1
  <2>3. ret'[t] = [n |-> Available(q, off, n), data |-> data]
    BY <2>2 DEF IInv, TypeOK, ResultTypeOK
  <2>4. ret'[t].n = Available(q, off, n)
    BY <2>3
  <2> HIDE DEF q, off
  <2> QED
    BY <2>1, <2>4
<1>4. /\ pc'[t] = "unlock" /\ UNCHANGED req
      /\ io'[t].n = n /\ io'[t].len = ReadSize(off) /\ io'[t].off = off
  BY <1>3 DEF LoadOk, Return, Asked, IInv, TypeOK, CallTypeOK, ResultTypeOK
<1>5. Minimum(ReadSize(off), ImgSize - off) = ReadSize(off)
  <2>1. off \in Nat
    BY <1>1, SectorStartBounds
  <2> HIDE DEF off
  <2> QED
    BY <2>1, SizeAssumption DEF ReadSize, Minimum
<1>6. Full(t)'
  BY <1>2, <1>3, <1>4, <1>5 DEF Full, Clipped
<1>7. Forgotten(t)'
  <2>1. ~(io'[t].n <= 0)
    BY <1>3, <1>4, LoadWindow DEF LoadOk
  <2> QED
    BY <2>1 DEF Forgotten
<1> QED
  BY <1>4, <1>6, <1>7 DEF Outcome

(* A load that fails says so; nothing to read is not a failure that can be.*)
LEMMA LoadFailedOutcome ==
  ASSUME IInv, NEW t \in Threads, Outcome(t), LoadFailed(t)
  PROVE  Outcome(t)'
<1> DEFINE q == req[t]
           off == cache_off[next[t]]
<1>1. /\ pc[t] = "load" /\ q.off \in Nat /\ q.len \in Nat /\ q.off < ImgSize
      /\ off = SectorStart(q.off) /\ ~TooLarge(q)
  BY RequestType DEF LoadFailed, Outcome, IInv, LoadingForRequest
<1>2. ReadSize(off) > 0
  BY <1>1, EntryHasRoom
<1>3. PICK n \in Answers(off, ReadSize(off)) :
        /\ n <= 0 /\ io' = [io EXCEPT ![t] = Asked(off, ReadSize(off), n)]
        /\ Return(t, Error(n)) /\ Forget(next[t])
  BY DEF LoadFailed
<1>4. /\ pc'[t] = "unlock" /\ UNCHANGED <<req, next>>
      /\ io'[t].n = n /\ io'[t].len = ReadSize(off) /\ io'[t].off = off
      /\ ret'[t].n = n
  BY <1>3 DEF LoadFailed, Return, Error, Asked, IInv, TypeOK, CallTypeOK, ResultTypeOK
<1>5. Minimum(ReadSize(off), ImgSize - off) = ReadSize(off)
  <2>1. off \in Nat
    BY <1>1, SectorStartBounds
  <2> HIDE DEF off
  <2> QED
    BY <2>1, SizeAssumption DEF ReadSize, Minimum
<1>6. Full(t)'
  <2>1. n \in Int /\ ReadSize(off) \in Int /\ n # ReadSize(off)
    BY <1>2, <1>3, LoadWindow DEF LoadFailed
  <2> QED
    BY <1>4, <1>5, <2>1 DEF Full
<1>7. Forgotten(t)'
  <2>1. next'[t] \in Slots /\ cache_len'[next'[t]] = 0
    BY <1>3, <1>4 DEF Forget, IInv, TypeOK, CacheTypeOK, CallTypeOK
  <2> QED
    BY <1>4, <2>1 DEF Forgotten
<1> QED
  BY <1>4, <1>6, <1>7 DEF Outcome
-----------------------------------------------------------------------------
(* What is known of a call on its way, in every reachable state            *)
THEOREM Outcomes == Spec => [](IInv /\ OutcomeInv)
<1>1. Init => OutcomeInv
  <2> SUFFICES ASSUME Init, NEW t \in Threads PROVE Outcome(t)
    BY DEF OutcomeInv
  <2>1. /\ pc[t] = "idle" /\ req[t].off = 0 /\ req[t].len = 0
        /\ io[t].n = 0 /\ ret[t].n = 0
    BY DEF Init, NotAsked, Asked, Error
  <2> QED
    BY <2>1, SizeAssumption DEF Outcome, Full, Clipped, Minimum
<1>2. IInv /\ OutcomeInv /\ [Next]_vars => OutcomeInv'
  <2> SUFFICES ASSUME IInv, OutcomeInv, [Next]_vars PROVE OutcomeInv'
    OBVIOUS
  <2>1. CASE Next
    <3>1. PICK t \in Threads : RejectArgs(t) \/ Call(t) \/ Step(t)
      BY <2>1 DEF Next
    <3>2. \A u \in Threads \ {t} : Outcome(u)'
      BY <3>1, OthersKeepOutcome DEF OutcomeInv
    <3>3. Outcome(t)'
      BY <3>1, CallOutcome, LockOutcome, BigReadOutcome, EarlyOutcome,
         LookupMissOutcome, LoadOkOutcome, LoadFailedOutcome DEF Step, OutcomeInv
    <3> QED
      BY <3>2, <3>3 DEF OutcomeInv
  <2>2. CASE UNCHANGED vars
    BY <2>2 DEF vars, OutcomeInv, Outcome, Full, Forgotten, Clipped, TooLarge
  <2> QED
    BY <2>1, <2>2
<1> QED
  BY <1>1, <1>2, Invariance, PTL DEF Spec

(* A read that starts inside the image is short only at its end, or when   *)
(* the format itself was: one entry has room for any request that is read  *)
(* through the cache, with the rounding of its offset (img_io.c:75, 179).  *)
THEOREM ReadsAreFull == Spec => []FullUnlessShort
<1>1. OutcomeInv => FullUnlessShort
  BY DEF OutcomeInv, Outcome, Full, FullUnlessShort
<1> QED
  BY <1>1, Outcomes, PTL

(* A failed load is reported, and until the lock is released nobody makes  *)
(* use of the entry that it was to fill (img_io.c:216).                    *)
THEOREM FailuresAreForgotten == Spec => []FailureForgotten
<1>1. OutcomeInv => FailureForgotten
  BY DEF OutcomeInv, Outcome, Forgotten, FailureForgotten
<1> QED
  BY <1>1, Outcomes, PTL

-----------------------------------------------------------------------------
(* The list of the entries in the order of their ages                      *)

(* Every slot has an age. *)
Total(age) == \A s \in Slots : age[s] \in Int

(* The slots are as many as the cache has entries. *)
LEMMA SlotsFinite ==
  /\ Slots \subseteq Nat
  /\ IsFiniteSet(Slots)
  /\ Cardinality(Slots) = CacheNum
<1>1. CacheNum \in Nat \ {0}
  BY SizeAssumption
<1>2. IsFiniteSet(0 .. CacheNum - 1) /\ Cardinality(0 .. CacheNum - 1) = CacheNum
  BY <1>1, FS_Interval
<1> QED
  BY <1>1, <1>2 DEF Slots

(* IsYounger is a strict total order on the slots. *)
LEMMA YoungerIs ==
  ASSUME NEW age, Total(age)
  PROVE  /\ \A x, y \in Slots : x = y \/ IsYounger(age, x, y) \/ IsYounger(age, y, x)
         /\ \A x, y \in Slots : ~(IsYounger(age, x, y) /\ IsYounger(age, y, x))
         /\ \A x, y, z \in Slots :
              IsYounger(age, x, y) /\ IsYounger(age, y, z) => IsYounger(age, x, z)
<1>1. \A x \in Slots : x \in Nat /\ age[x] \in Int
  BY SlotsFinite DEF Total
<1> QED
  BY <1>1 DEF IsYounger

(* The slots that Rank counts *)
YoungerSet(S, age, s) == {x \in S : IsYounger(age, x, s)}

(* The rank of a slot is its place in that order. *)
LEMMA RankIs ==
  ASSUME NEW S \in SUBSET Slots, NEW age, Total(age)
  PROVE  /\ IsFiniteSet(S) /\ Cardinality(S) \in Nat
         /\ \A s \in S : Rank(S, age, s) \in 0 .. Cardinality(S) - 1
         /\ \A x, y \in S : IsYounger(age, x, y) => Rank(S, age, x) < Rank(S, age, y)
         /\ \A x, y \in S : Rank(S, age, x) = Rank(S, age, y) => x = y
<1>1. IsFiniteSet(S) /\ Cardinality(S) \in Nat
  BY SlotsFinite, FS_Subset, FS_CardinalityType
<1> DEFINE Y(s) == YoungerSet(S, age, s)
<1>2. \A s \in S : Rank(S, age, s) = Cardinality(Y(s))
  BY DEF Rank, YoungerSet
<1>3. \A s \in Slots : IsFiniteSet(Y(s)) /\ Cardinality(Y(s)) \in Nat /\ Y(s) \subseteq S
  <2> TAKE s \in Slots
  <2>1. Y(s) \in SUBSET S
    BY DEF YoungerSet
  <2> QED
    BY <1>1, <2>1, FS_Subset, FS_CardinalityType
<1>4. ASSUME NEW s \in S PROVE Cardinality(Y(s)) < Cardinality(S)
  <2>1. Y(s) \in SUBSET S /\ s \notin Y(s)
    BY YoungerIs DEF YoungerSet
  <2>2. Cardinality(Y(s)) <= Cardinality(S) /\ Cardinality(Y(s)) # Cardinality(S)
    BY <1>1, <2>1, FS_Subset
  <2> QED
    BY <1>1, <1>3, <2>2
<1>5. ASSUME NEW x \in S, NEW y \in S, IsYounger(age, x, y)
      PROVE  Cardinality(Y(x)) < Cardinality(Y(y))
  <2>1. Y(x) \in SUBSET Y(y) /\ x \in Y(y) /\ x \notin Y(x)
    BY <1>5, YoungerIs DEF YoungerSet
  <2>2. Cardinality(Y(x)) <= Cardinality(Y(y)) /\ Cardinality(Y(x)) # Cardinality(Y(y))
    BY <1>3, <2>1, FS_Subset
  <2> QED
    BY <1>3, <2>2
<1> HIDE DEF Y
<1>6. \A x, y \in S : Cardinality(Y(x)) = Cardinality(Y(y)) => x = y
  <2> TAKE x, y \in S
  <2>1. x = y \/ IsYounger(age, x, y) \/ IsYounger(age, y, x)
    BY YoungerIs
  <2>2. Cardinality(Y(x)) \in Nat /\ Cardinality(Y(y)) \in Nat
    BY <1>3
  <2> QED
    BY <1>5, <2>1, <2>2
<1>7. \A s \in S : Cardinality(Y(s)) \in 0 .. Cardinality(S) - 1
  BY <1>1, <1>3, <1>4
<1> QED
  BY <1>1, <1>2, <1>5, <1>6, <1>7

(* Every place has its entry. *)
LEMMA OrderIs ==
  ASSUME NEW S \in SUBSET Slots, NEW age, Total(age), NEW q, q = InOrder(S, age),
         NEW n, n = Cardinality(S)
  PROVE  /\ n \in Nat /\ DOMAIN q = 1 .. n
         /\ \A i \in 1 .. n : q[i] \in S /\ Rank(S, age, q[i]) = i - 1
         /\ \A s \in S : Rank(S, age, s) + 1 \in 1 .. n /\ q[Rank(S, age, s) + 1] = s
<1> DEFINE R(s) == Rank(S, age, s)
<1>1. /\ IsFiniteSet(S) /\ n \in Nat
      /\ \A s \in S : R(s) \in 0 .. n - 1
      /\ \A x, y \in S : R(x) = R(y) => x = y
  BY RankIs
<1>2. \A i \in 1 .. n : \E s \in S : R(s) = i - 1
  <2> DEFINE f == [s \in S |-> R(s)]
             T == 0 .. n - 1
  <2> HIDE DEF R
  <2>1. IsFiniteSet(T) /\ Cardinality(T) = n
    <3> DEFINE m == n - 1
    <3>1. 0 \in Int /\ m \in Int /\ (IF 0 <= m THEN m - 0 + 1 ELSE 0) = n
      BY <1>1
    <3> HIDE DEF m
    <3>2. IsFiniteSet(0 .. m) /\ Cardinality(0 .. m) = IF 0 <= m THEN m - 0 + 1 ELSE 0
      BY <3>1, FS_Interval
    <3> QED
      BY <3>1, <3>2 DEF m
  <2>2. f \in Injection(S, T)
    <3>1. \A s \in S : R(s) \in T
      BY <1>1
    <3>2. DOMAIN f = S /\ \A s \in S : f[s] = R(s)
      OBVIOUS
    <3>3. \A x, y \in S : f[x] = f[y] => x = y
      BY <1>1, <3>2
    <3>4. f \in [S -> T]
      BY <3>1
    <3> HIDE DEF f, T
    <3> QED
      BY <3>2, <3>3, <3>4 DEF Injection, IsInjective
  <2>3. f \in Surjection(S, T)
    <3> HIDE DEF f, T
    <3> QED
      BY <2>1, <2>2, FS_Injection
  <2>4. \A k \in T : \E s \in S : f[s] = k
    BY <2>3 DEF Surjection
  <2>5. \A i \in 1 .. n : i - 1 \in T
    BY <1>1
  <2>6. \A s \in S : f[s] = R(s)
    OBVIOUS
  <2> HIDE DEF f, T
  <2> QED
    BY <2>4, <2>5, <2>6
<1>3. DOMAIN q = 1 .. n /\ \A i \in 1 .. n : q[i] = CHOOSE s \in S : R(s) = i - 1
  BY DEF InOrder
<1> HIDE DEF R
<1>4. \A i \in 1 .. n : q[i] \in S /\ R(q[i]) = i - 1
  BY <1>2, <1>3
<1>5. \A s \in S : R(s) + 1 \in 1 .. n /\ q[R(s) + 1] = s
  <2> TAKE s \in S
  <2>1. R(s) + 1 \in 1 .. n /\ (R(s) + 1) - 1 = R(s)
    BY <1>1
  <2>2. q[R(s) + 1] \in S /\ R(q[R(s) + 1]) = R(s)
    BY <1>4, <2>1
  <2> QED
    BY <1>1, <2>1, <2>2
<1> QED
  BY <1>1, <1>3, <1>4, <1>5 DEF R


(* The numbers that count the places of a list *)
LEMMA Places ==
  ASSUME NEW n \in Nat
  PROVE  IsFiniteSet(1 .. n) /\ Cardinality(1 .. n) = n
<1>1. Cardinality(1 .. n) = IF 1 <= n THEN n - 1 + 1 ELSE 0
  BY FS_Interval
<1>2. IsFiniteSet(1 .. n)
  BY FS_Interval
<1> QED
  BY <1>1, <1>2

(* Only one sequence lists the members of S, the youngest first. *)
LEMMA OnlyOrder ==
  ASSUME NEW S \in SUBSET Slots, NEW age, Total(age),
         NEW n, n = Cardinality(S), NEW p \in [1 .. n -> S],
         \A i, j \in 1 .. n : i < j => IsYounger(age, p[i], p[j])
  PROVE  n \in Nat /\ InOrder(S, age) = p
<1> DEFINE q == InOrder(S, age)
<1>1. /\ n \in Nat /\ DOMAIN q = 1 .. n
      /\ \A i \in 1 .. n : q[i] \in S /\ Rank(S, age, q[i]) = i - 1
  BY OrderIs
<1>2. \A i, j \in 1 .. n : p[i] = p[j] => i = j
  <2> SUFFICES ASSUME NEW i \in 1 .. n, NEW j \in 1 .. n, i # j PROVE p[i] # p[j]
    OBVIOUS
  <2>1. p[i] \in Slots /\ p[j] \in Slots
    OBVIOUS
  <2>2. IsYounger(age, p[i], p[j]) \/ IsYounger(age, p[j], p[i])
    <3>1. i < j \/ j < i
      BY <1>1
    <3> QED
      BY <3>1
  <2> QED
    BY <2>1, <2>2, YoungerIs
<1>3. IsFiniteSet(1 .. n) /\ Cardinality(1 .. n) = n /\ IsFiniteSet(S)
  BY <1>1, Places, RankIs
<1>4. \A s \in S : \E i \in 1 .. n : p[i] = s
  <2>1. p \in Injection(1 .. n, S)
    BY <1>2 DEF Injection, IsInjective
  <2>2. p \in Surjection(1 .. n, S)
    BY <1>3, <2>1, FS_Injection
  <2> QED
    BY <2>2 DEF Surjection
<1>5. ASSUME NEW i \in 1 .. n PROVE Rank(S, age, p[i]) = i - 1
  <2> DEFINE m == i - 1
             f == [j \in 1 .. m |-> p[j]]
             Y == YoungerSet(S, age, p[i])
  <2>0. m \in Nat /\ \A j \in 1 .. n : j \in 1 .. m <=> j < i
    BY <1>1
  <2>1. \A j \in 1 .. n : j < i <=> IsYounger(age, p[j], p[i])
    <3> SUFFICES ASSUME NEW j \in 1 .. n, ~(j < i)
                 PROVE  ~IsYounger(age, p[j], p[i])
      OBVIOUS
    <3>1. p[i] \in Slots /\ p[j] \in Slots
      OBVIOUS
    <3>2. i = j \/ i < j
      BY <1>1
    <3> QED
      BY <3>1, <3>2, YoungerIs
  <2>2. \A j \in 1 .. m : j \in 1 .. n /\ p[j] \in Y
    BY <1>1, <2>0, <2>1 DEF YoungerSet
  <2>3. \A x \in Y : \E j \in 1 .. m : p[j] = x
    BY <1>4, <2>0, <2>1 DEF YoungerSet
  <2>4. IsFiniteSet(1 .. m) /\ Cardinality(1 .. m) = m
    BY <2>0, Places
  <2> HIDE DEF m, Y
  <2>5. f \in [1 .. m -> Y]
    BY <2>2
  <2>6. f \in Injection(1 .. m, Y) /\ f \in Surjection(1 .. m, Y)
    <3>1. \A a, b \in 1 .. m : f[a] = f[b] => a = b
      BY <1>2, <2>2
    <3>2. \A x \in Y : \E a \in 1 .. m : f[a] = x
      BY <2>3
    <3> HIDE DEF f
    <3> QED
      BY <2>5, <3>1, <3>2 DEF Injection, Surjection, IsInjective
  <2> HIDE DEF f
  <2>7. Cardinality(Y) = m
    BY <2>4, <2>6, FS_Surjection
  <2> QED
    BY <2>7 DEF Y, m, YoungerSet, Rank
<1>6. ASSUME NEW i \in 1 .. n PROVE q[i] = p[i]
  BY <1>1, <1>5, RankIs
<1>7. q = [i \in DOMAIN q |-> q[i]]
  BY DEF InOrder
<1> HIDE DEF q
<1>8. q = p
  BY <1>1, <1>6, <1>7
<1> QED
  BY <1>1, <1>8 DEF q

(* p lists the n members of S, the youngest first. *)
Sorts(p, n, S, age) ==
  /\ n \in Nat /\ n = Cardinality(S) /\ p \in [1 .. n -> S]
  /\ \A i, j \in 1 .. n : i < j => IsYounger(age, p[i], p[j])

(* The entries of the slots p[1], ..., p[n] *)
EntryList(n, p, off, len) ==
  [i \in 1 .. n |-> [off |-> off[p[i]], len |-> len[p[i]]]]

(* The entries of the members of S are listed in the order that p gives. *)
LEMMA ListedIs ==
  ASSUME NEW S \in SUBSET Slots, NEW age, Total(age), NEW off, NEW len,
         NEW n, NEW p, Sorts(p, n, S, age)
  PROVE  Listed(S, age, off, len) =
           EntryList(n, p, off, len)
<1>1. /\ n = Cardinality(S) /\ p \in [1 .. n -> S]
      /\ \A i, j \in 1 .. n : i < j => IsYounger(age, p[i], p[j])
  BY DEF Sorts
<1>2. InOrder(S, age) = p
  BY <1>1, OnlyOrder
<1> QED
  BY <1>1, <1>2 DEF Listed, EntryList

(* Every set of slots can be listed, and no slot twice. *)
LEMMA Sortable ==
  ASSUME NEW S \in SUBSET Slots, NEW age, Total(age)
  PROVE  \E n, p : /\ Sorts(p, n, S, age)
                   /\ \A s \in S : \E i \in 1 .. n : p[i] = s
                   /\ \A i, j \in 1 .. n : i # j => p[i] # p[j]
<1> DEFINE n == Cardinality(S)
           p == InOrder(S, age)
<1>1. /\ n \in Nat /\ DOMAIN p = 1 .. n
      /\ \A i \in 1 .. n : p[i] \in S /\ Rank(S, age, p[i]) = i - 1
      /\ \A s \in S : Rank(S, age, s) + 1 \in 1 .. n /\ p[Rank(S, age, s) + 1] = s
  BY OrderIs
<1>2. p = [i \in DOMAIN p |-> p[i]]
  BY DEF InOrder
<1> HIDE DEF p
<1>3. p \in [1 .. n -> S]
  BY <1>1, <1>2
<1>4. ASSUME NEW i \in 1 .. n, NEW j \in 1 .. n, i < j
      PROVE  IsYounger(age, p[i], p[j])
  <2>1. p[i] \in S /\ p[j] \in S /\ Rank(S, age, p[i]) < Rank(S, age, p[j])
    BY <1>1, <1>4
  <2>2. IsYounger(age, p[j], p[i]) => Rank(S, age, p[j]) < Rank(S, age, p[i])
    BY <2>1, RankIs
  <2>3. p[i] # p[j] /\ ~IsYounger(age, p[j], p[i])
    BY <1>1, <1>4, <2>2
  <2> QED
    BY <2>1, <2>3, YoungerIs
<1>5. Sorts(p, n, S, age)
  BY <1>1, <1>3, <1>4 DEF Sorts
<1>6. \A i, j \in 1 .. n : i # j => p[i] # p[j]
  BY <1>1
<1>7. \A s \in S : \E i \in 1 .. n : p[i] = s
  BY <1>1
<1> HIDE DEF n
<1> QED
  BY <1>5, <1>6, <1>7

(* Where the entry at place i comes from when the one at k moves in front *)
From(k, i) == IF i = 1 THEN k ELSE IF i <= k THEN i - 1 ELSE i
Fronted(w, k) == [i \in 1 .. Len(w) |-> w[From(k, i)]]

(* Touch, Evict and Insert of LruCache, place by place *)
LEMMA MovedToFront ==
  ASSUME NEW E, NEW w \in Seq(E), NEW k \in 1 .. Len(w)
  PROVE  <<w[k]>> \o SubSeq(w, 1, k - 1) \o SubSeq(w, k + 1, Len(w))
           = Fronted(w, k)
<1> DEFINE n == Len(w)
           a == <<w[k]>>
           b == SubSeq(w, 1, k - 1)
           c == SubSeq(w, k + 1, n)
<1>1. n \in Nat /\ k \in Nat /\ 1 <= k /\ k <= n /\ \A i \in 1 .. n : w[i] \in E
  OBVIOUS
<1>2. a \in Seq(E) /\ Len(a) = 1 /\ a[1] = w[k]
  BY <1>1
<1>3. b \in Seq(E) /\ Len(b) = k - 1 /\ \A i \in 1 .. k - 1 : b[i] = w[i]
  BY <1>1
<1>4. c \in Seq(E) /\ Len(c) = n - k /\ \A i \in 1 .. n - k : c[i] = w[k + i]
  BY <1>1
<1> HIDE DEF a, b, c
<1> DEFINE ab == a \o b
<1>5. /\ ab \in Seq(E) /\ Len(ab) = k
      /\ ab[1] = w[k] /\ \A i \in 1 .. k : i # 1 => ab[i] = w[i - 1]
  <2>1. /\ ab \in Seq(E) /\ Len(ab) = Len(a) + Len(b)
        /\ \A i \in 1 .. Len(a) + Len(b) :
             ab[i] = IF i <= Len(a) THEN a[i] ELSE b[i - Len(a)]
    BY <1>2, <1>3, ConcatProperties
  <2> HIDE DEF ab, n
  <2>2. ab[1] = a[1]
    BY <1>1, <1>2, <1>3, <2>1
  <2>3. ASSUME NEW i \in 1 .. k, i # 1 PROVE ab[i] = w[i - 1]
    <3>1. i - 1 \in 1 .. k - 1
      BY <1>1, <2>3
    <3>2. ab[i] = b[i - 1]
      BY <1>1, <1>2, <1>3, <2>1, <2>3, <3>1
    <3> QED
      BY <1>3, <3>1, <3>2
  <2> QED
    BY <1>1, <1>2, <1>3, <2>1, <2>2, <2>3
<1> HIDE DEF ab
<1> DEFINE abc == ab \o c
<1>6. /\ abc \in Seq(E) /\ Len(abc) = n
      /\ \A i \in 1 .. k : abc[i] = ab[i]
      /\ \A i \in 1 .. n : ~(i <= k) => abc[i] = w[i]
  <2>1. /\ abc \in Seq(E) /\ Len(abc) = Len(ab) + Len(c)
        /\ \A i \in 1 .. Len(ab) + Len(c) :
             abc[i] = IF i <= Len(ab) THEN ab[i] ELSE c[i - Len(ab)]
    BY <1>4, <1>5, ConcatProperties
  <2>2. Len(ab) + Len(c) = n
    BY <1>1, <1>4, <1>5
  <2> HIDE DEF abc, n
  <2>3. \A i \in 1 .. k : abc[i] = ab[i]
    BY <1>1, <1>5, <2>1, <2>2
  <2>4. ASSUME NEW i \in 1 .. n, ~(i <= k) PROVE abc[i] = w[i]
    <3>1. i - k \in 1 .. n - k /\ k + (i - k) = i
      BY <1>1, <2>4
    <3>2. abc[i] = c[i - k]
      BY <1>5, <2>1, <2>2, <2>4
    <3> QED
      BY <1>4, <3>1, <3>2
  <2> QED
    BY <2>1, <2>2, <2>3, <2>4
<1> HIDE DEF abc
<1>7. \A i \in 1 .. n :
        abc[i] = w[IF i = 1 THEN k ELSE IF i <= k THEN i - 1 ELSE i]
  BY <1>1, <1>5, <1>6
<1>8. abc = [i \in 1 .. n |-> abc[i]]
  BY <1>6
<1> HIDE DEF n
<1> QED
  BY <1>7, <1>8 DEF abc, ab, a, b, c, n, From, Fronted

(* SubSeq without the last place *)
LEMMA LastDropped ==
  ASSUME NEW E, NEW w \in Seq(E), Len(w) > 0
  PROVE  SubSeq(w, 1, Len(w) - 1) = [i \in 1 .. Len(w) - 1 |-> w[i]]
  OBVIOUS

(* A sequence with one more place in front *)
LEMMA PutInFront ==
  ASSUME NEW E, NEW w \in Seq(E), NEW e
  PROVE  <<e>> \o w = [i \in 1 .. Len(w) + 1 |-> IF i = 1 THEN e ELSE w[i - 1]]
  OBVIOUS

(* The place of an entry in a list of entries is that of its slot. *)
LEMMA EntryListIs ==
  ASSUME NEW n \in Nat, NEW p, NEW off, NEW len
  PROVE  /\ \E E : EntryList(n, p, off, len) \in Seq(E)
         /\ Len(EntryList(n, p, off, len)) = n
<1> DEFINE w == EntryList(n, p, off, len)
           E == {[off |-> off[p[i]], len |-> len[p[i]]] : i \in 1 .. n}
<1>1. w \in [1 .. n -> E]
  BY DEF EntryList
<1> HIDE DEF w, E
<1>2. w \in Seq(E)
  BY <1>1
<1>3. Len(w) = n
  BY <1>1, <1>2
<1> QED
  BY <1>2, <1>3 DEF w

(* The list is as long as the set. *)
LEMMA ListedLength ==
  ASSUME NEW S \in SUBSET Slots, NEW age, Total(age), NEW off, NEW len
  PROVE  Len(Listed(S, age, off, len)) = Cardinality(S)
<1>1. PICK n, p : Sorts(p, n, S, age)
  BY Sortable
<1>2. n \in Nat /\ n = Cardinality(S)
  BY <1>1 DEF Sorts
<1>3. Listed(S, age, off, len) = EntryList(n, p, off, len)
  BY <1>1, ListedIs
<1> QED
  BY <1>2, <1>3, EntryListIs

(* What a step does to the ages, offsets and lengths of the entries in S *)
SameOrder(S, age, age2) ==
  \A x, y \in S : IsYounger(age, x, y) => IsYounger(age2, x, y)
SameEntries(S, off, len, off2, len2) ==
  \A s \in S : off2[s] = off[s] /\ len2[s] = len[s]
YoungestOf(S, age, h) == \A x \in S : IsYounger(age, h, x)
OldestOf(S, age, v) == \A x \in S : IsYounger(age, x, v)

Drops(S, v, age, off, len, age2, off2, len2) ==
  /\ S \in SUBSET Slots /\ v \in S /\ Total(age) /\ Total(age2)
  /\ OldestOf(S \ {v}, age, v)
  /\ SameOrder(S \ {v}, age, age2) /\ SameEntries(S \ {v}, off, len, off2, len2)
Adds(S, v, age, off, len, age2, off2, len2) ==
  /\ S \in SUBSET Slots /\ v \in Slots \ S /\ Total(age) /\ Total(age2)
  /\ YoungestOf(S, age2, v)
  /\ SameOrder(S, age, age2) /\ SameEntries(S, off, len, off2, len2)

(* LruCache!Evict, Insert and Touch from w to w2, with e as the entry that *)
(* is the first then                                                       *)
StartsWith(w, e) == Len(w) > 0 /\ w[1] = e
Dropped(w, w2) == w2 = SubSeq(w, 1, Len(w) - 1)
Added(w, e, w2) == StartsWith(w2, e) /\ w2 = <<e>> \o w
Touched(w, e, w2) ==
  /\ StartsWith(w2, e)
  /\ \E k \in 1 .. Len(w) :
       w2 = <<w[k]>> \o SubSeq(w, 1, k - 1) \o SubSeq(w, k + 1, Len(w))

(* Ages that keep their order change nothing. *)
LEMMA SameList ==
  ASSUME NEW S \in SUBSET Slots, NEW age, Total(age), NEW age2, Total(age2),
         SameOrder(S, age, age2),
         NEW off, NEW len, NEW off2, NEW len2,
         SameEntries(S, off, len, off2, len2)
  PROVE  Listed(S, age2, off2, len2) = Listed(S, age, off, len)
<1> USE DEF SameOrder, SameEntries
<1>1. PICK n, p : Sorts(p, n, S, age)
  BY Sortable
<1>2. Sorts(p, n, S, age2)
  BY <1>1 DEF Sorts
<1>3. Listed(S, age, off, len) =
        EntryList(n, p, off, len)
  BY <1>1, ListedIs
<1>4. Listed(S, age2, off2, len2) =
        EntryList(n, p, off2, len2)
  BY <1>2, ListedIs
<1>5. \A i \in 1 .. n : off2[p[i]] = off[p[i]] /\ len2[p[i]] = len[p[i]]
  BY <1>1 DEF Sorts
<1> QED
  BY <1>3, <1>4, <1>5 DEF EntryList

(* An entry that is used becomes the youngest. *)
LEMMA TouchedList ==
  ASSUME NEW S \in SUBSET Slots, NEW age, Total(age), NEW age2, Total(age2),
         NEW h \in S, YoungestOf(S \ {h}, age2, h), SameOrder(S \ {h}, age, age2),
         NEW off, NEW len, NEW w, w = Listed(S, age, off, len)
  PROVE  Touched(w, [off |-> off[h], len |-> len[h]], Listed(S, age2, off, len))
<1> USE DEF SameOrder, YoungestOf
<1>1. PICK n, p : /\ Sorts(p, n, S, age)
                  /\ \A s \in S : \E i \in 1 .. n : p[i] = s
                  /\ \A i, j \in 1 .. n : i # j => p[i] # p[j]
  BY Sortable
<1>2. PICK k \in 1 .. n : p[k] = h
  BY <1>1
<1> DEFINE p2 == [i \in 1 .. n |-> p[From(k, i)]]
<1>3. n \in Nat /\ n = Cardinality(S) /\ p \in [1 .. n -> S]
  BY <1>1 DEF Sorts
<1>4. /\ \A i \in 1 .. n : From(k, i) \in 1 .. n
      /\ \A i, j \in 1 .. n : i < j /\ i # 1 => From(k, i) < From(k, j)
      /\ From(k, 1) = k /\ \A i \in 1 .. n : i # 1 => From(k, i) # k
  BY <1>3 DEF From
<1>5. Sorts(p2, n, S, age2)
  <2>1. p2 \in [1 .. n -> S]
    BY <1>3, <1>4
  <2>2. ASSUME NEW i \in 1 .. n, NEW j \in 1 .. n, i < j
        PROVE  IsYounger(age2, p2[i], p2[j])
    <3>1. p2[i] = p[From(k, i)] /\ p2[j] = p[From(k, j)]
      OBVIOUS
    <3>2. From(k, j) \in 1 .. n /\ From(k, j) # k /\ p[From(k, j)] \in S \ {h}
      BY <1>1, <1>2, <1>3, <1>4, <2>2
    <3>3. CASE i = 1
      BY <1>2, <1>4, <3>1, <3>2, <3>3
    <3>4. CASE i # 1
      <4>1. From(k, i) \in 1 .. n /\ From(k, i) # k /\ p[From(k, i)] \in S \ {h}
        BY <1>1, <1>2, <1>3, <1>4, <3>4
      <4>2. IsYounger(age, p[From(k, i)], p[From(k, j)])
        BY <1>1, <1>4, <2>2, <3>2, <3>4, <4>1 DEF Sorts
      <4> QED
        BY <3>1, <3>2, <4>1, <4>2
    <3> QED
      BY <3>3, <3>4
  <2> HIDE DEF p2
  <2> QED
    BY <1>3, <2>1, <2>2 DEF Sorts
<1>6. w = EntryList(n, p, off, len)
  BY <1>1, ListedIs
<1>7. Listed(S, age2, off, len) =
        EntryList(n, p2, off, len)
  BY <1>5, ListedIs
<1>8. PICK E : w \in Seq(E)
  BY <1>3, <1>6, EntryListIs
<1>9. Len(w) = n
  BY <1>3, <1>6, EntryListIs
<1>10. Listed(S, age2, off, len) = Fronted(w, k)
  BY <1>4, <1>6, <1>7, <1>9 DEF EntryList, Fronted
<1>11. k \in 1 .. Len(w)
  BY <1>9
<1>12. <<w[k]>> \o SubSeq(w, 1, k - 1) \o SubSeq(w, k + 1, Len(w)) =
         Fronted(w, k)
  BY <1>8, <1>11, MovedToFront
<1> QED
  <2> DEFINE w2 == Listed(S, age2, off, len)
  <2>1. 1 \in 1 .. n /\ p2[1] = h
    BY <1>2, <1>3, <1>4
  <2>2. w2[1] = [off |-> off[h], len |-> len[h]]
    BY <1>7, <2>1 DEF EntryList
  <2>3. Len(w2) = n
    BY <1>3, <1>7, EntryListIs
  <2> HIDE DEF w2
  <2>4. StartsWith(w2, [off |-> off[h], len |-> len[h]])
    BY <1>3, <2>1, <2>2, <2>3 DEF StartsWith
  <2> QED
    BY <1>10, <1>11, <1>12, <2>4 DEF Touched, w2

(* The entry that is dropped is the last. *)
LEMMA DroppedList ==
  ASSUME NEW S, NEW v, NEW age, NEW off, NEW len, NEW age2, NEW off2, NEW len2,
         Drops(S, v, age, off, len, age2, off2, len2)
  PROVE  Dropped(Listed(S, age, off, len), Listed(S \ {v}, age2, off2, len2))
<1>0. /\ S \in SUBSET Slots /\ v \in S /\ Total(age) /\ Total(age2)
      /\ OldestOf(S \ {v}, age, v)
      /\ SameOrder(S \ {v}, age, age2) /\ SameEntries(S \ {v}, off, len, off2, len2)
  BY DEF Drops
<1> DEFINE w == Listed(S, age, off, len)
<1> HIDE DEF w
<1>1. PICK n, p : /\ Sorts(p, n, S, age)
                  /\ \A s \in S : \E i \in 1 .. n : p[i] = s
                  /\ \A i, j \in 1 .. n : i # j => p[i] # p[j]
  BY <1>0, Sortable
<1> USE <1>0 DEF SameOrder, SameEntries, OldestOf
<1>2. n \in Nat /\ n = Cardinality(S) /\ p \in [1 .. n -> S]
  BY <1>1 DEF Sorts
<1>3. PICK k \in 1 .. n : p[k] = v
  BY <1>1
<1>4. n \in 1 .. n /\ k = n
  <2>1. n \in 1 .. n
    BY <1>2
  <2>2. ASSUME k # n PROVE FALSE
    <3>1. p[n] \in S \ {v} /\ p[n] \in Slots /\ v \in Slots
      BY <1>1, <1>2, <1>3, <2>1, <2>2
    <3>2. IsYounger(age, v, p[n])
      BY <1>1, <1>2, <1>3, <2>1, <2>2 DEF Sorts
    <3> QED
      BY <3>1, <3>2, YoungerIs
  <2> QED
    BY <2>1, <2>2
<1> DEFINE m == n - 1
           p2 == [i \in 1 .. m |-> p[i]]
           T == S \ {v}
<1>5. m \in Nat /\ \A i \in 1 .. m : i \in 1 .. n /\ i # n
  BY <1>2, <1>4
<1>6. IsFiniteSet(S) /\ Cardinality(T) = m
  <2>1. IsFiniteSet(S)
    BY RankIs
  <2> QED
    BY <1>2, <2>1, FS_RemoveElement
<1>7. T \in SUBSET Slots /\ \A i \in 1 .. m : p[i] \in T
  BY <1>1, <1>2, <1>3, <1>4, <1>5
<1> HIDE DEF m, T
<1>8. Sorts(p2, m, T, age2)
  <2>1. p2 \in [1 .. m -> T] /\ \A i \in 1 .. m : p2[i] = p[i]
    BY <1>7
  <2>2. \A i, j \in 1 .. m : i < j => IsYounger(age2, p2[i], p2[j])
    BY <1>1, <1>5, <1>7, <2>1 DEF Sorts, T
  <2> HIDE DEF p2
  <2> QED
    BY <1>5, <1>6, <2>1, <2>2 DEF Sorts
<1>9. w = EntryList(n, p, off, len)
  BY <1>1, ListedIs DEF w
<1>10. Listed(T, age2, off2, len2) =
         EntryList(m, p2, off2, len2)
  BY <1>7, <1>8, ListedIs
<1>11. Listed(T, age2, off2, len2) = [i \in 1 .. m |-> w[i]]
  <2>1. \A i \in 1 .. m : off2[p[i]] = off[p[i]] /\ len2[p[i]] = len[p[i]]
    BY <1>7 DEF T
  <2> QED
    BY <1>5, <1>9, <1>10, <2>1 DEF EntryList
<1>12. (\E E : w \in Seq(E)) /\ Len(w) = n
  BY <1>2, <1>9, EntryListIs
<1>13. Len(w) > 0
  BY <1>4, <1>12
<1>14. SubSeq(w, 1, Len(w) - 1) = [i \in 1 .. Len(w) - 1 |-> w[i]]
  BY <1>12, <1>13, LastDropped
<1> QED
  BY <1>11, <1>12, <1>14 DEF m, T, w, Dropped

(* An entry that comes in is the first. *)
LEMMA InsertedList ==
  ASSUME NEW S, NEW v, NEW age, NEW off, NEW len, NEW age2, NEW off2, NEW len2,
         Adds(S, v, age, off, len, age2, off2, len2)
  PROVE  Added(Listed(S, age, off, len), [off |-> off2[v], len |-> len2[v]],
               Listed(S \union {v}, age2, off2, len2))
<1>0. /\ S \in SUBSET Slots /\ v \in Slots \ S /\ Total(age) /\ Total(age2)
      /\ YoungestOf(S, age2, v)
      /\ SameOrder(S, age, age2) /\ SameEntries(S, off, len, off2, len2)
  BY DEF Adds
<1> DEFINE w == Listed(S, age, off, len)
<1> HIDE DEF w
<1>1. PICK n, p : Sorts(p, n, S, age)
  BY <1>0, Sortable
<1> USE <1>0 DEF SameOrder, SameEntries, YoungestOf
<1>2. n \in Nat /\ n = Cardinality(S) /\ p \in [1 .. n -> S]
  BY <1>1 DEF Sorts
<1> DEFINE m == n + 1
           p2 == [i \in 1 .. m |-> IF i = 1 THEN v ELSE p[i - 1]]
           T == S \union {v}
<1>3. m \in Nat /\ \A i \in 1 .. m : i # 1 => i - 1 \in 1 .. n
  BY <1>2
<1>4. T \in SUBSET Slots /\ v \in T
  OBVIOUS
<1>5. Cardinality(T) = m
  BY <1>2, RankIs, FS_AddElement
<1> HIDE DEF m
<1>6. Sorts(p2, m, T, age2)
  <2>1. p2 \in [1 .. m -> T]
    BY <1>2, <1>3
  <2>2. ASSUME NEW i \in 1 .. m, NEW j \in 1 .. m, i < j
        PROVE  IsYounger(age2, p2[i], p2[j])
    <3>1. j # 1 /\ j - 1 \in 1 .. n /\ p2[j] = p[j - 1] /\ p[j - 1] \in S
      BY <1>2, <1>3, <2>2
    <3>2. CASE i = 1
      BY <3>1, <3>2
    <3>3. CASE i # 1
      <4>1. i - 1 \in 1 .. n /\ i - 1 < j - 1 /\ p2[i] = p[i - 1] /\ p[i - 1] \in S
        BY <1>2, <1>3, <2>2, <3>3
      <4>2. IsYounger(age, p[i - 1], p[j - 1])
        BY <1>1, <3>1, <4>1 DEF Sorts
      <4> QED
        BY <3>1, <4>1, <4>2
    <3> QED
      BY <3>2, <3>3
  <2> HIDE DEF p2, T
  <2> QED
    BY <1>3, <1>5, <2>1, <2>2 DEF Sorts
<1>7. w = EntryList(n, p, off, len)
  BY <1>1, ListedIs DEF w
<1> HIDE DEF T
<1>8. Listed(T, age2, off2, len2) =
        EntryList(m, p2, off2, len2)
  BY <1>4, <1>6, ListedIs
<1> DEFINE e == [off |-> off2[v], len |-> len2[v]]
<1>9. Listed(T, age2, off2, len2) = [i \in 1 .. m |-> IF i = 1 THEN e ELSE w[i - 1]]
  <2>1. \A i \in 1 .. n : off2[p[i]] = off[p[i]] /\ len2[p[i]] = len[p[i]]
    BY <1>2
  <2>2. \A i \in 1 .. m : [off |-> off2[p2[i]], len |-> len2[p2[i]]] =
                          IF i = 1 THEN e ELSE w[i - 1]
    BY <1>3, <1>7, <2>1 DEF EntryList
  <2> HIDE DEF p2, e
  <2> QED
    BY <1>8, <2>2 DEF EntryList
<1>10. (\E E : w \in Seq(E)) /\ Len(w) = n
  BY <1>2, <1>7, EntryListIs
<1> HIDE DEF e
<1>11. <<e>> \o w = [i \in 1 .. Len(w) + 1 |-> IF i = 1 THEN e ELSE w[i - 1]]
  BY <1>10, PutInFront
<1> QED
  <2> DEFINE w2 == Listed(T, age2, off2, len2)
  <2>1. w2 = <<e>> \o w
    BY <1>9, <1>10, <1>11 DEF m
  <2>2. 1 \in 1 .. m /\ w2[1] = e
    BY <1>2, <1>9 DEF m
  <2>3. Len(w2) = m
    BY <1>3, <1>8, EntryListIs
  <2> HIDE DEF w2
  <2>4. StartsWith(w2, e)
    BY <1>3, <2>2, <2>3 DEF StartsWith
  <2> QED
    BY <2>1, <2>4 DEF T, e, w, w2, Added

-----------------------------------------------------------------------------
(* No call asks for nothing.  The scan takes every entry that holds the    *)
(* offset of an empty request for its answer (img_io.c:150).               *)
NoEmptyReads == 0 \notin Lengths

(* No age is above the one of a fresh entry, and while an entry is loaded  *)
(* all others have aged since.                                             *)
AgesOK ==
  /\ \A s \in Slots : cache_age[s] <= CacheAge
  /\ \A t \in Threads : pc[t] = "load" => \A s \in Live : cache_age[s] < CacheAge
  /\ \A t \in Threads : pc[t] # "idle" => req[t].len > 0

(* To the owner of the lock, only an entry that it is filling itself is    *)
(* not there.                                                              *)
LEMMA LiveIs ==
  ASSUME LockOwned, NEW t \in Threads, InCriticalSection(t)
  PROVE  Live = {s \in Slots : cache_len[s] > 0 /\ ~(pc[t] = "load" /\ next[t] = s)}
<1>1. \A u \in Threads : pc[u] = "load" => u = t
  BY OwnerAlone DEF InCriticalSection
<1> QED
  BY <1>1 DEF Live, BeingFilled

(* The same after a step *)
LEMMA LiveThen ==
  ASSUME LockOwned', NEW t \in Threads, InCriticalSection(t)'
  PROVE  Live' = {s \in Slots : cache_len'[s] > 0 /\ ~(pc'[t] = "load" /\ next'[t] = s)}
<1>1. \A u \in Threads : pc'[u] = "load" => u = t
  BY DEF InCriticalSection, LockOwned
<1> QED
  BY <1>1 DEF Live, BeingFilled, Slots

(* While a slot is left, the cache is not full. *)
LEMMA NotFull ==
  ASSUME NEW S \in SUBSET Slots, NEW v \in Slots \ S
  PROVE  Cardinality(S) < CacheNum
<1>1. IsFiniteSet(Slots) /\ Cardinality(Slots) = CacheNum /\ S # Slots
  BY SlotsFinite
<1>2. /\ Cardinality(S) \in Nat
      /\ Cardinality(S) <= CacheNum /\ Cardinality(S) # CacheNum
  BY <1>1, FS_Subset, FS_CardinalityType
<1> QED
  BY <1>2, SizeAssumption

(* The ages are numbers. *)
LEMMA AgesTotal == ASSUME IInv, IInv' PROVE Total(cache_age) /\ Total(cache_age')
  BY DEF IInv, TypeOK, CacheTypeOK, Total, Slots

(* A step that touches neither the cache nor a load keeps the list. *)
LEMMA QuietKeepsList ==
  ASSUME AgesOK, UNCHANGED <<cacheVars, next>>,
         \A u \in Threads : pc'[u] = "load" <=> pc[u] = "load",
         \A u \in Threads : pc'[u] # "idle" => req'[u].len > 0
  PROVE  AgesOK' /\ Recency' = Recency
<1>1. Live' = Live
  BY DEF Live, BeingFilled, cacheVars, Slots
<1>2. Recency' = Recency
  BY <1>1 DEF Recency, Listed, InOrder, Rank, IsYounger, cacheVars
<1>3. AgesOK'
  BY <1>1 DEF AgesOK, cacheVars, Slots
<1> QED
  BY <1>2, <1>3

(* Every call asks for something. *)
LEMMA QuietSteps ==
  ASSUME NoEmptyReads, IInv, AgesOK, NEW t \in Threads,
         \/ RejectArgs(t) \/ Call(t) \/ TakeLock(t) \/ Unlock(t)
         \/ BigReadAligned(t) \/ BigReadBounce(t) \/ BigReadNoMemory(t) \/ PastEnd(t)
  PROVE  AgesOK' /\ Recency' = Recency
<1>1. /\ UNCHANGED <<cacheVars, next>>
      /\ pc[t] # "load"
      /\ pc' = pc \/ \E l \in {"idle", "wait", "locked", "unlock"} :
                        pc' = [pc EXCEPT ![t] = l]
  BY DEF RejectArgs, Call, TakeLock, Unlock, BigReadAligned, BigReadBounce,
         BigReadNoMemory, PastEnd, Return
<1>2. /\ pc \in [Threads -> {"idle", "wait", "locked", "load", "unlock"}]
      /\ req \in [Threads -> Requests]
  BY DEF IInv, TypeOK, CallTypeOK
<1>3. \A u \in Threads : pc'[u] = "load" <=> pc[u] = "load"
  BY <1>1, <1>2
<1>4. \A u \in Threads : pc'[u] # "idle" => req'[u].len > 0
  <2>1. CASE RejectArgs(t)
    <3>1. pc' = pc /\ pc[t] = "idle" /\ \A u \in Threads \ {t} : req'[u] = req[u]
      BY <1>2, <2>1 DEF RejectArgs
    <3> QED
      BY <3>1 DEF AgesOK
  <2>2. CASE Call(t)
    <3>1. PICK off \in Offsets, len \in Lengths :
            req' = [req EXCEPT ![t] = [off |-> off, len |-> len]]
      BY <2>2 DEF Call
    <3>2. len > 0
      BY RequestAssumption DEF NoEmptyReads
    <3>3. \A u \in Threads \ {t} : req'[u] = req[u] /\ pc'[u] = pc[u]
      BY <1>2, <2>2, <3>1 DEF Call
    <3>4. req'[t].len = len
      BY <1>2, <3>1
    <3> QED
      BY <3>2, <3>3, <3>4 DEF AgesOK
  <2>3. CASE ~RejectArgs(t) /\ ~Call(t)
    <3>1. req' = req /\ pc[t] # "idle"
      BY <2>3 DEF TakeLock, Unlock, BigReadAligned, BigReadBounce,
                  BigReadNoMemory, PastEnd
    <3>2. \A u \in Threads : pc'[u] # "idle" => pc[u] # "idle"
      BY <1>1, <1>2, <3>1
    <3> QED
      BY <3>1, <3>2 DEF AgesOK
  <2> QED
    BY <2>1, <2>2, <2>3
<1> QED
  BY <1>1, <1>3, <1>4, QuietKeepsList

(* A step on the cache leaves the requests alone. *)
LEMMA RequestsKept ==
  ASSUME IInv, AgesOK, NEW t \in Threads, pc[t] # "idle", req' = req, NEW l,
         pc' = [pc EXCEPT ![t] = l]
  PROVE  \A u \in Threads : pc'[u] # "idle" => req'[u].len > 0
  BY DEF AgesOK, IInv, TypeOK, CallTypeOK

(* A hit: the entry that answers moves to the front. *)
LEMMA HitTouches ==
  ASSUME IInv, IInv', AgesOK, NEW t \in Threads, LookupHit(t)
  PROVE  AgesOK' /\ Lru!Touch /\ AnswerIsYoungest(t)
<1> DEFINE q == req[t]
<1>1. /\ pc[t] = "locked" /\ pc' = [pc EXCEPT ![t] = "unlock"]
      /\ cache_age' = Aged(q) /\ Clipped(q) > 0
      /\ UNCHANGED <<cache_off, cache_len, next, req>>
  BY DEF LookupHit, Return
<1>2. PICK h \in Slots : Hit(h, q)
  BY DEF LookupHit
<1>3. \A x \in Slots : Hit(x, q) => x = h
  <2> SUFFICES ASSUME NEW x \in Slots, Hit(x, q), x # h PROVE FALSE
    OBVIOUS
  <2>1. Clipped(q) # 0
    BY <1>1
  <2>2. /\ Holds(x, q) /\ \A y \in 0 .. x - 1 : ~Holds(y, q)
        /\ Holds(h, q) /\ \A y \in 0 .. h - 1 : ~Holds(y, q)
    BY <1>2, <2>1 DEF Hit
  <2>3. x \in Nat /\ h \in Nat
    BY SlotsFinite
  <2>4. x \in 0 .. h - 1 \/ h \in 0 .. x - 1
    BY <2>3
  <2> QED
    BY <2>2, <2>4
<1>4. pc'[t] = "unlock"
  BY <1>1 DEF IInv, TypeOK, CallTypeOK
<1>5. /\ Live = {s \in Slots : cache_len[s] > 0}
      /\ Live' = {s \in Slots : cache_len[s] > 0}
  <2>1. Live = {s \in Slots : cache_len[s] > 0 /\ ~(pc[t] = "load" /\ next[t] = s)}
    BY <1>1, LiveIs DEF IInv, InCriticalSection
  <2>2. Live' = {s \in Slots : cache_len'[s] > 0 /\ ~(pc'[t] = "load" /\ next'[t] = s)}
    BY <1>4, LiveThen DEF IInv, InCriticalSection
  <2> QED
    BY <1>1, <1>4, <2>1, <2>2
<1>6. h \in Live /\ Live \in SUBSET Slots
  BY <1>2, <1>5 DEF Hit, Holds
<1>7. /\ cache_age \in [Slots -> Int] /\ cache_len \in [Slots -> 0 .. CacheLen]
      /\ CacheAge \in Int /\ CacheLen \in Int
  BY SizeAssumption DEF IInv, TypeOK, CacheTypeOK
<1>8. \A s \in Slots :
        cache_age'[s] = IF s = h THEN CacheAge
                        ELSE IF cache_len[s] = 0 THEN cache_age[s] ELSE cache_age[s] - 1
  <2>1. cache_len[h] # 0
    BY <1>5, <1>6, <1>7
  <2> QED
    BY <1>1, <1>2, <1>3, <2>1 DEF Aged
<1>9. AgesOK'
  <2>1. \A s \in Slots : cache_age'[s] <= CacheAge
    BY <1>7, <1>8 DEF AgesOK
  <2>2. \A u \in Threads : pc'[u] # "load"
    BY <1>1, OwnerAlone DEF IInv, TypeOK, CallTypeOK, InCriticalSection
  <2>3. \A u \in Threads : pc'[u] # "idle" => req'[u].len > 0
    BY <1>1, RequestsKept
  <2> QED
    BY <2>1, <2>2, <2>3 DEF AgesOK, Slots
<1>10. \A x \in Live \ {h} : cache_age'[x] = cache_age[x] - 1 /\ cache_age[x] <= CacheAge
  BY <1>5, <1>7, <1>8 DEF AgesOK
<1>11. YoungestOf(Live \ {h}, cache_age', h)
  BY <1>6, <1>7, <1>8, <1>10 DEF IsYounger, YoungestOf
<1>12. SameOrder(Live \ {h}, cache_age, cache_age')
  BY <1>6, <1>7, <1>10 DEF IsYounger, SameOrder
<1>13. Total(cache_age) /\ Total(cache_age')
  BY AgesTotal
<1>14. Recency = Listed(Live, cache_age, cache_off, cache_len)
  BY DEF Recency
<1>15. Recency' = Listed(Live, cache_age', cache_off, cache_len)
  BY <1>1, <1>5 DEF Recency
<1> DEFINE e == [off |-> cache_off[h], len |-> cache_len[h]]
<1>16. Touched(Recency, e, Recency')
  BY <1>6, <1>11, <1>12, <1>13, <1>14, <1>15, TouchedList
<1>17. AnswerIsYoungest(t)
  <2>1. ret'[t].n = Clipped(q)
    <3>1. PICK s \in Slots :
            Return(t, [n |-> Clipped(q),
                       data |-> Copy(cache[s], q.off - cache_off[s], Clipped(q))])
      BY DEF LookupHit
    <3> QED
      BY <3>1 DEF Return, IInv, TypeOK, ResultTypeOK
  <2>2. /\ e.off = cache_off[h] /\ e.len = cache_len[h]
        /\ cache_off[h] <= q.off
        /\ q.off + Clipped(q) <= cache_off[h] + cache_len[h]
    <3>1. /\ cache_off[h] <= q.off
          /\ cache_off[h] + cache_len[h] >= q.off + Clipped(q)
      BY <1>2 DEF Hit, Holds
    <3>2. /\ cache_off[h] \in Int /\ cache_len[h] \in Int
          /\ q.off \in Int /\ Clipped(q) \in Int
      <4>1. q.off \in Nat /\ q.len \in Nat /\ q.off < ImgSize
        BY <1>1, RequestType DEF LookupHit
      <4> QED
        BY <1>7, <4>1, ClippedBounds DEF IInv, TypeOK, CacheTypeOK
    <3> QED
      BY <3>1, <3>2
  <2> HIDE DEF e
  <2>3. Len(Recency') > 0 /\ Recency'[1] = e
    BY <1>16 DEF Touched, StartsWith
  <2> QED
    BY <2>1, <2>2, <2>3 DEF AnswerIsYoungest
<1> QED
  BY <1>9, <1>16, <1>17 DEF Lru!Touch, Touched

(* A miss: the oldest entry leaves when there is no other place. *)
LEMMA MissEvicts ==
  ASSUME IInv, IInv', AgesOK, NEW t \in Threads, LookupMiss(t)
  PROVE  AgesOK' /\ (Lru!Evict \/ Recency' = Recency)
<1> DEFINE q == req[t]
<1>1. /\ pc[t] = "locked" /\ pc' = [pc EXCEPT ![t] = "load"]
      /\ cache_age' = Aged(q) /\ q.off < ImgSize
      /\ Clipped(q) > 0 => \A s \in Slots : ~Holds(s, q)
      /\ UNCHANGED <<cache_len, req>>
  BY DEF LookupMiss
<1>2. Clipped(q) > 0
  <2>1. q.off \in Nat /\ q.len \in Nat
    BY <1>1, RequestType
  <2>2. q.len > 0
    BY <1>1 DEF AgesOK
  <2> QED
    BY <1>1, <2>1, <2>2, SizeAssumption DEF Clipped, Minimum
<1>3. \A s \in Slots : ~Hit(s, q)
  BY <1>1, <1>2 DEF Hit
<1>4. PICK v \in Slots :
        /\ IsVictim(v, q, cache_age')
        /\ next' = [next EXCEPT ![t] = v]
        /\ cache_off' = [cache_off EXCEPT ![v] = SectorStart(q.off)]
  BY <1>1 DEF LookupMiss
<1>5. /\ cache_age \in [Slots -> Int] /\ cache_len \in [Slots -> 0 .. CacheLen]
      /\ CacheAge \in Int /\ CacheLen \in Int
      /\ cache_off \in [Slots -> Nat]
  BY SizeAssumption DEF IInv, TypeOK, CacheTypeOK
<1>6. /\ pc'[t] = "load" /\ next'[t] = v
      /\ \A u \in Threads : pc'[u] = "load" => u = t
  <2>1. pc'[t] = "load" /\ next'[t] = v
    BY <1>1, <1>4 DEF IInv, TypeOK, CallTypeOK
  <2>2. \A u \in Threads : pc'[u] = "load" => u = t
    BY <2>1 DEF IInv, LockOwned, InCriticalSection
  <2> QED
    BY <2>1, <2>2
<1>7. /\ Live = {s \in Slots : cache_len[s] > 0}
      /\ Live' = Live \ {v}
  <2>1. Live = {s \in Slots : cache_len[s] > 0 /\ ~(pc[t] = "load" /\ next[t] = s)}
    BY <1>1, LiveIs DEF IInv, InCriticalSection
  <2>2. Live' = {s \in Slots : cache_len'[s] > 0 /\ ~(pc'[t] = "load" /\ next'[t] = s)}
    BY <1>6, LiveThen DEF IInv, InCriticalSection
  <2> QED
    BY <1>1, <1>6, <2>1, <2>2
<1>8. \A s \in Slots :
        cache_age'[s] = IF cache_len[s] = 0 THEN cache_age[s] ELSE cache_age[s] - 1
  BY <1>1, <1>3 DEF Aged
<1>9. \A s \in Live : s \in Slots /\ cache_age'[s] = cache_age[s] - 1
  BY <1>5, <1>7, <1>8
<1>10. AgesOK'
  <2>1. \A s \in Slots : cache_age'[s] <= CacheAge
    BY <1>5, <1>8 DEF AgesOK
  <2>2. \A s \in Live' : cache_age'[s] < CacheAge
    BY <1>5, <1>7, <1>9 DEF AgesOK
  <2>3. \A u \in Threads : pc'[u] # "idle" => req'[u].len > 0
    BY <1>1, RequestsKept
  <2> QED
    BY <2>1, <2>2, <2>3 DEF AgesOK, Slots
<1>11. SameOrder(Live, cache_age, cache_age')
  BY <1>5, <1>9 DEF SameOrder, IsYounger
<1>12. Total(cache_age) /\ Total(cache_age')
  BY AgesTotal
<1>13. SameEntries(Live \ {v}, cache_off, cache_len, cache_off', cache_len')
  BY <1>1, <1>4, <1>5, <1>7 DEF SameEntries
<1>14. /\ Recency = Listed(Live, cache_age, cache_off, cache_len)
       /\ Recency' = Listed(Live \ {v}, cache_age', cache_off', cache_len')
  BY <1>7 DEF Recency
<1>15. Live \in SUBSET Slots
  BY <1>7
<1>16. CASE \E s \in Slots : cache_len[s] = 0
  <2>1. cache_len[v] = 0
    BY <1>4, <1>16 DEF IsVictim
  <2>2. Live \ {v} = Live
    BY <1>7, <2>1
  <2>3. Listed(Live, cache_age', cache_off', cache_len')
          = Listed(Live, cache_age, cache_off, cache_len)
    BY <1>11, <1>12, <1>13, <1>15, <2>2, SameList
  <2> QED
    BY <1>10, <1>14, <2>2, <2>3
<1>17. CASE ~(\E s \in Slots : cache_len[s] = 0)
  <2>1. Live = Slots
    BY <1>5, <1>7, <1>17
  <2>2. \A s \in Slots : cache_age'[v] < cache_age'[s]
                         \/ (cache_age'[v] = cache_age'[s] /\ v <= s)
    BY <1>3, <1>4, <1>17 DEF IsVictim
  <2>3. OldestOf(Live \ {v}, cache_age, v)
    <3> SUFFICES ASSUME NEW x \in Live \ {v} PROVE IsYounger(cache_age, x, v)
      BY DEF OldestOf
    <3>1. /\ x \in Slots /\ x \in Nat /\ v \in Nat /\ x # v
          /\ cache_age'[x] = cache_age[x] - 1 /\ cache_age'[v] = cache_age[v] - 1
          /\ cache_age[x] \in Int /\ cache_age[v] \in Int
      BY <1>5, <1>9, <2>1, SlotsFinite
    <3>2. cache_age'[v] < cache_age'[x] \/ (cache_age'[v] = cache_age'[x] /\ v <= x)
      BY <2>2, <3>1
    <3> QED
      BY <3>1, <3>2 DEF IsYounger
  <2>4. SameOrder(Live \ {v}, cache_age, cache_age')
    BY <1>11 DEF SameOrder
  <2>5. v \in Live
    BY <2>1
  <2>6. /\ Len(Recency) = Cardinality(Live)
        /\ Recency' = SubSeq(Recency, 1, Cardinality(Live) - 1)
    <3>1. Drops(Live, v, cache_age, cache_off, cache_len,
                cache_age', cache_off', cache_len')
      BY <1>12, <1>13, <1>15, <2>3, <2>4, <2>5 DEF Drops
    <3>2. Dropped(Recency, Recency')
      BY <1>14, <3>1, DroppedList
    <3>3. Len(Recency) = Cardinality(Live)
      BY <1>12, <1>14, <1>15, ListedLength
    <3> QED
      BY <3>2, <3>3 DEF Dropped
  <2>7. Cardinality(Live) = CacheNum
    BY <2>1, SlotsFinite
  <2> QED
    BY <1>10, <2>6, <2>7 DEF Lru!Evict
<1> QED
  BY <1>16, <1>17

(* A load that succeeds: the new entry is the first. *)
LEMMA LoadInserts ==
  ASSUME IInv, IInv', AgesOK, NEW t \in Threads, LoadOk(t)
  PROVE  AgesOK' /\ Lru!Insert /\ AnswerIsYoungest(t)
<1> DEFINE v == next[t]
<1>1. PICK n \in Answers(cache_off[v], ReadSize(cache_off[v])) :
        /\ n > 0
        /\ cache_age' = [cache_age EXCEPT ![v] = CacheAge]
        /\ cache_len' = [cache_len EXCEPT ![v] = n]
        /\ Return(t, [n |-> Available(req[t], cache_off[v], n),
                      data |-> Copy(Filled(cache[v], cache_off[v], n),
                                    req[t].off - cache_off[v],
                                    Available(req[t], cache_off[v], n))])
  BY DEF LoadOk
<1>2. /\ pc[t] = "load" /\ pc' = [pc EXCEPT ![t] = "unlock"]
      /\ UNCHANGED <<cache_off, next, req>>
  BY DEF LoadOk, Return
<1>3. /\ v \in Slots /\ cache_off[v] \in Nat /\ cache_off[v] <= ImgSize
      /\ n \in 1 .. CacheLen
      /\ req[t].off \in Nat /\ req[t].len \in Nat
      /\ cache_off[v] <= req[t].off /\ req[t].off < ImgSize
  BY <1>1, <1>2, LoadWindow, RequestType, SizeAssumption
<1>4. /\ cache_age \in [Slots -> Int] /\ cache_len \in [Slots -> 0 .. CacheLen]
      /\ CacheAge \in Int /\ CacheLen \in Int
  BY SizeAssumption DEF IInv, TypeOK, CacheTypeOK
<1> HIDE DEF v
<1>5. /\ cache_age'[v] = CacheAge /\ cache_len'[v] = n
      /\ \A s \in Slots \ {v} : cache_age'[s] = cache_age[s] /\ cache_len'[s] = cache_len[s]
  BY <1>1, <1>3, <1>4
<1>6. pc'[t] = "unlock"
  BY <1>2 DEF IInv, TypeOK, CallTypeOK
<1>7. v \in Slots \ Live /\ Live \in SUBSET Slots /\ Live' = Live \union {v}
  <2>1. Live = {s \in Slots : cache_len[s] > 0 /\ ~(pc[t] = "load" /\ next[t] = s)}
    BY <1>2, LiveIs DEF IInv, InCriticalSection
  <2>2. Live' = {s \in Slots : cache_len'[s] > 0 /\ ~(pc'[t] = "load" /\ next'[t] = s)}
    BY <1>6, LiveThen DEF IInv, InCriticalSection
  <2>3. Live = {s \in Slots \ {v} : cache_len[s] > 0}
    BY <1>2, <2>1 DEF v
  <2>4. Live' = {s \in Slots : cache_len'[s] > 0}
    BY <1>6, <2>2
  <2>5. cache_len'[v] > 0
    BY <1>3, <1>5
  <2> QED
    BY <1>3, <1>5, <2>3, <2>4, <2>5
<1>8. \A s \in Live : cache_age'[s] = cache_age[s] /\ cache_age[s] < CacheAge
  BY <1>2, <1>5, <1>7 DEF AgesOK
<1>9. AgesOK'
  <2>1. \A s \in Slots : cache_age'[s] <= CacheAge
    BY <1>4, <1>5 DEF AgesOK
  <2>2. \A u \in Threads : pc'[u] # "load"
    BY <1>6 DEF IInv, LockOwned, InCriticalSection
  <2>3. \A u \in Threads : pc'[u] # "idle" => req'[u].len > 0
    BY <1>2, RequestsKept
  <2> QED
    BY <2>1, <2>2, <2>3 DEF AgesOK, Slots
<1>10. YoungestOf(Live, cache_age', v)
  BY <1>4, <1>5, <1>7, <1>8 DEF YoungestOf, IsYounger
<1>11. SameOrder(Live, cache_age, cache_age')
  BY <1>8 DEF SameOrder, IsYounger
<1>12. Total(cache_age) /\ Total(cache_age')
  BY AgesTotal
<1>13. SameEntries(Live, cache_off, cache_len, cache_off, cache_len')
  BY <1>5, <1>7 DEF SameEntries
<1>14. /\ Recency = Listed(Live, cache_age, cache_off, cache_len)
       /\ Recency' = Listed(Live \union {v}, cache_age', cache_off, cache_len')
  BY <1>2, <1>7 DEF Recency
<1> DEFINE e == [off |-> cache_off[v], len |-> cache_len'[v]]
<1>15. /\ Len(Recency) < CacheNum
       /\ StartsWith(Recency', e)
       /\ Recency' = <<[off |-> cache_off[v], len |-> cache_len'[v]]>> \o Recency
  <2>1. Adds(Live, v, cache_age, cache_off, cache_len,
              cache_age', cache_off, cache_len')
    BY <1>7, <1>10, <1>11, <1>12, <1>13 DEF Adds
  <2>2. Added(Recency, [off |-> cache_off[v], len |-> cache_len'[v]], Recency')
    BY <1>14, <2>1, InsertedList
  <2>3. Len(Recency) = Cardinality(Live)
    BY <1>7, <1>12, <1>14, ListedLength
  <2>4. Cardinality(Live) < CacheNum
    BY <1>7, NotFull
  <2> QED
    BY <2>2, <2>3, <2>4 DEF Added
<1>16. [off |-> cache_off[v], len |-> cache_len'[v]]
         \in [off : 0 .. ImgSize, len : 1 .. CacheLen]
  BY <1>3, <1>5, SizeAssumption DEF v
<1>17. AnswerIsYoungest(t)
  <2> DEFINE m == Available(req[t], cache_off[v], n)
  <2>1. ret'[t].n = m
    BY <1>1 DEF Return, IInv, TypeOK, ResultTypeOK
  <2>2. m > 0 => req[t].off + m <= cache_off[v] + n
    <3>1. /\ Clipped(req[t]) \in Int /\ n \in Int
          /\ req[t].off \in Int /\ cache_off[v] \in Int
      BY <1>3, ClippedBounds, SizeAssumption
    <3> QED
      BY <3>1 DEF Available, Minimum
  <2>3. Len(Recency') > 0 /\ Recency'[1].off = cache_off[v] /\ Recency'[1].len = n
    BY <1>5, <1>15 DEF StartsWith
  <2> HIDE DEF m
  <2> QED
    BY <1>3, <2>1, <2>2, <2>3 DEF AnswerIsYoungest, AnsweredFromCache
<1> QED
  BY <1>9, <1>15, <1>16, <1>17 DEF Lru!Insert

(* A load that fails: the entry was not in the list any more. *)
LEMMA FailureKeepsList ==
  ASSUME IInv, IInv', AgesOK, NEW t \in Threads, LoadFailed(t)
  PROVE  AgesOK' /\ Recency' = Recency
<1> DEFINE v == next[t]
<1>1. /\ pc[t] = "load" /\ pc' = [pc EXCEPT ![t] = "unlock"]
      /\ UNCHANGED <<next, req>>
      /\ cache_len' = [cache_len EXCEPT ![v] = 0]
      /\ cache_age' = [cache_age EXCEPT ![v] = 0]
      /\ cache_off' = [cache_off EXCEPT ![v] = 0]
  BY DEF LoadFailed, Return, Forget
<1>2. v \in Slots
  BY DEF IInv, TypeOK, CallTypeOK
<1>3. /\ cache_age \in [Slots -> Int] /\ cache_len \in [Slots -> 0 .. CacheLen]
      /\ cache_off \in [Slots -> Nat] /\ CacheAge \in Int /\ CacheAge > 0
      /\ CacheLen \in Int
  BY SizeAssumption DEF IInv, TypeOK, CacheTypeOK
<1> HIDE DEF v
<1>4. /\ cache_age'[v] = 0 /\ cache_len'[v] = 0
      /\ \A s \in Slots \ {v} : /\ cache_age'[s] = cache_age[s]
                                /\ cache_len'[s] = cache_len[s]
                                /\ cache_off'[s] = cache_off[s]
  BY <1>1, <1>2, <1>3
<1>5. pc'[t] = "unlock"
  BY <1>1 DEF IInv, TypeOK, CallTypeOK
<1>6. Live \in SUBSET (Slots \ {v}) /\ Live' = Live
  <2>1. Live = {s \in Slots : cache_len[s] > 0 /\ ~(pc[t] = "load" /\ next[t] = s)}
    BY <1>1, LiveIs DEF IInv, InCriticalSection
  <2>2. Live' = {s \in Slots : cache_len'[s] > 0 /\ ~(pc'[t] = "load" /\ next'[t] = s)}
    BY <1>5, LiveThen DEF IInv, InCriticalSection
  <2>3. Live = {s \in Slots \ {v} : cache_len[s] > 0}
    BY <1>1, <2>1 DEF v
  <2>4. Live' = {s \in Slots : cache_len'[s] > 0}
    BY <1>5, <2>2
  <2> QED
    BY <1>4, <2>3, <2>4
<1>7. AgesOK'
  <2>1. \A s \in Slots : cache_age'[s] <= CacheAge
    BY <1>3, <1>4 DEF AgesOK
  <2>2. \A u \in Threads : pc'[u] # "load"
    BY <1>5 DEF IInv, LockOwned, InCriticalSection
  <2>3. \A u \in Threads : pc'[u] # "idle" => req'[u].len > 0
    BY <1>1, RequestsKept
  <2> QED
    BY <2>1, <2>2, <2>3 DEF AgesOK, Slots
<1>8. SameOrder(Live, cache_age, cache_age')
  BY <1>4, <1>6 DEF SameOrder, IsYounger
<1>9. SameEntries(Live, cache_off, cache_len, cache_off', cache_len')
  BY <1>4, <1>6 DEF SameEntries
<1>10. Total(cache_age) /\ Total(cache_age')
  BY AgesTotal
<1>11. /\ Recency = Listed(Live, cache_age, cache_off, cache_len)
       /\ Recency' = Listed(Live, cache_age', cache_off', cache_len')
  BY <1>6 DEF Recency
<1> QED
  BY <1>6, <1>7, <1>8, <1>9, <1>10, <1>11, SameList

(* No other step answers a read from the cache. *)
LEMMA OnlyCacheAnswers ==
  ASSUME IInv, NEW u \in Threads, RejectArgs(u) \/ Call(u) \/ Step(u),
         NEW t \in Threads, AnsweredFromCache(t)
  PROVE  u = t /\ (LookupHit(t) \/ LoadOk(t))
<1>1. /\ pc[t] \in {"locked", "load"} /\ pc'[t] = "unlock"
      /\ ~TooLarge(req[t]) /\ ret'[t].n > 0
  BY DEF AnsweredFromCache
<1>2. u = t
  <2>1. pc' = pc \/ \E l : pc' = [pc EXCEPT ![u] = l]
    BY DEF RejectArgs, Call, Step, TakeLock, BigReadAligned, BigReadBounce,
           BigReadNoMemory, PastEnd, LookupHit, LookupMiss, LoadOk, LoadFailed,
           Unlock, Return
  <2> QED
    BY <1>1, <2>1 DEF IInv, TypeOK, CallTypeOK
<1>3. ~RejectArgs(t) /\ ~Call(t) /\ ~TakeLock(t) /\ ~Unlock(t)
  BY <1>1 DEF RejectArgs, Call, TakeLock, Unlock
<1>4. ~BigReadAligned(t) /\ ~BigReadBounce(t) /\ ~BigReadNoMemory(t)
  BY <1>1 DEF BigReadAligned, BigReadBounce, BigReadNoMemory
<1>5. ~LookupMiss(t)
  BY <1>1 DEF LookupMiss, IInv, TypeOK, CallTypeOK
<1>6. \A n \in Int : n <= 0 => ~Return(t, Error(n))
  <2> SUFFICES ASSUME NEW n \in Int, n <= 0, Return(t, Error(n)) PROVE FALSE
    OBVIOUS
  <2>1. ret'[t] = Error(n)
    BY DEF Return, IInv, TypeOK, ResultTypeOK
  <2> QED
    BY <1>1, <2>1, ErrorType
<1>7. ~PastEnd(t)
  <2>1. -1 \in Int /\ -1 <= 0
    OBVIOUS
  <2> QED
    BY <1>6, <2>1 DEF PastEnd
<1>8. ~LoadFailed(t)
  <2> SUFFICES ASSUME LoadFailed(t) PROVE FALSE
    OBVIOUS
  <2>1. PICK n \in Answers(cache_off[next[t]], ReadSize(cache_off[next[t]])) :
          n <= 0 /\ Return(t, Error(n))
    BY DEF LoadFailed
  <2>2. n \in Int
    BY <2>1 DEF Answers
  <2> QED
    BY <1>6, <2>1, <2>2
<1> QED
  BY <1>2, <1>3, <1>4, <1>5, <1>7, <1>8 DEF Step

-----------------------------------------------------------------------------
(* For every number of threads and every size of the cache: while no call  *)
(* asks for nothing, the age counters of tsk_img_read implement least-     *)
(* recently-used replacement.                                              *)
THEOREM ReplacementIsLru ==
  ASSUME NoEmptyReads
  PROVE  Spec => ReplacesLeastRecentlyUsed
<1>1. Init => AgesOK /\ Recency = <<>>
  <2> SUFFICES ASSUME Init PROVE AgesOK /\ Recency = <<>>
    OBVIOUS
  <2>1. Live = {}
    BY DEF Init, Live
  <2>2. Cardinality({}) = 0
    BY FS_EmptySet
  <2>3. Recency = <<>>
    BY <2>1, <2>2 DEF Recency, Listed
  <2>4. AgesOK
    BY SizeAssumption DEF Init, AgesOK
  <2> QED
    BY <2>3, <2>4
<1> DEFINE Answered == \A t \in Threads : AnswerIsYoungest(t)
<1>2. IInv /\ IInv' /\ AgesOK /\ [Next]_vars
        => AgesOK' /\ [Lru!Next]_Recency /\ [Answered]_vars
  <2> SUFFICES ASSUME IInv, IInv', AgesOK, [Next]_vars
               PROVE  AgesOK' /\ [Lru!Next]_Recency /\ [Answered]_vars
    OBVIOUS
  <2>1. CASE Next
    <3>1. PICK t \in Threads : RejectArgs(t) \/ Call(t) \/ Step(t)
      BY <2>1 DEF Next
    <3>2. LookupHit(t) => AgesOK' /\ [Lru!Next]_Recency
      BY HitTouches DEF Lru!Next
    <3>3. LookupMiss(t) => AgesOK' /\ [Lru!Next]_Recency
      BY MissEvicts DEF Lru!Next
    <3>4. LoadOk(t) => AgesOK' /\ [Lru!Next]_Recency
      BY LoadInserts DEF Lru!Next
    <3>5. LoadFailed(t) => AgesOK' /\ [Lru!Next]_Recency
      BY FailureKeepsList
    <3>6. ASSUME NEW u \in Threads PROVE AnswerIsYoungest(u)
      <4>1. CASE ~AnsweredFromCache(u)
        BY <4>1 DEF AnswerIsYoungest
      <4>2. CASE AnsweredFromCache(u)
        BY <3>1, <4>2, OnlyCacheAnswers, HitTouches, LoadInserts
      <4> QED
        BY <4>1, <4>2
    <3>7. AgesOK' /\ [Lru!Next]_Recency
      BY <3>1, <3>2, <3>3, <3>4, <3>5, QuietSteps DEF Step
    <3> QED
      BY <3>6, <3>7
  <2>2. CASE UNCHANGED vars
    <3>1. UNCHANGED <<cacheVars, next, pc, req>>
      BY <2>2 DEF vars, cacheVars
    <3>2. AgesOK' /\ Recency' = Recency
      BY <3>1, QuietKeepsList DEF AgesOK
    <3> QED
      BY <2>2, <3>2
  <2> QED
    BY <2>1, <2>2
<1>3. AgesOK /\ Recency = <<>> => Lru!Init
  BY DEF Lru!Init
<1> QED
  BY <1>1, <1>2, <1>3, Invariance, PTL
     DEF Spec, ReplacesLeastRecentlyUsed, Lru!Spec
=============================================================================
