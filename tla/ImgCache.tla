------------------------------ MODULE ImgCache ------------------------------
(***************************************************************************)
(* tsk_img_read (tsk/img/img_io.c): every read of an open disk image goes  *)
(* through it.  Threads share a small cache of image blocks that the       *)
(* mutex cache_lock protects; a read that is too large for a cache entry   *)
(* goes straight to the image format's own read function.                  *)
(*                                                                         *)
(* A byte of the image is represented by its offset, so data are right     *)
(* exactly when byte i of a buffer filled from offset o is o + i.          *)
(***************************************************************************)
EXTENDS ImgContract

CONSTANTS
  Threads,     \* threads that share one TSK_IMG_INFO
  NoThread,    \* the owner of a free cache_lock
  CacheNum,    \* TSK_IMG_INFO_CACHE_NUM
  CacheLen,    \* TSK_IMG_INFO_CACHE_LEN
  CacheAge,    \* CACHE_AGE
  Sector,      \* the 512 that offsets are rounded down to
  SectorSize,  \* TSK_IMG_INFO.sector_size
  Offsets,     \* offsets that callers ask for
  Lengths,     \* lengths that callers ask for
  MaxCalls     \* bound: how many reads are started

ASSUME ThreadsAssumption == NoThread \notin Threads
ASSUME SizeAssumption ==
  /\ ImgSize \in Nat
  /\ CacheNum \in Nat \ {0}
  /\ CacheLen \in Nat \ {0}
  /\ CacheAge \in Nat \ {0}
  /\ Sector \in Nat \ {0}
  /\ SectorSize \in Nat \ {0}
ASSUME RequestAssumption == Offsets \subseteq Int /\ Lengths \subseteq Nat
ASSUME BoundAssumption == MaxCalls \in Nat

VARIABLES
  lock,        \* cache_lock: the thread that holds it, or NoThread
  cache,       \* the bytes of each cache entry
  cache_off,   \* image offset each entry starts at
  cache_len,   \* bytes in use of each entry, 0 if unused
  cache_age,   \* higher means more recently used
  pc,          \* where each thread is in tsk_img_read
  req,         \* its arguments a_off and a_len
  next,        \* its local variable cache_next
  io,          \* its call of the format's read function, if it made one
  ret,         \* what the call returns: n (-1 for an error) and the data
  calls        \* number of calls started

cacheVars == <<cache, cache_off, cache_len, cache_age>>
vars == <<lock, cache, cache_off, cache_len, cache_age,
          pc, req, next, io, ret, calls>>

Slots == 0 .. CacheNum - 1
Zero  == -1                        \* a byte no read has filled: calloc's zero
Bytes == Nat \union {Zero}

(* A call of the format's read function: its arguments and its answer *)
Asked(off, len, n) == [off |-> off, len |-> len, n |-> n]
NotAsked == Asked(0, 0, 0)

Minimum(a, b) == IF a <= b THEN a ELSE b

-----------------------------------------------------------------------------
(* What the format's read function leaves in a buffer it fills from off *)
Filled(buf, off, k) ==
  [i \in DOMAIN buf |-> IF i < k THEN off + i ELSE buf[i]]

(* memcpy out of a cache entry; outside of it there are no image bytes *)
Copy(buf, from, n) ==
  [i \in 0 .. n - 1 |-> IF from + i \in DOMAIN buf THEN buf[from + i] ELSE Zero]

-----------------------------------------------------------------------------
(* Mutant: the rounding of the offset is left out of the size check. *)
TooLargeNoRounding(r) == r.len > CacheLen

TooLarge(r) == r.len + (r.off % Sector) > CacheLen

(* len2: the requested length, clipped at the end of the image *)
Clipped(r) == Minimum(r.len, ImgSize - r.off)

RoundUp(len) == IF len % SectorSize = 0 THEN len
                ELSE len + SectorSize - (len % SectorSize)

SectorStart(off) == off - (off % Sector)

Holds(s, r) ==
  /\ cache_len[s] > 0
  /\ cache_off[s] <= r.off
  /\ cache_off[s] + cache_len[s] >= r.off + Clipped(r)

(* The entries that the scan takes for the answer: the first that holds    *)
(* the range, or all of them when nothing was asked for, since read_count  *)
(* then stays 0.                                                           *)
Hit(s, r) ==
  /\ Holds(s, r)
  /\ \/ Clipped(r) = 0
     \/ \A s2 \in 0 .. s - 1 : ~Holds(s2, r)

(* Mutant: a hit does not make its entry younger. *)
AgedNoRefresh(r) ==
  [s \in Slots |-> IF cache_len[s] = 0 \/ Hit(s, r) THEN cache_age[s]
                   ELSE cache_age[s] - 1]

(* The ages after the scan *)
Aged(r) ==
  [s \in Slots |-> CASE cache_len[s] = 0 -> cache_age[s]
                     [] Hit(s, r)        -> CacheAge
                     [] OTHER            -> cache_age[s] - 1]

(* The scan leaves cache_next at the last unused entry or, if all are in   *)
(* use, at the first of the lowest age among entry 0 and those not hit.    *)
IsVictim(v, r, age) ==
  IF \E s \in Slots : cache_len[s] = 0
  THEN cache_len[v] = 0 /\ \A s \in v + 1 .. CacheNum - 1 : cache_len[s] # 0
  ELSE LET candidates == {0} \union {s \in Slots : ~Hit(s, r)}
       IN  /\ v \in candidates
           /\ \A s \in candidates :
                age[v] < age[s] \/ (age[v] = age[s] /\ v <= s)

-----------------------------------------------------------------------------
Error(n) == [n |-> n, data |-> <<>>]

Init ==
  /\ lock = NoThread
  /\ cache = [s \in Slots |-> [i \in 0 .. CacheLen - 1 |-> Zero]]
  /\ cache_off = [s \in Slots |-> 0]
  /\ cache_len = [s \in Slots |-> 0]
  /\ cache_age = [s \in Slots |-> 0]
  /\ pc = [t \in Threads |-> "idle"]
  /\ req = [t \in Threads |-> [off |-> 0, len |-> 0]]
  /\ next = [t \in Threads |-> 0]
  /\ io = [t \in Threads |-> NotAsked]
  /\ ret = [t \in Threads |-> Error(0)]
  /\ calls = 0

Return(t, r) ==
  /\ ret' = [ret EXCEPT ![t] = r]
  /\ pc' = [pc EXCEPT ![t] = "unlock"]

(* A negative offset is refused before the lock is taken. *)
RejectArgs(t) ==
  /\ pc[t] = "idle" /\ calls < MaxCalls
  /\ \E off \in {o \in Offsets : o < 0}, len \in Lengths :
       req' = [req EXCEPT ![t] = [off |-> off, len |-> len]]
  /\ ret' = [ret EXCEPT ![t] = Error(-1)]
  /\ io' = [io EXCEPT ![t] = NotAsked]
  /\ calls' = calls + 1
  /\ UNCHANGED <<lock, cacheVars, pc, next>>

Call(t) ==
  /\ pc[t] = "idle" /\ calls < MaxCalls
  /\ \E off \in {o \in Offsets : o >= 0}, len \in Lengths :
       req' = [req EXCEPT ![t] = [off |-> off, len |-> len]]
  /\ pc' = [pc EXCEPT ![t] = "wait"]
  /\ ret' = [ret EXCEPT ![t] = Error(0)]
  /\ io' = [io EXCEPT ![t] = NotAsked]
  /\ calls' = calls + 1
  /\ UNCHANGED <<lock, cacheVars, next>>

(* Mutant: the lock is taken without waiting for its owner. *)
AcquireUnguarded(t) == lock' = t

Acquire(t) == lock = NoThread /\ lock' = t

TakeLock(t) ==
  /\ pc[t] = "wait"
  /\ Acquire(t)
  /\ pc' = [pc EXCEPT ![t] = "locked"]
  /\ UNCHANGED <<cacheVars, req, next, io, ret, calls>>

(* A large read of whole sectors: the answer is passed on. *)
BigReadAligned(t) ==
  LET r == req[t] IN
  /\ pc[t] = "locked" /\ TooLarge(r)
  /\ r.len % SectorSize = 0
  /\ \E n \in Answers(r.off, r.len) :
       /\ io' = [io EXCEPT ![t] = Asked(r.off, r.len, n)]
       /\ Return(t, [n |-> n, data |-> [i \in 0 .. n - 1 |-> r.off + i]])
  /\ UNCHANGED <<lock, cacheVars, req, next, calls>>

(* What the caller gets from the temporary buffer of a large read that is  *)
(* not of whole sectors: the bytes delivered if they are fewer than asked, *)
(* else the whole length asked for -- also when the read failed.           *)
BounceAnswer(r, n, k) ==
  LET got == IF n > 0 /\ n < r.len THEN n ELSE r.len
  IN  [n |-> got, data |-> [i \in 0 .. got - 1 |->
                              IF i < k THEN r.off + i ELSE Zero]]

BigReadBounce(t) ==
  LET r == req[t] IN
  /\ pc[t] = "locked" /\ TooLarge(r)
  /\ r.len % SectorSize # 0
  /\ \E n \in Answers(r.off, RoundUp(r.len)) :
       \E k \in Delivered(n, r.off, RoundUp(r.len)) :
         /\ io' = [io EXCEPT ![t] = Asked(r.off, RoundUp(r.len), n)]
         /\ Return(t, BounceAnswer(r, n, k))
  /\ UNCHANGED <<lock, cacheVars, req, next, calls>>

BigReadNoMemory(t) ==
  LET r == req[t] IN
  /\ pc[t] = "locked" /\ TooLarge(r)
  /\ r.len % SectorSize # 0
  /\ Return(t, Error(-1))
  /\ UNCHANGED <<lock, cacheVars, req, next, io, calls>>

(* Mutant: the early return for an offset past the end keeps the lock. *)
PastEndKeepsLock(t) ==
  /\ pc[t] = "locked" /\ ~TooLarge(req[t])
  /\ req[t].off >= ImgSize
  /\ ret' = [ret EXCEPT ![t] = Error(-1)]
  /\ pc' = [pc EXCEPT ![t] = "idle"]
  /\ UNCHANGED <<lock, cacheVars, req, next, io, calls>>

PastEnd(t) ==
  /\ pc[t] = "locked" /\ ~TooLarge(req[t])
  /\ req[t].off >= ImgSize
  /\ Return(t, Error(-1))
  /\ UNCHANGED <<lock, cacheVars, req, next, io, calls>>

LookupHit(t) ==
  LET r == req[t] IN
  /\ pc[t] = "locked" /\ ~TooLarge(r) /\ r.off < ImgSize
  /\ Clipped(r) > 0
  /\ \E s \in Slots :
       /\ Hit(s, r)
       /\ Return(t, [n |-> Clipped(r),
                     data |-> Copy(cache[s], r.off - cache_off[s], Clipped(r))])
  /\ cache_age' = Aged(r)
  /\ UNCHANGED <<lock, cache, cache_off, cache_len, req, next, io, calls>>

LookupMiss(t) ==
  LET r == req[t] IN
  /\ pc[t] = "locked" /\ ~TooLarge(r) /\ r.off < ImgSize
  /\ Clipped(r) > 0 => \A s \in Slots : ~Holds(s, r)
  /\ cache_age' = Aged(r)
  /\ \E v \in Slots :
       /\ IsVictim(v, r, Aged(r))
       /\ next' = [next EXCEPT ![t] = v]
       /\ cache_off' = [cache_off EXCEPT ![v] = SectorStart(r.off)]
  /\ pc' = [pc EXCEPT ![t] = "load"]
  /\ UNCHANGED <<lock, cache, cache_len, req, io, ret, calls>>

(* The bytes of the request that an entry with n bytes from off can give *)
Available(r, off, n) ==
  LET rel == r.off - off
  IN  IF rel > n THEN 0 ELSE Minimum(Clipped(r), n - rel)

ReadSize(off) == Minimum(CacheLen, ImgSize - off)

LoadOk(t) ==
  LET r == req[t]  v == next[t]  off == cache_off[v] IN
  /\ pc[t] = "load"
  /\ \E n \in Answers(off, ReadSize(off)) :
       /\ n > 0
       /\ cache' = [cache EXCEPT ![v] = Filled(cache[v], off, n)]
       /\ cache_age' = [cache_age EXCEPT ![v] = CacheAge]
       /\ cache_len' = [cache_len EXCEPT ![v] = n]
       /\ io' = [io EXCEPT ![t] = Asked(off, ReadSize(off), n)]
       /\ Return(t, [n |-> Available(r, off, n),
                     data |-> Copy(Filled(cache[v], off, n), r.off - off,
                                   Available(r, off, n))])
  /\ UNCHANGED <<lock, cache_off, req, next, calls>>

(* Mutant: a failed read leaves the victim as it was. *)
ForgetNothing(v) == UNCHANGED <<cache_len, cache_age, cache_off>>

Forget(v) ==
  /\ cache_len' = [cache_len EXCEPT ![v] = 0]
  /\ cache_age' = [cache_age EXCEPT ![v] = 0]
  /\ cache_off' = [cache_off EXCEPT ![v] = 0]

LoadFailed(t) ==
  LET v == next[t]  off == cache_off[v] IN
  /\ pc[t] = "load"
  /\ \E n \in Answers(off, ReadSize(off)) :
       /\ n <= 0
       /\ \E k \in Delivered(n, off, ReadSize(off)) :
            cache' = [cache EXCEPT ![v] = Filled(cache[v], off, k)]
       /\ io' = [io EXCEPT ![t] = Asked(off, ReadSize(off), n)]
       /\ Return(t, Error(n))
  /\ Forget(v)
  /\ UNCHANGED <<lock, req, next, calls>>

Unlock(t) ==
  /\ pc[t] = "unlock"
  /\ lock' = NoThread
  /\ pc' = [pc EXCEPT ![t] = "idle"]
  /\ UNCHANGED <<cacheVars, req, next, io, ret, calls>>

Step(t) ==
  \/ TakeLock(t)
  \/ BigReadAligned(t) \/ BigReadBounce(t) \/ BigReadNoMemory(t)
  \/ PastEnd(t)
  \/ LookupHit(t) \/ LookupMiss(t)
  \/ LoadOk(t) \/ LoadFailed(t)
  \/ Unlock(t)

Next == \E t \in Threads : RejectArgs(t) \/ Call(t) \/ Step(t)

Spec == Init /\ [][Next]_vars

(* A thread inside tsk_img_read keeps running; nobody has to call it. *)
FairSpec == Spec /\ \A t \in Threads : WF_vars(Step(t))

-----------------------------------------------------------------------------
InCriticalSection(t) == pc[t] \in {"locked", "load", "unlock"}

Requests == [off : Int, len : Nat]

CacheTypeOK ==
  /\ cache \in [Slots -> [0 .. CacheLen - 1 -> Bytes]]
  /\ cache_off \in [Slots -> Nat]
  /\ cache_len \in [Slots -> 0 .. CacheLen]
  /\ cache_age \in [Slots -> Int]

CallTypeOK ==
  /\ lock \in Threads \union {NoThread}
  /\ pc \in [Threads -> {"idle", "wait", "locked", "load", "unlock"}]
  /\ req \in [Threads -> Requests]
  /\ next \in [Threads -> Slots]
  /\ calls \in Nat

ResultTypeOK ==
  /\ io \in [Threads -> [off : Nat, len : Nat, n : Int]]
  /\ ret = [t \in Threads |-> [n |-> ret[t].n, data |-> ret[t].data]]
  /\ \A t \in Threads :
       ret[t].n \in Int /\ ret[t].data \in [0 .. ret[t].n - 1 -> Bytes]

TypeOK == CacheTypeOK /\ CallTypeOK /\ ResultTypeOK

(* An entry that no thread is filling holds the image's bytes from its     *)
(* offset on, for its whole length: tsk_img_read moves cache_off before    *)
(* the format's read function runs and sets cache_len only afterwards, so  *)
(* this needs the lock and the reset after a failed read.                  *)
BeingFilled(s) == \E t \in Threads : pc[t] = "load" /\ next[t] = s

CacheCoherent ==
  \A s \in Slots : cache_len[s] > 0 /\ ~BeingFilled(s) =>
    /\ cache_off[s] + cache_len[s] <= ImgSize
    /\ \A i \in 0 .. cache_len[s] - 1 : cache[s][i] = cache_off[s] + i

(* Whatever the other threads did in between, a read that has returned and *)
(* whose format read function, if it ran, delivered something hands over   *)
(* bytes of the image at the offsets asked for, and no more than asked.    *)
ReadCorrect ==
  \A t \in Threads :
    pc[t] = "idle" /\ ret[t].n > 0 /\ (io[t] = NotAsked \/ io[t].n > 0) =>
    /\ ret[t].n <= req[t].len
    /\ \A i \in 0 .. ret[t].n - 1 : ret[t].data[i] = req[t].off + i

(* The inductive invariant behind ReadCorrect: the mutex excludes, a       *)
(* thread that loads has moved the victim's offset to its own request, and *)
(* an answer is right from the moment it is computed, not only on return.  *)
LockOwned == \A t \in Threads : InCriticalSection(t) => lock = t

LoadingForRequest ==
  \A t \in Threads :
    /\ pc[t] # "idle" => req[t].off \in Nat
    /\ pc[t] = "load" => /\ req[t].off < ImgSize
                         /\ cache_off[next[t]] = SectorStart(req[t].off)

AnswersRight ==
  \A t \in Threads : ret[t].n > 0 /\ (io[t] = NotAsked \/ io[t].n > 0) =>
    /\ ret[t].n <= req[t].len
    /\ \A i \in 0 .. ret[t].n - 1 : ret[t].data[i] = req[t].off + i

IInv == TypeOK /\ LockOwned /\ LoadingForRequest /\ CacheCoherent /\ AnswersRight

(* A read that starts inside the image is short only at the end of the     *)
(* image or when the format's read function itself was short: one cache    *)
(* entry always has room for the request plus the rounding of its offset.  *)
FullUnlessShort ==
  \A t \in Threads :
    /\ pc[t] = "idle" /\ req[t].off \in 0 .. ImgSize - 1 /\ ret[t].n # -1
    /\ io[t].n = Minimum(io[t].len, ImgSize - io[t].off)
    => ret[t].n = Clipped(req[t])

(* A failed cached read is reported as a failure and leaves no entry that  *)
(* a later read could take for valid: the entry it was to fill is unused.  *)
FailureForgotten ==
  \A t \in Threads :
    /\ pc[t] = "unlock" /\ ~TooLarge(req[t])
    /\ io[t] # NotAsked /\ io[t].n <= 0
    => ret[t].n = io[t].n /\ cache_len[next[t]] = 0

(* Every read that has started returns, whichever way it leaves the        *)
(* function: no path keeps the lock.                                       *)
ReadReturns == \A t \in Threads : (pc[t] # "idle") ~> (pc[t] = "idle")
=============================================================================
