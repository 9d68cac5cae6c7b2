---------------------------- MODULE ImgCacheLru ----------------------------
(***************************************************************************)
(* The replacement policy of the cache of tsk_img_read as a refinement of  *)
(* LruCache: the ages and the choice of the victim stand for a list of     *)
(* entries in the order of their last use.                                 *)
(***************************************************************************)
EXTENDS ImgCache, FiniteSets, Sequences

(* The entries that can answer a read.  The victim of a miss has left the  *)
(* cache once its offset is overwritten.                                   *)
Live == {s \in Slots : cache_len[s] > 0 /\ ~BeingFilled(s)}

(* Of two entries of one age the first is taken for the older: it is the   *)
(* one that a miss replaces.                                               *)
IsYounger(age, x, s) == age[x] > age[s] \/ (age[x] = age[s] /\ x > s)

Rank(S, age, s) == Cardinality({x \in S : IsYounger(age, x, s)})

(* The members of S, the youngest first *)
InOrder(S, age) ==
  [i \in 1 .. Cardinality(S) |-> CHOOSE s \in S : Rank(S, age, s) = i - 1]

Listed(S, age, off, len) ==
  [i \in 1 .. Cardinality(S) |->
     LET s == InOrder(S, age)[i] IN [off |-> off[s], len |-> len[s]]]

Recency == Listed(Live, cache_age, cache_off, cache_len)

Lru == INSTANCE LruCache
         WITH recency <- Recency, Capacity <- CacheNum,
              Entries <- [off : 0 .. ImgSize, len : 1 .. CacheLen]

(* The step in which a read gets an answer out of a cache entry *)
AnsweredFromCache(t) ==
  /\ pc[t] \in {"locked", "load"} /\ pc'[t] = "unlock"
  /\ ~TooLarge(req[t]) /\ ret'[t].n > 0

(* The youngest entry is then one that has the answer. *)
AnswerIsYoungest(t) ==
  AnsweredFromCache(t) =>
    /\ Len(Recency') > 0
    /\ Recency'[1].off <= req[t].off
    /\ req[t].off + ret'[t].n <= Recency'[1].off + Recency'[1].len

(* The age counters of tsk_img_read implement least-recently-used          *)
(* replacement: an entry is dropped only when all are in use, it is the    *)
(* one whose last use lies furthest back, and an entry is used whenever a  *)
(* read is answered from it.                                               *)
ReplacesLeastRecentlyUsed ==
  Lru!Spec /\ [][\A t \in Threads : AnswerIsYoungest(t)]_vars
=============================================================================
