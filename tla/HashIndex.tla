----------------------------- MODULE HashIndex -----------------------------
(***************************************************************************)
(* Looking hashes up in a text hash database through its sorted index      *)
(* (tsk/hashdb/binsrch_index.cpp), for an md5sum database (md5sum.c).      *)
(* The database is a file of rows, the index `<db>-md5.idx' a sorted file  *)
(* of lines "hash|offset of the row", and `<db>-md5.idx2' a table from the *)
(* first digits of a hash to its first line in the index.                  *)
(*                                                                         *)
(* One open handle, shared by threads that look hashes up; make_index is   *)
(* called while nobody looks anything up.  Rows and lines are numbered     *)
(* from 1: open_idx_file checks that the index is a multiple of the line   *)
(* length, so byte offsets and line numbers say the same.                  *)
(***************************************************************************)
EXTENDS Naturals, Integers, Sequences, FiniteSets

CONSTANTS
  Threads,       \* threads that share the handle
  NoThread,      \* the owner of a free lock
  Hashes,        \* MD5 values, as numbers; 0 is the value of zeros only
  Junk,          \* a row that md5sum_parse_md5 refuses
  Prefix,        \* the number that the first three digits of a hash make
  PrefixCount,   \* IDX_IDX_ENTRY_COUNT
  Databases,     \* the databases that the user indexes
  Queries,       \* the arguments of lookups: type and value of a hash, quick or not,
                 \* and whether the callback goes on after every row
  MaxCalls,      \* bound: lookups that are started
  MaxRebuilds,   \* bound: calls of make_index
  MaxCrashes     \* bound: ends of the process

ASSUME ThreadsAssumption == NoThread \notin Threads
ASSUME HashAssumption ==
  /\ Hashes \subseteq Nat /\ Junk \notin Hashes
  /\ PrefixCount \in Nat
  /\ Prefix \in [Hashes -> 0 .. PrefixCount - 1]
  /\ \A g, h \in Hashes : g <= h => Prefix[g] <= Prefix[h]
ASSUME QueryAssumption ==
  Queries \subseteq [type : {"md5", "sha1"}, hash : Hashes, quick : BOOLEAN, all : BOOLEAN]
ASSUME DatabaseAssumption == Databases \subseteq Seq(Hashes \union {Junk})

VARIABLES
  db,           \* the database file
  idx,          \* the index file of each hash type
  idx2,         \* the index of the index of MD5
  hash_type,    \* TSK_HDB_BINSRCH_INFO: the type the handle is for
  hIdx,         \*   whether the index file is open
  idx_size,     \*   the number of lines it had when it was opened
  idx_lbuf,     \*   the line buffer: the number of the line read last
  idx_offsets,  \*   idx2 in memory
  lock,         \*   the thread that holds the lock of the handle
  pc,           \* where each thread is in hdb_binsrch_lookup_str
  call,         \* its arguments
  low, up,      \* its bounds of the search
  at,           \* its local variables offset and tmpoff
  got,          \* the rows its callback was called for
  ret,          \* what it returned
  making,       \* where make_index is
  made,         \* whether the last make_index returned success
  bound         \* calls, rebuilds and crashes so far

disk   == <<db, idx, idx2>>
handle == <<hash_type, hIdx, idx_size, idx_lbuf, idx_offsets>>
locals == <<pc, call, low, up, at, got, ret>>
maker  == <<making, made>>
vars == <<disk, handle, lock, locals, maker, bound>>

Types    == {"md5", "sha1"}
Missing  == [kind |-> "missing", lines |-> <<>>]
Bad      == [kind |-> "bad", lines |-> <<>>]   \* header or size is refused
Index(s) == [kind |-> "index", lines |-> s]

NotSet     == 0                     \* IDX_IDX_ENTRY_NOT_SET
NoTable    == [kind |-> "none", at |-> <<>>]
BadTable   == [kind |-> "bad", at |-> <<>>]    \* idx2 of the wrong size
Table(f)   == [kind |-> "table", at |-> f]

NoBuffer == -1                      \* idx_lbuf is NULL

-----------------------------------------------------------------------------
(* md5sum_makeindex: of consecutive rows with the same hash the first gets *)
(* a line; rows that cannot be parsed are skipped and leave the previous   *)
(* hash as it was, which is zeros to begin with.                           *)
Parsed(d) == {r \in 1 .. Len(d) : d[r] # Junk}

PreviousHash(d, r) ==
  LET before == {q \in Parsed(d) : q < r}
  IN  IF before = {} THEN 0
      ELSE d[CHOOSE q \in before : \A p \in before : p <= q]

Starts(d) == {r \in Parsed(d) : d[r] # PreviousHash(d, r)}

(* sort(1) on lines "hash|row": by hash, then by row *)
Before(k, l) == k.hash < l.hash \/ (k.hash = l.hash /\ k.row < l.row)

IsIndexOf(lines, d) ==
  /\ {lines[i] : i \in 1 .. Len(lines)} = {[hash |-> d[r], row |-> r] : r \in Starts(d)}
  /\ \A i, j \in 1 .. Len(lines) : i < j => Before(lines[i], lines[j])

Lines(d) == {[hash |-> d[r], row |-> r] : r \in Starts(d)}

IndexesOf(d) ==
  {s \in [1 .. Cardinality(Starts(d)) -> Lines(d)] : IsIndexOf(s, d)}

(* hdb_binsrch_make_idx_idx: the first line of each prefix *)
FirstLines(lines) ==
  [p \in 0 .. PrefixCount - 1 |->
     LET own == {i \in 1 .. Len(lines) : Prefix[lines[i].hash] = p}
     IN  IF own = {} THEN NotSet ELSE CHOOSE i \in own : \A j \in own : i <= j]

-----------------------------------------------------------------------------
FreshHandle ==
  /\ hash_type' = "none" /\ hIdx' = FALSE /\ idx_size' = 0
  /\ idx_lbuf' = NoBuffer /\ idx_offsets' = NoTable

NoQuery == [type |-> "md5", hash |-> 0, quick |-> TRUE, all |-> TRUE]

All(x) == [t \in Threads |-> x]

Idle == All("idle")

Init ==
  /\ db \in Databases
  /\ \/ idx = [ty \in Types |-> Missing] /\ idx2 = NoTable /\ made = FALSE
     \/ \E s \in IndexesOf(db) :
          /\ s # <<>>
          /\ idx = [md5 |-> Index(s), sha1 |-> Missing]
          /\ idx2 \in {NoTable, Table(FirstLines(s))}
          /\ made = TRUE
  /\ hash_type = "none" /\ hIdx = FALSE /\ idx_size = 0
  /\ idx_lbuf = NoBuffer /\ idx_offsets = NoTable
  /\ lock = NoThread
  /\ pc = Idle /\ call = All(NoQuery) /\ got = All(<<>>) /\ ret = All(-1)
  /\ low = All(0) /\ up = All(0) /\ at = All(0)
  /\ making = "no"
  /\ bound = [calls |-> 0, rebuilds |-> 0, crashes |-> 0]

Goto(t, l) == pc' = [pc EXCEPT ![t] = l]

Return(t, n) == Goto(t, "idle") /\ ret' = [ret EXCEPT ![t] = n]

(* Mutant: the lock is taken without waiting for its owner. *)
AcquireUnguarded(t) == lock' = t

Acquire(t) == lock = NoThread /\ lock' = t

Release == lock' = NoThread

Lookup(t) ==
  /\ pc[t] = "idle" /\ making = "no" /\ bound.calls < MaxCalls
  /\ \E q \in Queries : call' = [call EXCEPT ![t] = q]
  /\ Goto(t, "open")
  /\ low' = [low EXCEPT ![t] = 0] /\ up' = [up EXCEPT ![t] = 0]
  /\ at' = [at EXCEPT ![t] = 0] /\ got' = [got EXCEPT ![t] = <<>>]
  /\ ret' = [ret EXCEPT ![t] = -1]
  /\ bound' = [bound EXCEPT !.calls = @ + 1]
  /\ UNCHANGED <<disk, handle, lock, maker>>

-----------------------------------------------------------------------------
(* hdb_binsrch_open_idx: the index is opened by the first call that needs  *)
(* it.  The type of the handle is that of the first call, too.             *)
TypeAfter(t) == IF hash_type = "none" THEN call[t].type ELSE hash_type

OpenLock(t) ==
  /\ pc[t] = "open" /\ Acquire(t)
  /\ Goto(t, "opening")
  /\ UNCHANGED <<disk, handle, call, low, up, at, got, ret, maker, bound>>

AlreadyOpen(t) ==
  /\ pc[t] = "opening" /\ hIdx
  /\ Release /\ Goto(t, "bounds")
  /\ UNCHANGED <<disk, handle, call, low, up, at, got, ret, maker, bound>>

(* open_idx_file releases the lock on each of its failures; a file it      *)
(* has opened before it refuses it stays open.                             *)
OpenMissing(t) ==
  /\ pc[t] = "opening" /\ ~hIdx
  /\ idx[TypeAfter(t)].kind = "missing"
  /\ hash_type' = TypeAfter(t)
  /\ Release /\ Goto(t, "refused")
  /\ UNCHANGED <<disk, hIdx, idx_size, idx_lbuf, idx_offsets, call, low, up, at,
                 got, ret, maker, bound>>

OpenBad(t) ==
  /\ pc[t] = "opening" /\ ~hIdx
  /\ idx[TypeAfter(t)].kind = "bad"
  /\ hash_type' = TypeAfter(t)
  /\ hIdx' = TRUE /\ idx_size' = 1
  /\ Release /\ Goto(t, "refused")
  /\ UNCHANGED <<disk, idx_lbuf, idx_offsets, call, low, up, at, got, ret, maker,
                 bound>>

(* Then open_idx releases the lock once more, whoever has it by now. *)
OpenRefused(t) ==
  /\ pc[t] = "refused"
  /\ Release /\ Return(t, -1)
  /\ UNCHANGED <<disk, handle, call, low, up, at, got, maker, bound>>

OpenFile ==
  /\ hIdx' = TRUE /\ idx_lbuf' = 0
  /\ idx_size' = Len(idx[hash_type'].lines)

TableSizeOk == idx2.kind # "bad"

OpenIndex(t) ==
  /\ pc[t] = "opening" /\ ~hIdx
  /\ idx[TypeAfter(t)].kind = "index"
  /\ hash_type' = TypeAfter(t)
  /\ OpenFile
  /\ Release
  /\ IF TableSizeOk
     THEN /\ idx_offsets' = IF idx2 = NoTable THEN idx_offsets ELSE idx2
          /\ Goto(t, "bounds") /\ UNCHANGED ret
     ELSE UNCHANGED idx_offsets /\ Return(t, -1)
  /\ UNCHANGED <<disk, call, low, up, at, got, maker, bound>>

-----------------------------------------------------------------------------
(* The bounds of the search: the lines of the hash's prefix, if there is   *)
(* an index of the index, else the whole file.                             *)
OtherType(t) ==
  /\ pc[t] = "bounds" /\ hash_type # call[t].type
  /\ Return(t, -1)
  /\ UNCHANGED <<disk, handle, lock, call, low, up, at, got, maker, bound>>

SetAfter(p) ==
  {q \in p + 1 .. PrefixCount - 1 : idx_offsets.at[q] # NotSet}

UpperBound(p) ==
  IF SetAfter(p) = {} THEN idx_size + 1
  ELSE idx_offsets.at[CHOOSE q \in SetAfter(p) : \A s \in SetAfter(p) : q <= s]

WholeFile(t) ==
  /\ pc[t] = "bounds" /\ hash_type = call[t].type
  /\ idx_offsets.kind = "none"
  /\ low' = [low EXCEPT ![t] = 1]
  /\ up' = [up EXCEPT ![t] = idx_size + 1]
  /\ Goto(t, "bounded")
  /\ UNCHANGED <<disk, handle, lock, call, at, got, ret, maker, bound>>

OwnPrefix(t) ==
  LET p == Prefix[call[t].hash] IN
  /\ pc[t] = "bounds" /\ hash_type = call[t].type
  /\ idx_offsets.kind = "table" /\ idx_offsets.at[p] # NotSet
  /\ low' = [low EXCEPT ![t] = idx_offsets.at[p]]
  /\ up' = [up EXCEPT ![t] = UpperBound(p)]
  /\ Goto(t, "bounded")
  /\ UNCHANGED <<disk, handle, lock, call, at, got, ret, maker, bound>>

NoSuchPrefix(t) ==
  /\ pc[t] = "bounds" /\ hash_type = call[t].type
  /\ idx_offsets.kind = "table" /\ idx_offsets.at[Prefix[call[t].hash]] = NotSet
  /\ Return(t, 0)
  /\ UNCHANGED <<disk, handle, lock, call, low, up, at, got, maker, bound>>

SearchLock(t) ==
  /\ pc[t] = "bounded" /\ Acquire(t)
  /\ Goto(t, "search")
  /\ UNCHANGED <<disk, handle, call, low, up, at, got, ret, maker, bound>>

-----------------------------------------------------------------------------
(* The binary search.  Reading a line is a step of its own, since the file *)
(* position and idx_lbuf are shared.                                       *)
Lines1 == idx[hash_type].lines

Half(n) == IF n >= 0 THEN n \div 2 ELSE -((-n) \div 2)

Middle(t) == low[t] + Half(up[t] - low[t])

ReadLine(i) == idx_lbuf' = i

LineRead == Lines1[idx_lbuf]

(* Mutant: an empty range is left with the lock held. *)
NotThereKeepsLock(t) ==
  /\ pc[t] = "search" /\ up[t] = low[t]
  /\ Return(t, 0)
  /\ UNCHANGED <<disk, handle, lock, call, low, up, at, got, maker, bound>>

NotThere(t) ==
  /\ pc[t] = "search" /\ up[t] = low[t]
  /\ Release /\ Return(t, 0)
  /\ UNCHANGED <<disk, handle, call, low, up, at, got, maker, bound>>

Probe(t) ==
  /\ pc[t] = "search" /\ up[t] # low[t] /\ idx_lbuf # NoBuffer
  /\ Middle(t) \in 1 .. Len(Lines1)
  /\ at' = [at EXCEPT ![t] = Middle(t)]
  /\ ReadLine(Middle(t))
  /\ Goto(t, "compare")
  /\ UNCHANGED <<disk, hash_type, hIdx, idx_size, idx_offsets, lock, call, low, up,
                 got, ret, maker, bound>>

PastEndOfFile(t) ==
  /\ pc[t] = "search" /\ up[t] # low[t] /\ idx_lbuf # NoBuffer
  /\ Middle(t) \notin 1 .. Len(Lines1)
  /\ Release /\ Return(t, 0)
  /\ UNCHANGED <<disk, handle, call, low, up, at, got, maker, bound>>

Narrow(t) ==
  /\ pc[t] = "compare" /\ LineRead.hash # call[t].hash
  /\ IF LineRead.hash < call[t].hash
     THEN low' = [low EXCEPT ![t] = at[t] + 1] /\ UNCHANGED up
     ELSE up' = [up EXCEPT ![t] = at[t]] /\ UNCHANGED low
  /\ Goto(t, "search")
  /\ UNCHANGED <<disk, handle, lock, call, at, got, ret, maker, bound>>

FoundQuick(t) ==
  /\ pc[t] = "compare" /\ LineRead.hash = call[t].hash /\ call[t].quick
  /\ Release /\ Return(t, 1)
  /\ UNCHANGED <<disk, handle, call, low, up, at, got, maker, bound>>

-----------------------------------------------------------------------------
(* md5sum_getentry calls the callback for the row and the rows after it    *)
(* that have the hash (their names are taken to differ), up to the first   *)
(* with another one; it fails at a row that cannot be parsed.              *)
RunEnd(r, h) ==
  CHOOSE e \in r .. Len(db) + r :
    /\ e > Len(db) \/ db[e] # h
    /\ \A q \in r .. e - 1 : q \in DOMAIN db /\ db[q] = h

RowsShown(r, h) == [i \in 1 .. RunEnd(r, h) - r |-> r + i - 1]

EntryFails(r, h) ==
  \/ RunEnd(r, h) = r
  \/ RunEnd(r, h) \in DOMAIN db /\ db[RunEnd(r, h)] = Junk

Matches(t) == LineRead.hash = call[t].hash /\ ~call[t].quick

Show(t) ==
  got' = [got EXCEPT ![t] = @ \o RowsShown(LineRead.row, call[t].hash)]

(* A callback that does not go on answers TSK_WALK_STOP or TSK_WALK_ERROR  *)
(* at one of the rows.                                                     *)
ShowUpTo(t, n) ==
  got' = [got EXCEPT ![t] = @ \o SubSeq(RowsShown(LineRead.row, call[t].hash), 1, n)]

ShowSome(t) ==
  /\ ~call[t].all
  /\ \E n \in 1 .. Len(RowsShown(LineRead.row, call[t].hash)) : ShowUpTo(t, n)

Reading(t) == pc[t] \in {"compare", "previous", "following"}

(* get_entry fails, at a row or for TSK_WALK_ERROR: the lookup does, too. *)
ShowFails(t) ==
  /\ Reading(t) /\ Matches(t)
  /\ ShowSome(t) \/ (EntryFails(LineRead.row, call[t].hash) /\ Show(t))
  /\ Release /\ Return(t, -1)
  /\ UNCHANGED <<disk, handle, call, low, up, at, maker, bound>>

(* TSK_WALK_STOP ends get_entry with success, so the lookup goes on with   *)
(* the next line.                                                          *)
Shows(t) ==
  /\ Reading(t) /\ Matches(t)
  /\ ShowSome(t) \/ (~EntryFails(LineRead.row, call[t].hash) /\ Show(t))

(* Mutant: the line at the lower bound is left out. *)
PreviousAboveLow(t, i) == i > low[t]

HasPrevious(t, i) == i >= low[t]

HasFollowing(t, i) == i < up[t] /\ i <= Len(Lines1)

(* Where the loops over the lines before and after go on from line i, the  *)
(* line found being line f.                                                *)
Upwards(t, i) ==
  IF HasFollowing(t, i)
  THEN /\ ReadLine(i) /\ Goto(t, "following")
       /\ UNCHANGED <<ret, lock>>
  ELSE Release /\ Return(t, 1) /\ UNCHANGED idx_lbuf

Downwards(t, i) ==
  IF HasPrevious(t, i)
  THEN ReadLine(i) /\ Goto(t, "previous") /\ UNCHANGED <<ret, lock>>
  ELSE Upwards(t, at[t] + 1)

otherThanShown ==
  <<disk, hash_type, hIdx, idx_size, idx_offsets, call, low, up, at, maker, bound>>

ShowFound(t) ==
  /\ pc[t] = "compare" /\ Shows(t)
  /\ Downwards(t, at[t] - 1)
  /\ UNCHANGED otherThanShown

ShowPrevious(t) ==
  /\ pc[t] = "previous" /\ Shows(t)
  /\ Downwards(t, idx_lbuf - 1)
  /\ UNCHANGED otherThanShown

LastPrevious(t) ==
  /\ pc[t] = "previous" /\ LineRead.hash # call[t].hash
  /\ Upwards(t, at[t] + 1)
  /\ UNCHANGED <<otherThanShown, got>>

ShowFollowing(t) ==
  /\ pc[t] = "following" /\ Shows(t)
  /\ Upwards(t, idx_lbuf + 1)
  /\ UNCHANGED otherThanShown

LastFollowing(t) ==
  /\ pc[t] = "following" /\ LineRead.hash # call[t].hash
  /\ Release /\ Return(t, 1)
  /\ UNCHANGED <<disk, handle, call, low, up, at, got, maker, bound>>

-----------------------------------------------------------------------------
(* md5sum_makeindex with hdb_binsrch_idx_initialize and _finalize.  The    *)
(* user may have changed the database before.                              *)
NobodyLooksUp == making = "no" /\ pc = Idle

KeepLocals == UNCHANGED <<lock, locals>>

TypeMade == IF hash_type = "none" THEN "md5" ELSE hash_type

NothingToIndex ==
  /\ NobodyLooksUp /\ bound.rebuilds < MaxRebuilds
  /\ db' \in {d \in Databases : Starts(d) = {}}
  /\ hash_type' = TypeMade
  /\ made' = FALSE
  /\ bound' = [bound EXCEPT !.rebuilds = @ + 1]
  /\ KeepLocals
  /\ UNCHANGED <<idx, idx2, hIdx, idx_size, idx_lbuf, idx_offsets, making>>

MakeIndex ==
  /\ NobodyLooksUp /\ bound.rebuilds < MaxRebuilds
  /\ db' \in {d \in Databases : Starts(d) # {}}
  /\ hash_type' = TypeMade
  /\ hIdx' = FALSE /\ idx_size' = 0 /\ idx_lbuf' = NoBuffer
  /\ making' = "sorting" /\ made' = FALSE
  /\ bound' = [bound EXCEPT !.rebuilds = @ + 1]
  /\ KeepLocals
  /\ UNCHANGED <<idx, idx2, idx_offsets>>

(* sort fails and leaves the old index or a damaged one. *)
SortFails ==
  /\ making = "sorting"
  /\ idx' \in {idx, [idx EXCEPT ![hash_type] = Bad]}
  /\ making' = "no"
  /\ KeepLocals
  /\ UNCHANGED <<db, idx2, handle, made, bound>>

(* A handle whose first call was for SHA1 writes the MD5 lines to the      *)
(* SHA1 index, where their length is wrong.                                *)
Sort ==
  /\ making = "sorting"
  /\ \E s \in IndexesOf(db) :
       idx' = [idx EXCEPT ![hash_type] =
                 IF hash_type = "md5" THEN Index(s) ELSE Bad]
  /\ making' = "sorted"
  /\ KeepLocals
  /\ UNCHANGED <<db, idx2, handle, made, bound>>

(* hdb_binsrch_make_idx_idx *)
MakeBadIndex ==
  /\ making = "sorted" /\ idx[hash_type].kind = "bad"
  /\ hIdx' = TRUE /\ idx_size' = 1
  /\ making' = "no"
  /\ KeepLocals
  /\ UNCHANGED <<disk, hash_type, idx_lbuf, idx_offsets, made, bound>>

(* idx2 cannot be created: the old one stays, on disk and in memory. *)
TableNotCreated ==
  /\ making = "sorted" /\ idx[hash_type].kind = "index"
  /\ hash_type' = hash_type /\ OpenFile
  /\ making' = "no"
  /\ KeepLocals
  /\ UNCHANGED <<disk, idx_offsets, made, bound>>

TableNotWritten ==
  /\ making = "sorted" /\ idx[hash_type].kind = "index"
  /\ hash_type' = hash_type /\ OpenFile
  /\ idx_offsets' = Table(FirstLines(Lines1)) /\ idx2' = BadTable
  /\ making' = "no"
  /\ KeepLocals
  /\ UNCHANGED <<db, idx, made, bound>>

(* Mutant: idx2 is written, but the table in memory is not replaced. *)
MakeTableOnDisk ==
  /\ making = "sorted" /\ idx[hash_type].kind = "index"
  /\ hash_type' = hash_type /\ OpenFile
  /\ idx2' = Table(FirstLines(Lines1))
  /\ making' = "no" /\ made' = TRUE
  /\ KeepLocals
  /\ UNCHANGED <<db, idx, idx_offsets, bound>>

MakeTable ==
  /\ making = "sorted" /\ idx[hash_type].kind = "index"
  /\ hash_type' = hash_type /\ OpenFile
  /\ idx_offsets' = Table(FirstLines(Lines1)) /\ idx2' = idx_offsets'
  /\ making' = "no" /\ made' = TRUE
  /\ KeepLocals
  /\ UNCHANGED <<db, idx, bound>>

-----------------------------------------------------------------------------
(* The process ends and the database is opened anew: nothing but the files *)
(* is left.                                                                *)
Restart ==
  /\ FreshHandle
  /\ lock' = NoThread
  /\ pc' = Idle /\ call' = All(NoQuery) /\ got' = All(<<>>) /\ ret' = All(-1)
  /\ low' = All(0) /\ up' = All(0) /\ at' = All(0)
  /\ making' = "no"
  /\ UNCHANGED <<disk, made>>

Crash ==
  /\ bound.crashes < MaxCrashes
  /\ bound' = [bound EXCEPT !.crashes = @ + 1]
  /\ Restart

(* A search of an index that was refused has no line buffer to read into. *)
ReadWithoutBuffer(t) ==
  /\ pc[t] = "search" /\ up[t] # low[t] /\ idx_lbuf = NoBuffer
  /\ UNCHANGED bound
  /\ Restart

Step(t) ==
  \/ OpenLock(t) \/ AlreadyOpen(t) \/ OpenMissing(t) \/ OpenBad(t)
  \/ OpenRefused(t) \/ OpenIndex(t)
  \/ OtherType(t) \/ WholeFile(t) \/ OwnPrefix(t) \/ NoSuchPrefix(t)
  \/ SearchLock(t) \/ NotThere(t) \/ Probe(t) \/ PastEndOfFile(t)
  \/ Narrow(t) \/ FoundQuick(t)
  \/ ShowFails(t) \/ ShowFound(t) \/ ShowPrevious(t) \/ LastPrevious(t)
  \/ ShowFollowing(t) \/ LastFollowing(t)
  \/ ReadWithoutBuffer(t)

Making ==
  \/ SortFails \/ Sort
  \/ MakeBadIndex \/ TableNotCreated \/ TableNotWritten \/ MakeTable

Next ==
  \/ \E t \in Threads : Lookup(t) \/ Step(t)
  \/ NothingToIndex \/ MakeIndex \/ Making
  \/ Crash

Spec == Init /\ [][Next]_vars

(* A thread inside a lookup keeps running. *)
FairSpec == Spec /\ \A t \in Threads : WF_vars(Step(t))

-----------------------------------------------------------------------------
Leads(f, lines) ==
  \A i \in 1 .. Len(lines) :
    LET p == Prefix[lines[i].hash] IN
    /\ f[p] \in 1 .. i
    /\ \A q \in p + 1 .. PrefixCount - 1 : f[q] = NotSet \/ f[q] > i

(* The table leads every line's hash to a range of lines that holds it,    *)
(* and the open handle knows the index that is on disk: as long as the     *)
(* last make_index has succeeded, whatever failed before, and whether the  *)
(* table was made by this handle or read from idx2.                        *)
TableFits ==
  made => LET lines == idx["md5"].lines IN
    /\ idx2.kind = "table" => Leads(idx2.at, lines)
    /\ hash_type = "md5" /\ idx_offsets.kind = "table" =>
         Leads(idx_offsets.at, lines)
    /\ hash_type = "md5" /\ hIdx => idx_size = Len(lines)

(* The rows of a hash; a first row of zeros gets no line (see README). *)
RowsOf(h) == {r \in Parsed(db) : db[r] = h}

Answers(t, n) == pc[t] # "idle" /\ pc'[t] = "idle" /\ ret'[t] = n

(* A lookup that answers says truly whether the hash is in the database,   *)
(* for every number of threads that share the buffer and the file          *)
(* position, with and without an index of the index, and after a rebuild,  *)
(* a failed rebuild that was repeated, or a restart.                       *)
LookupExact ==
  [][\A t \in Threads :
       call[t].type = "md5" /\ call[t].hash # 0 /\ made =>
         /\ Answers(t, 1) => RowsOf(call[t].hash) # {}
         /\ Answers(t, 0) => RowsOf(call[t].hash) = {}]_vars

(* A lookup that answers 1 has called a callback that always goes on once  *)
(* for every row that has the hash: the lines around the one found lead to *)
(* each run of rows, and get_entry through it.                             *)
EveryRowShown ==
  [][\A t \in Threads :
       Answers(t, 1) /\ ~call[t].quick /\ call[t].all /\ call[t].hash # 0 /\ made =>
         LET rows == RowsOf(call[t].hash) IN
         /\ {got'[t][i] : i \in DOMAIN got'[t]} = rows
         /\ Len(got'[t]) = Cardinality(rows)]_vars

(* TSK_WALK_STOP: "Walk function should stop processing units and return   *)
(* OK" (tsk_base.h).  A callback that has stopped before the last of       *)
(* several equal rows is not called again: rows are only shown after a row *)
(* that is followed by another hash.                                       *)
StopIsHeeded ==
  [][\A t \in Threads :
       Len(got'[t]) > Len(got[t]) /\ got[t] # <<>> =>
         LET next == got[t][Len(got[t])] + 1
         IN  next \in DOMAIN db => db[next] # call[t].hash]_vars

(* Every lookup returns: no way out keeps the lock, and the search ends. *)
LookupReturns == \A t \in Threads : (pc[t] # "idle") ~> (pc[t] = "idle")
=============================================================================
