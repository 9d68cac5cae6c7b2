----------------------------- MODULE AttrFile -----------------------------
(***************************************************************************)
(* An attribute from its first run to its last byte: the file system code  *)
(* builds the run list (FsAttrRuns), then the content is read or walked    *)
(* through that list (AttrRead).  What is read is compared with the runs   *)
(* that were added, in whatever order they came, not with the list.        *)
(***************************************************************************)
EXTENDS FsAttrRuns

CONSTANTS
  BlockSize, LastBlock, MaxLen,   \* of AttrRead
  SizeCuts,  \* by how many bytes the size may be less than allocsize
  InitCuts,  \* by how many bytes initsize may be less than the size
  SkipLens   \* what skiplen may be

ASSUME SizeAssumption ==
  /\ BlockSize \in Nat \ {0} /\ LastBlock \in Nat /\ MaxLen \in Nat
  /\ SizeCuts \subseteq Nat /\ InitCuts \subseteq Nat /\ SkipLens \subseteq Nat

VARIABLES
  attr, job, buf,
  pc,         \* "filling", or pc of AttrRead
  returned    \* ret of AttrRead

R == INSTANCE AttrRead WITH ret <- returned, Cases <- {}

filling == <<list, mode, blocks, misplaced, ret, calls>>
reading == <<attr, job, buf, pc, returned>>

NoAttr == [run |-> <<>>, size |-> 0, allocsize |-> 0, initsize |-> 0, skiplen |-> 0]

FileInit ==
  /\ Init
  /\ attr = NoAttr /\ job = R!NoJob /\ buf = <<>>
  /\ pc = "filling" /\ returned = 0

Fill == pc = "filling" /\ Next /\ UNCHANGED reading

(* A run at address 0 is marked as sparse by the file system code. *)
Kind(run) == IF run.filler THEN "filler" ELSE IF run.addr = 0 THEN "sparse" ELSE "data"

Stored(run) == [offset |-> run.offset, addr |-> run.addr, len |-> run.len,
                kind |-> Kind(run)]

(* The sizes were given with the first run; allocsize is that of the runs. *)
(* A misplaced filler can end behind its block 2^64; such a list is built   *)
(* but not read.                                                            *)
Open ==
  /\ pc = "filling" /\ mode # "unused"
  /\ \A i \in DOMAIN list.run : list.run[i].offset + list.run[i].len < Width
  /\ \E skip \in SkipLens, cut \in SizeCuts, tail \in InitCuts :
       LET alloc == ListEnd(list.run) * BlockSize - skip IN
       /\ cut + tail <= alloc
       /\ attr' = [run |-> [i \in DOMAIN list.run |-> Stored(list.run[i])],
                   allocsize |-> alloc, size |-> alloc - cut,
                   initsize |-> alloc - cut - tail, skiplen |-> skip]
  /\ \E off \in 0 .. attr'.allocsize + BlockSize : job' = [R!NoJob EXCEPT !.off = off]
  /\ pc' = "start"
  /\ calls' = 0 /\ ret' = "ok"
  /\ UNCHANGED <<list, mode, blocks, misplaced, buf, returned>>

Read == R!Next /\ UNCHANGED filling

FileNext == Fill \/ Open \/ Read

FileSpec == FileInit /\ [][FileNext]_<<filling, reading>>

-----------------------------------------------------------------------------
(* A byte of the file, from what the runs that were added say of its block *)
FileByte(p) ==
  LET q == p + attr.skiplen
      addrs == {b[2] : b \in {x \in blocks : x[1] = q \div BlockSize}}
  IN  IF addrs \subseteq {0} \/ (p >= attr.initsize /\ ~job.slack) THEN R!Zero
      ELSE (CHOOSE a \in addrs : TRUE) * BlockSize + (q % BlockSize)

(* Where the range that is read ends *)
RangeEnd == R!Least(job.off + job.len, R!Limit(job.slack))

(* In the middle of a block the first run is all zeros, or the part of the  *)
(* range that is in it is all before initsize.                             *)
ZerosFrom(run)  == R!IsSparse(run) \/ (job.off >= attr.initsize /\ ~job.slack)
DataWithin(run) ==
  job.slack \/ R!Least(RangeEnd, (run.offset + run.len) * BlockSize) <= attr.initsize

(* The reads that fs_attr.c gets right: those that start with a block, and  *)
(* those from the middle of one whose first run is zeros and has all of the *)
(* range (1262: the offset in the block is kept for the next run) or is     *)
(* data and does not cross initsize (1281: that offset is not counted).     *)
Straight ==
  \/ job.off % BlockSize = 0
  \/ \A i \in DOMAIN attr.run :
       LET run == attr.run[i] IN
       run.offset * BlockSize <= job.off /\ job.off < (run.offset + run.len) * BlockSize =>
         IF ZerosFrom(run) THEN RangeEnd <= (run.offset + run.len) * BlockSize
         ELSE DataWithin(run)

(* tsk_fs_attr_read returns the file: every byte that it says it has read   *)
(* is the one that the added runs place there, sparse blocks, blocks of     *)
(* which no run is known and what is past initsize being zeros (fs_attr.c:  *)
(* 1094), in whatever order the runs came and wherever the range starts,    *)
(* crosses and ends.  The exceptions are the places where the code does     *)
(* not: a misplaced rest of a filler (615), a skiplen (1169) and a range    *)
(* that is not Straight (1262, 1281).                                       *)
ReadReturnsFile ==
  /\ pc = "done" /\ job.len > 0 /\ returned >= 0
  /\ ~misplaced /\ attr.skiplen = 0 /\ Straight
  => \A k \in 1 .. returned : buf[k] = FileByte(job.off + k - 1)

(* A walk compares offsets without skiplen with initsize (947): that is     *)
(* right where the content does not end in its first block or the skiplen   *)
(* is of whole blocks.                                                      *)
Skipped == attr.skiplen % BlockSize = 0 \/ attr.initsize >= BlockSize

(* tsk_fs_attr_walk hands out the same file, each part at its offset, from  *)
(* skiplen bytes into the runs on (tsk_fs.h:268, fs_attr.c:912), unless the *)
(* rest of a filler is misplaced (615) or the content ends in the block     *)
(* with the skiplen (947).                                                  *)
WalkShowsFile ==
  /\ pc \in {"walk", "done", "failed"} /\ job.len = 0
  /\ ~misplaced /\ Skipped
  => \A k \in 1 .. Len(buf) : buf[k] # R!Junk => buf[k] = FileByte(k - 1)

(* A read whose runs could all be read returns all that there is up to the  *)
(* limit, and leaves nothing in the buffer as it was (fs_attr.c:1283), if   *)
(* no rest of a filler is misplaced (615) and the range is Straight (1262). *)
ReadFills ==
  [][R!FinishRead /\ ~misplaced /\ Straight =>
       /\ returned' = R!Least(job.len, R!Limit(job.slack) - job.off)
       /\ \A k \in 1 .. Len(buf) : buf[k] # R!Junk]_reading

(* A walk that ends by itself has shown everything up to the limit, except  *)
(* sparse blocks that the caller did not want (fs_attr.c:1018), if no rest  *)
(* of a filler is misplaced (615).                                          *)
WalkShowsAll ==
  [][pc = "walk" /\ ~job.nosparse /\ ~misplaced
       /\ job.off < R!Limit(job.slack) /\ job'.off >= R!Limit(job.slack)
     => \A k \in 1 .. Len(buf') : buf'[k] # R!Junk]_reading
=============================================================================
