----------------------------- MODULE AttrRead -----------------------------
(***************************************************************************)
(* Reading the content of a non-resident attribute from its run list:      *)
(* tsk_fs_attr_read takes a range of bytes, one run per step, and          *)
(* tsk_fs_attr_walk_nonres hands the whole content to a callback, one      *)
(* block per step (fs_attr.c).  A byte is the place in the file system     *)
(* that it was read from, Zero, or Junk where nothing was put.             *)
(***************************************************************************)
EXTENDS Integers, Sequences

CONSTANTS
  BlockSize,  \* fs->block_size
  LastBlock,  \* fs->last_block
  Cases,      \* attributes, each with an offset to read from
  MaxLen      \* bound: the most bytes that are asked for

VARIABLES
  attr,   \* run, size, allocsize, initsize and skiplen of the attribute
  job,    \* the arguments of the call and where its loop is
  buf,    \* the caller's buffer; what the callback has been given
  pc,     \* "start", "read", "walk", "done", or "failed" if a read was short
  ret     \* what was returned

vars == <<attr, job, buf, pc, ret>>

Zero == -1
Junk == -2
Least(a, b) == IF a <= b THEN a ELSE b

IsSparse(r) == r.kind \in {"sparse", "filler"}
Limit(slack) == IF slack THEN attr.allocsize ELSE attr.size

NoJob == [off |-> 0, len |-> 0, slack |-> FALSE, nosparse |-> FALSE, run |-> 1,
          blk |-> 0, byte |-> 0, remain |-> 0, skip |-> 0]

Init ==
  /\ \E c \in Cases : attr = c.attr /\ job = [NoJob EXCEPT !.off = c.off]
  /\ buf = <<>>
  /\ pc = "start"
  /\ ret = 0

Return(n) == pc' = "done" /\ ret' = n

(* The part of buf from position from on is replaced by bytes. *)
Put(from, bytes) ==
  [k \in 1 .. Len(buf) |->
     IF k - from \in DOMAIN bytes THEN bytes[k - from] ELSE buf[k]]

Zeros(n) == [k \in 1 .. n |-> Zero]

-----------------------------------------------------------------------------
(* tsk_fs_attr_read *)
StartRead ==
  /\ pc = "start"
  /\ \E len \in 1 .. MaxLen, slack \in BOOLEAN :
       LET toread == Least(len, Limit(slack) - job.off) IN
       \/ /\ job.off >= Limit(slack)
          /\ job' = [job EXCEPT !.len = len, !.slack = slack]
          /\ Return(-1)
          /\ UNCHANGED buf
       \/ /\ job.off < Limit(slack)
          /\ job' = [job EXCEPT !.len = len, !.slack = slack, !.remain = toread,
                       !.blk = job.off \div BlockSize, !.byte = job.off % BlockSize]
          /\ buf' = [k \in 1 .. len |-> IF k > toread THEN Zero ELSE Junk]
          /\ pc' = "read"
          /\ UNCHANGED ret
  /\ UNCHANGED attr

Run       == attr.run[job.run]

(* Mutant: the loop does not look at the last run. *)
ReadDoneBeforeLast == job.remain = 0 \/ job.run >= Len(attr.run)

ReadDone  == job.remain = 0 \/ job.run > Len(attr.run)
Before    == Run.offset + Run.len <= job.blk

(* Mutant: the first block of a run is read wherever in it the read starts. *)
BlockInRunFirst == 0

BlockInRun == IF Run.offset < job.blk THEN job.blk - Run.offset ELSE 0

LenInRun   == Least(job.remain, (Run.len - BlockInRun) * BlockSize - job.byte)
PosInFile  == (Run.offset + BlockInRun) * BlockSize

(* How far into buf the loop has come *)
Filled == Least(job.len, Limit(job.slack) - job.off) - job.remain

SkipRun ==
  /\ pc = "read" /\ ~ReadDone /\ Before
  /\ job' = [job EXCEPT !.run = @ + 1]
  /\ UNCHANGED <<attr, buf, pc, ret>>

PastInit == PosInFile + job.byte >= attr.initsize /\ ~job.slack

ZeroRun ==
  /\ pc = "read" /\ ~ReadDone /\ ~Before
  /\ IsSparse(Run) \/ PastInit
  /\ buf' = Put(Filled, Zeros(LenInRun))
  /\ job' = [job EXCEPT !.run = @ + 1, !.remain = @ - LenInRun]
  /\ UNCHANGED <<attr, pc, ret>>

(* tsk_fs_read checks where a read starts and returns -1 if that is past    *)
(* the end of the file system; what it returns from offset off on          *)
InFileSystem(off) == off < (LastBlock + 1) * BlockSize

Bytes(off, n) == [k \in 1 .. n |-> off + k - 1]

(* The end of what was read is wiped if it lies past initsize; the offset  *)
(* in the first block has been reset by then.                              *)
Wiped(bytes) ==
  IF PosInFile + LenInRun > attr.initsize /\ ~job.slack
  THEN [k \in DOMAIN bytes |-> IF k > attr.initsize - PosInFile THEN Zero ELSE bytes[k]]
  ELSE bytes

DataRun ==
  LET off == (Run.addr + BlockInRun) * BlockSize + job.byte IN
  /\ pc = "read" /\ ~ReadDone /\ ~Before
  /\ ~IsSparse(Run) /\ ~PastInit
  /\ \/ /\ InFileSystem(off)
        /\ buf' = Put(Filled, Wiped(Bytes(off, LenInRun)))
        /\ job' = [job EXCEPT !.run = @ + 1, !.byte = 0, !.remain = @ - LenInRun]
        /\ UNCHANGED <<pc, ret>>
     \/ \E cnt \in -1 .. LenInRun - 1 :
          /\ cnt = -1 \/ InFileSystem(off)
          /\ buf' = Put(Filled, Bytes(off, cnt))
          /\ pc' = "failed" /\ ret' = cnt
          /\ UNCHANGED job
  /\ UNCHANGED attr

FinishRead ==
  /\ pc = "read" /\ ReadDone
  /\ Return(Filled)
  /\ UNCHANGED <<attr, job, buf>>

-----------------------------------------------------------------------------
(* tsk_fs_attr_walk_nonres; off is the offset of the next callback. *)
StartWalk ==
  /\ pc = "start"
  /\ \E slack, nosparse \in BOOLEAN :
       /\ job' = [NoJob EXCEPT !.slack = slack, !.nosparse = nosparse,
                    !.skip = attr.skiplen]
       /\ buf' = [k \in 1 .. Limit(slack) |-> Junk]
  /\ pc' = "walk"
  /\ UNCHANGED <<attr, ret>>

WalkDone == job.run > Len(attr.run)

Advanced(by) ==
  IF job.blk + 1 < Run.len
  THEN [job EXCEPT !.blk = @ + 1, !.off = @ + by,
          !.skip = IF by = 0 THEN @ - BlockSize ELSE 0]
  ELSE [job EXCEPT !.run = @ + 1, !.blk = 0, !.off = @ + by,
          !.skip = IF by = 0 THEN @ - BlockSize ELSE 0]

(* Mutant: the last block is not wiped from initsize on. *)
BlockNotWiped ==
  IF IsSparse(Run) \/ (job.off >= attr.initsize /\ ~job.slack)
  THEN Zeros(BlockSize)
  ELSE Bytes((Run.addr + job.blk) * BlockSize, BlockSize)

Block ==
  IF IsSparse(Run) \/ (job.off >= attr.initsize /\ ~job.slack)
  THEN Zeros(BlockSize)
  ELSE [k \in 1 .. BlockSize |->
          IF k > attr.initsize - job.off /\ ~job.slack THEN Zero
          ELSE (Run.addr + job.blk) * BlockSize + k - 1]

(* How much of the block the callback gets *)
RetLen == Least(BlockSize - job.skip, Limit(job.slack) - job.off)

(* Mutant: sparse blocks are never shown. *)
ShownDataOnly == ~IsSparse(Run)

(* The callback is not told of sparse blocks if that is what it asked for. *)
Shown == ~(job.nosparse /\ (IsSparse(Run) \/ job.off > attr.initsize))

WalkSkip ==
  /\ pc = "walk" /\ ~WalkDone /\ Run.addr + job.blk <= LastBlock
  /\ job.skip >= BlockSize
  /\ job' = Advanced(0)
  /\ UNCHANGED <<attr, buf, pc, ret>>

WalkBlock ==
  /\ pc = "walk" /\ ~WalkDone /\ Run.addr + job.blk <= LastBlock
  /\ job.skip < BlockSize
  /\ buf' = IF Shown THEN Put(job.off, SubSeq(Block, job.skip + 1, job.skip + RetLen))
            ELSE buf
  /\ job' = Advanced(RetLen)
  /\ \/ Shown /\ Return(0)                       \* TSK_WALK_STOP
     \/ Shown /\ Return(1)                       \* TSK_WALK_ERROR
     \/ job.off + RetLen >= Limit(job.slack) /\ Return(0)
     \/ job.off + RetLen < Limit(job.slack) /\ UNCHANGED <<pc, ret>>
  /\ UNCHANGED attr

(* The address is too large, or the block cannot be read. *)
WalkFails ==
  /\ pc = "walk" /\ ~WalkDone
  /\ \/ Run.addr + job.blk > LastBlock
     \/ ~IsSparse(Run) /\ (job.off < attr.initsize \/ job.slack)
  /\ Return(1)
  /\ UNCHANGED <<attr, job, buf>>

WalkEnds ==
  /\ pc = "walk" /\ WalkDone
  /\ Return(0)
  /\ UNCHANGED <<attr, job, buf>>

Next ==
  \/ StartRead \/ SkipRun \/ ZeroRun \/ DataRun \/ FinishRead
  \/ StartWalk \/ WalkSkip \/ WalkBlock \/ WalkFails \/ WalkEnds

Spec == Init /\ [][Next]_vars

-----------------------------------------------------------------------------
(* What the documents say of a byte of the content (tsk_fs.h:268-293,      *)
(* fs_attr.c:912, :924, :1094): the content starts skiplen bytes into the  *)
(* runs; sparse and filler runs and what is past initsize are zeros, the   *)
(* latter unless slack is asked for.                                       *)
Content(p) ==
  LET q == p + attr.skiplen
      b == q \div BlockSize
      i == CHOOSE j \in 1 .. Len(attr.run) :
             attr.run[j].offset <= b /\ b < attr.run[j].offset + attr.run[j].len
  IN  IF IsSparse(attr.run[i]) \/ (p >= attr.initsize /\ ~job.slack) THEN Zero
      ELSE (attr.run[i].addr + b - attr.run[i].offset) * BlockSize + (q % BlockSize)

(* tsk_fs_attr_read returns the content: every byte that it says it has    *)
(* read, whichever runs the range starts in, crosses and ends in.          *)
ReadReturnsContent ==
  pc = "done" /\ job.len > 0 /\ ret >= 0 =>
    \A k \in 1 .. ret : buf[k] = Content(job.off + k - 1)

(* tsk_fs_attr_walk hands out the content, each part at its offset: what   *)
(* is before initsize is not taken for what is past it (fs_attr.c:924).    *)
WalkShowsContent ==
  job.len = 0 => \A k \in 1 .. Len(buf) : buf[k] # Junk => buf[k] = Content(k - 1)
=============================================================================
