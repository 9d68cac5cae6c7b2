---------------------------- MODULE RawSegments ----------------------------
(***************************************************************************)
(* raw_read and raw_read_segment (tsk/img/raw.c, POSIX build): a read of a *)
(* split raw image.  The caller holds cache_lock, so one read runs at a    *)
(* time.  Only SPLIT_CACHE segment files are kept open; the table cptr     *)
(* says which, and seek_pos saves lseek calls by remembering where each    *)
(* file descriptor stands.                                                 *)
(***************************************************************************)
EXTENDS Integers, Sequences

CONSTANTS
  SegLens,      \* the size of each segment file, in order
  SPLIT_CACHE,  \* how many segment files are kept open
  Fds,          \* the file descriptors open() may return
  Requests,     \* offset and length of the reads that may be asked for
  MaxReads      \* bound: how many reads are made

ASSUME SegAssumption == SegLens \in Seq(Nat) /\ SegLens # <<>>
ASSUME CacheAssumption == SPLIT_CACHE \in Nat \ {0}
ASSUME RequestAssumption == Requests \subseteq Nat \X Nat

(* open() does not return 0, which raw.c takes for the mark of an unused   *)
(* entry: the standard input of the process is open.                       *)
ASSUME FdAssumption == Fds \subseteq Nat \ {0}

VARIABLES
  cptr,       \* for each segment the entry of cache that has it open, or -1
  cache,      \* IMG_SPLIT_CACHE: fd (0 if unused), image and seek_pos
  next_slot,  \* the entry to use for the next segment that is opened
  file, pos,  \* the kernel's side of a descriptor: segment (-1) and position
  job,        \* the read under way
  pc,
  ret,        \* what the last read returned
  reads

tables == <<cptr, cache, next_slot>>
kernel == <<file, pos>>
vars == <<cptr, cache, next_slot, file, pos, job, pc, ret, reads>>

NumImg == Len(SegLens)
Segs   == 0 .. NumImg - 1
Slots  == 0 .. SPLIT_CACHE - 1

(* The running total of the segment sizes that raw_open computes *)
max_off[i \in Segs] == SegLens[i + 1] + (IF i = 0 THEN 0 ELSE max_off[i - 1])

Size == max_off[NumImg - 1]
Start(i) == max_off[i] - SegLens[i + 1]
Least(a, b) == IF a <= b THEN a ELSE b

Unused == [fd |-> 0, image |-> 0, seek_pos |-> 0]

-----------------------------------------------------------------------------
Init ==
  /\ cptr = [i \in Segs |-> -1]
  /\ cache = [s \in Slots |-> Unused]
  /\ next_slot = 0
  /\ file = [fd \in Fds |-> -1]
  /\ pos = [fd \in Fds |-> 0]
  /\ job = [off |-> 0, len |-> 0, i |-> 0, rel |-> 0, want |-> 0,
            left |-> 0, data |-> <<>>]
  /\ pc = "idle"
  /\ ret = 0
  /\ reads = 0

(* The read starts in the first segment that ends after the offset. *)
FirstSegment(off, i) ==
  off < max_off[i] /\ \A j \in 0 .. i - 1 : off >= max_off[j]

Begin ==
  /\ pc = "idle" /\ reads < MaxReads
  /\ reads' = reads + 1
  /\ \E r \in Requests : LET off == r[1] len == r[2] IN
       \/ \E i \in Segs :
            /\ FirstSegment(off, i)
            /\ job' = [off |-> off, len |-> len, i |-> i,
                       rel |-> off - Start(i),
                       want |-> Least(len, max_off[i] - off),
                       left |-> len, data |-> <<>>]
            /\ pc' = "segment"
            /\ UNCHANGED ret
       \/ /\ off >= Size
          /\ job' = [job EXCEPT !.off = off, !.len = len, !.data = <<>>]
          /\ ret' = -1
          /\ UNCHANGED pc
  /\ UNCHANGED <<tables, kernel>>

Finish(n) == pc' = "idle" /\ ret' = n

(* Mutant: the segment that loses its descriptor keeps its pointer. *)
DisownKeepsPointer(old) == cptr

(* The segment that had the entry before is no longer open. *)
Disown(old) == IF old.fd # 0 THEN [cptr EXCEPT ![old.image] = -1] ELSE cptr

(* Mutant: the descriptor of an evicted segment is not closed. *)
ClosedNot(old) == file

Closed(old) == IF old.fd # 0 THEN [file EXCEPT ![old.fd] = -1] ELSE file

NextSlot == (next_slot + 1) % SPLIT_CACHE

OpenSegment ==
  LET old == cache[next_slot] IN
  /\ pc = "segment" /\ cptr[job.i] = -1
  /\ \/ \E fd \in {f \in Fds : Closed(old)[f] = -1} :
          /\ file' = [Closed(old) EXCEPT ![fd] = job.i]
          /\ pos' = [pos EXCEPT ![fd] = 0]
          /\ cache' = [cache EXCEPT ![next_slot] =
                         [fd |-> fd, image |-> job.i, seek_pos |-> 0]]
          /\ cptr' = [Disown(old) EXCEPT ![job.i] = next_slot]
          /\ next_slot' = NextSlot
          /\ UNCHANGED <<pc, ret>>
     \/ /\ file' = Closed(old)
        /\ cache' = [cache EXCEPT ![next_slot].fd = 0]
        /\ cptr' = Disown(old)
        /\ Finish(-1)
        /\ UNCHANGED <<pos, next_slot>>
  /\ UNCHANGED <<job, reads>>

(* The descriptor is moved only if seek_pos says that it stands elsewhere. *)
Seek ==
  LET s == cptr[job.i] IN
  /\ pc = "segment" /\ s # -1
  /\ \/ /\ cache[s].seek_pos = job.rel
        /\ pc' = "read"
        /\ UNCHANGED <<pos, cache, ret>>
     \/ /\ cache[s].seek_pos # job.rel
        /\ pos' = [pos EXCEPT ![cache[s].fd] = job.rel]
        /\ cache' = [cache EXCEPT ![s].seek_pos = job.rel]
        /\ pc' = "read"
        /\ UNCHANGED ret
     \/ /\ cache[s].seek_pos # job.rel
        /\ Finish(-1)
        /\ UNCHANGED <<pos, cache>>
  /\ UNCHANGED <<cptr, next_slot, file, job, reads>>

(* What read() appends to the buffer: c bytes from where the descriptor is *)
ReadBytes(fd, c) == [k \in 1 .. c |-> Start(file[fd]) + pos[fd] + k - 1]

(* Mutant: seek_pos is not advanced by what was read. *)
AdvancedNot(s, c) == cache

Advanced(s, c) == [cache EXCEPT ![s].seek_pos = @ + c]

(* Mutant: what was read of a segment is not taken off the length. *)
RemainingAll == job.left

Remaining == job.left - job.want

(* Having read a segment to its end the read goes on at the start of the   *)
(* next one; the loop does not ask whether there is one.                   *)
GoOn(data) ==
  LET left == Remaining
      i == job.i + 1
  IN  IF i \in Segs
      THEN /\ job' = [job EXCEPT !.i = i, !.rel = 0, !.left = left,
                        !.want = Least(left, SegLens[i + 1]), !.data = data]
           /\ pc' = "segment"
      ELSE /\ job' = [job EXCEPT !.i = i, !.left = left, !.data = data]
           /\ pc' = "outside"

Read ==
  LET s == cptr[job.i]
      fd == cache[s].fd
      room == SegLens[file[fd] + 1] - pos[fd]
  IN
  /\ pc = "read"
  /\ \E c \in 0 .. job.want :
       /\ c = 0 \/ c <= room
       /\ pos' = [pos EXCEPT ![fd] = @ + c]
       /\ cache' = Advanced(s, c)
       /\ LET data == job.data \o ReadBytes(fd, c) IN
          IF c = job.want /\ job.left > job.want
          THEN GoOn(data) /\ UNCHANGED ret
          ELSE Finish(Len(data)) /\ job' = [job EXCEPT !.data = data]
  /\ UNCHANGED <<cptr, next_slot, file, reads>>

ReadFailed ==
  /\ pc = "read"
  /\ Finish(-1)
  /\ UNCHANGED <<tables, kernel, job, reads>>

Next == Begin \/ OpenSegment \/ Seek \/ Read \/ ReadFailed

Spec == Init /\ [][Next]_vars

-----------------------------------------------------------------------------
Contract == INSTANCE ImgContract WITH ImgSize <- Size

(* raw_read keeps what tsk_img_read relies on: whichever segments were     *)
(* open, evicted or could not be opened by earlier reads, what it delivers *)
(* are the bytes of the image from the offset asked for on.  This is about *)
(* reads that return; what a read that has run past the tables goes on     *)
(* with is undefined, and the model ends there ("outside").                *)
KeepsContract ==
  pc = "idle" =>
    /\ ret \in Contract!Answers(job.off, job.len)
    /\ ret # -1 => Len(job.data) = ret
    /\ \A k \in DOMAIN job.data : job.data[k] = job.off + k - 1

(* raw.h:45 "exists for each image - points to entry in cache": the entry  *)
(* that a segment points to is its own, and is open on its file.           *)
PointsToOwnEntry ==
  \A i \in Segs : cptr[i] # -1 =>
    cache[cptr[i]].image = i /\ file[cache[cptr[i]].fd] = i

(* Every descriptor that is open is owned by exactly one entry: none is    *)
(* lost when entries are reused or when a segment cannot be opened.        *)
NoDescriptorLost ==
  \A fd \in Fds : file[fd] # -1 =>
    \E s \in Slots : /\ cache[s].fd = fd
                     /\ \A s2 \in Slots : cache[s2].fd = fd => s2 = s

(* A read runs past the last segment only if it starts in the image and is *)
(* longer than what is left of it, and has then delivered all of that:     *)
(* empty segments, segments that end where the read does and segments that *)
(* had to be opened again never lead out of the table (raw.c:261-271).     *)
OutsideOnlyPastEnd ==
  pc = "outside" =>
    /\ job.off < Size /\ Size < job.off + job.len
    /\ Len(job.data) = Size - job.off

(* raw.c:200 "return number of bytes read or -1 on error": a read returns, *)
(* whatever is asked for; it never runs on to entries that max_off and     *)
(* cptr do not have.                                                       *)
StaysInside == pc # "outside"
=============================================================================
