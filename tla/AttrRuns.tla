----------------------------- MODULE AttrRuns -----------------------------
(***************************************************************************)
(* The run list of a non-resident attribute (TSK_FS_ATTR.nrd, fs_attr.c)   *)
(* and the three functions that put runs into it.  A list is a record: the *)
(* sequence of its runs and the position that run_end points to, 0 when it *)
(* is NULL.  A filler run stands for blocks whose run is not known yet.    *)
(***************************************************************************)
EXTENDS Integers, Sequences, FiniteSets

CONSTANT Width  \* the number of values of a TSK_DADDR_T, 2^64 in the code

NoRuns == [run |-> <<>>, end |-> 0]

Filler(offset, len) == [offset |-> offset, addr |-> 0, len |-> len, filler |-> TRUE]

RunEnd(r)   == (r.offset + r.len) % Width
Last(runs)  == runs[Len(runs)]
ListEnd(runs) == IF runs = <<>> THEN 0 ELSE RunEnd(Last(runs))

RunLen(new) ==
  LET upTo[i \in 0 .. Len(new)] ==
        IF i = 0 THEN 0 ELSE upTo[i - 1] + new[i].len
  IN  upTo[Len(new)]

-----------------------------------------------------------------------------
(* tsk_fs_attr_set_run, the run list of which may be empty *)
SetRun(new) ==
  IF new = <<>> THEN NoRuns
  ELSE LET lead == IF new[1].offset = 0 THEN <<>> ELSE <<Filler(0, new[1].offset)>>
       IN  [run |-> lead \o new, end |-> Len(lead \o new)]

-----------------------------------------------------------------------------
(* tsk_fs_attr_add_run.  A result is the list and what is returned: "ok",  *)
(* or why it failed.                                                       *)
Result(list, ret) == [list |-> list, ret |-> ret]

AtEnd(list, new) ==
  list.end # 0 /\ RunEnd(list.run[list.end]) = new[1].offset

(* What run_end had after it, if anything, is dropped from the list. *)
AppendedAtEnd(list, new) ==
  LET run == SubSeq(list.run, 1, list.end) \o new
  IN  [run |-> run, end |-> Len(run)]

(* Mutant: only a filler that starts where the new runs start is used. *)
StopsAtStart(list, i, new) ==
  list.run[i].filler /\ list.run[i].offset = new[1].offset

(* The walk along the list stops at the first filler that contains the new *)
(* offset or lies beyond it.                                               *)
StopsAt(list, i, new) ==
  /\ list.run[i].filler
  /\ \/ list.run[i].offset > new[1].offset
     \/ RunEnd(list.run[i]) > new[1].offset

(* Mutant: the end of the list is not moved when the last filler goes. *)
EndKept(list, i, run) == list.end

(* run_end stays with the run it points to as others are put before it; if *)
(* that is the filler that the new runs replace, it is their last one.     *)
EndMoved(list, i, run) ==
  IF list.end >= i THEN list.end + Len(run) - Len(list.run) ELSE list.end

(* What is left of a filler that has been cut at the front *)
Rest(len, new) ==
  IF RunLen(new) = len THEN <<>>
  ELSE <<Filler(new[1].offset + new[1].len, (len - RunLen(new)) % Width)>>

InsertedIn(list, i, new) ==
  LET fill == list.run[i]
      lead == new[1].offset - fill.offset
      run  == SubSeq(list.run, 1, i - 1)
                \o (IF lead = 0 THEN <<>> ELSE <<Filler(fill.offset, lead)>>)
                \o new \o Rest(fill.len - lead, new)
                \o SubSeq(list.run, i + 1, Len(list.run))
  IN  [run |-> run, end |-> EndMoved(list, i, run)]

InsertResults(list, i, new) ==
  IF list.run[i].offset > new[1].offset THEN {Result(list, "beyond")}
  ELSE {Result(InsertedIn(list, i, new), "ok")} \union
       (IF list.run[i].offset = new[1].offset THEN {}
        ELSE {Result(list, "no memory")})

(* The first of the runs looks like the last run of the list. *)
IsDuplicate(list, new) ==
  Last(list.run).addr = new[1].addr /\ Last(list.run).len = new[1].len

TailFiller(list, new) ==
  IF ListEnd(list.run) = new[1].offset \/ new[1].offset = 0 THEN <<>>
  ELSE <<Filler(ListEnd(list.run), new[1].offset - ListEnd(list.run))>>

TailResults(list, new) ==
  LET gap == TailFiller(list, new)
      run == list.run \o gap \o new
  IN  IF list.run # <<>> /\ ListEnd(list.run) > new[1].offset
      THEN {Result(list, IF IsDuplicate(list, new) THEN "ok" ELSE "no filler")}
      ELSE {Result([run |-> run, end |-> Len(run)], "ok")} \union
           (IF gap = <<>> THEN {} ELSE {Result(list, "no memory")})

AddResults(list, new) ==
  LET stops == {i \in 1 .. Len(list.run) : StopsAt(list, i, new)}
  IN  IF AtEnd(list, new) THEN {Result(AppendedAtEnd(list, new), "ok")}
      ELSE IF stops = {} THEN TailResults(list, new)
      ELSE InsertResults(list, CHOOSE i \in stops : \A j \in stops : i <= j, new)

-----------------------------------------------------------------------------
Renumbered(from, new) ==
  LET offset[i \in 1 .. Len(new)] ==
        IF i = 1 THEN from ELSE offset[i - 1] + new[i - 1].len
  IN  [i \in 1 .. Len(new) |-> [new[i] EXCEPT !.offset = offset[i]]]

(* Mutant: the run list is searched for its end only when run_end is NULL. *)
KnownEndStale(list) == IF list.end = 0 THEN Len(list.run) ELSE list.end

(* run_end is looked for again if it is NULL or has a successor. *)
KnownEnd(list) ==
  IF list.end = 0 \/ list.end < Len(list.run) THEN Len(list.run) ELSE list.end

(* tsk_fs_attr_append_run.  run_end is moved along only over the runs that *)
(* follow the first new one.                                               *)
Appended(list, new) ==
  LET e == KnownEnd(list)
      from == IF list.run = <<>> THEN 0 ELSE RunEnd(list.run[e])
      run == SubSeq(list.run, 1, e) \o Renumbered(from, new)
  IN  [run |-> run,
       end |-> IF Len(new) > 1 THEN Len(run)
               ELSE IF list.run = <<>> THEN list.end ELSE e]

-----------------------------------------------------------------------------
(* Where a block of a run is; a run at address 0 is sparse, no block of it  *)
(* is anywhere.                                                            *)
Address(run, k) == IF run.addr = 0 THEN 0 ELSE run.addr + k

(* What a list says: which block of the file is at which address *)
BlockMap(runs) ==
  UNION {{<<runs[i].offset + k, Address(runs[i], k)>> : k \in 0 .. runs[i].len - 1} :
           i \in {j \in 1 .. Len(runs) : ~runs[j].filler}}

(* tsk_fs.h:160 "must be stored in sequential order (based on offset in    *)
(* file)": the runs follow each other without a gap from block 0 on.       *)
Sequential(runs) ==
  \A i \in 1 .. Len(runs) :
    runs[i].offset = ListEnd(SubSeq(runs, 1, i - 1))
=============================================================================
