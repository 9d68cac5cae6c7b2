---------------------------- MODULE FsAttrRuns ----------------------------
(***************************************************************************)
(* How the file system code fills the run list of one attribute of a file. *)
(* It sets a first list and then either adds runs at their offsets in the  *)
(* order in which it meets them (NTFS, HFS+, ext4, YAFFS2) or appends them *)
(* in file order (block pointers of UFS and ext2/3).  The attribute may be *)
(* cleared and used for another file.                                      *)
(***************************************************************************)
EXTENDS AttrRuns

CONSTANTS
  FirstRuns,  \* the lists that an attribute may be set to
  Extents,    \* the lists of consecutive runs that may be added
  MaxCalls    \* bound: how many lists are added to one attribute

ASSUME BoundAssumption == Width \in Nat /\ MaxCalls \in Nat

FileRun == [offset : Nat, addr : Nat, len : Nat \ {0}, filler : {FALSE}]

(* The block after the last of a list *)
EndOf(s) == Last(s).offset + Last(s).len

(* What is added at once is consecutive and ends within the address space. *)
ASSUME ExtentsAssumption ==
  \A s \in Extents :
    /\ s \in Seq(FileRun) /\ s # <<>>
    /\ \A i \in 1 .. Len(s) - 1 : s[i + 1].offset = s[i].offset + s[i].len
    /\ EndOf(s) < Width

(* The lists are those of one file, no block of which is in two of them.   *)
ASSUME FileAssumption ==
  \A s, t \in Extents :
    s = t \/ EndOf(s) <= t[1].offset \/ EndOf(t) <= s[1].offset

(* The first list is empty, one of the others, or a filler for so much of  *)
(* the file that no list is partly in it.                                  *)
ASSUME FirstAssumption ==
  \A new \in FirstRuns :
    \/ new = <<>>
    \/ new \in Extents
    \/ \E n \in 1 .. Width - 1 :
         /\ new = <<Filler(0, n)>>
         /\ \A t \in Extents : n <= t[1].offset \/ EndOf(t) <= n

(* What is appended to one attribute does not wrap around. *)
ASSUME AppendAssumption ==
  \E n \in 0 .. Width - 1 :
    /\ MaxCalls * n < Width
    /\ \A s \in Extents : EndOf(s) - s[1].offset <= n

VARIABLES
  list,     \* nrd.run and nrd.run_end
  mode,     \* "unused", "adding" or "appending"
  blocks,   \* history: the block map of everything taken into the list
  misplaced, \* history: whether the rest of a filler got a wrong offset
  ret,      \* what the last call returned
  calls

vars == <<list, mode, blocks, misplaced, ret, calls>>

Init ==
  /\ list = NoRuns
  /\ mode = "unused"
  /\ blocks = {}
  /\ misplaced = FALSE
  /\ ret = "ok"
  /\ calls = 0

(* tsk_fs_attr_set_run on an attribute that getnew has returned *)
Set ==
  /\ mode = "unused"
  /\ \E new \in FirstRuns :
       /\ list' = SetRun(new)
       /\ blocks' = BlockMap(new)
       /\ mode' \in IF new = <<>> THEN {"adding", "appending"} ELSE {"adding"}
  /\ ret' = "ok"
  /\ UNCHANGED <<misplaced, calls>>

(* Several runs go into a filler that ends behind them.  What is left of   *)
(* it is put behind the first of them, not behind the last (614-615).      *)
InFrontOfRest(runs, new) ==
  /\ Len(new) > 1
  /\ \E i \in DOMAIN runs :
       /\ runs[i].filler
       /\ runs[i].offset <= new[1].offset /\ EndOf(new) < RunEnd(runs[i])

Add ==
  /\ mode = "adding" /\ calls < MaxCalls
  /\ \E new \in Extents :
       \E r \in AddResults(list, new) :
         /\ list' = r.list
         /\ ret' = r.ret
         /\ blocks' = IF r.ret = "ok" THEN blocks \union BlockMap(new) ELSE blocks
         /\ misplaced' = (misplaced \/ (r.ret = "ok" /\ InFrontOfRest(list.run, new)))
  /\ calls' = calls + 1
  /\ UNCHANGED mode

(* The offsets in the runs are ignored: they go to the end of the file. *)
Append_run ==
  /\ mode = "appending" /\ calls < MaxCalls
  /\ \E new \in Extents :
       /\ list' = Appended(list, new)
       /\ blocks' = blocks \union BlockMap(Renumbered(ListEnd(list.run), new))
  /\ calls' = calls + 1
  /\ ret' = "ok"
  /\ UNCHANGED <<mode, misplaced>>

Cleared == IF list.run # <<>> THEN NoRuns ELSE list

(* tsk_fs_attr_clear, from tsk_fs_attrlist_markunused *)
Clear ==
  /\ mode # "unused"
  /\ list' = Cleared
  /\ mode' = "unused"
  /\ blocks' = {}
  /\ misplaced' = FALSE
  /\ ret' = "ok"
  /\ calls' = 0

Next == Set \/ Add \/ Append_run \/ Clear

Spec == Init /\ [][Next]_vars

-----------------------------------------------------------------------------
(* "The entries in the list must be stored in sequential order (based on   *)
(* offset in file)" (tsk_fs.h:160), and run_end is "the final run in the   *)
(* list" (tsk_fs.h:290): in whatever order runs arrive, one by one or      *)
(* several at once, each starts where the one before ends.  It fails when  *)
(* several runs are added in front of the rest of a filler                 *)
(* (fs_attr.c:614-615).                                                    *)
RunsSequential ==
  /\ Sequential(list.run)
  /\ mode = "adding" => list.end = Len(list.run)

(* As long as no several runs have been put in front of the rest of a      *)
(* filler (615), every order of arrival leaves the list that tsk_fs.h:160  *)
(* demands.                                                                *)
InOrderUnlessMisplaced == ~misplaced => RunsSequential

(* As long as no rest of a filler is misplaced (615), the list says of     *)
(* every block of the file what the runs that were taken said of it: no    *)
(* run is lost, moved or shortened when fillers are split and removed or   *)
(* when a later run is added behind run_end.                               *)
MapExact == ~misplaced => BlockMap(list.run) = blocks

(* As long as no rest of a filler is misplaced (615), only a run whose     *)
(* first block is known already is refused; the order of arrival is never  *)
(* a reason (fs_attr.c:542, fs_attr.c:637).                                *)
RefusedOnlyIfKnown ==
  [][Add /\ ~misplaced /\ ret' \in {"beyond", "no filler"} =>
       \E new \in Extents :
         /\ Result(list, ret') \in AddResults(list, new)
         /\ \E a \in {b[2] : b \in blocks} : <<new[1].offset, a>> \in blocks]_vars
=============================================================================
