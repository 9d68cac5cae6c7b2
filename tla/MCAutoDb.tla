---------------------------- MODULE MCAutoDb ----------------------------
EXTENDS AutoDb

CONSTANT none

Fs(files, free) == [files |-> files, free |-> free]

Volumes3(fs1, fs2) ==
  <<[kind |-> "meta", fs |-> none], [kind |-> "alloc", fs |-> fs1],
    [kind |-> "unalloc", fs |-> fs2]>>

Whole(fs) == <<[kind |-> "image", fs |-> fs]>>

Job(vs, areas, chunk) == [vs |-> vs, areas |-> areas, chunk |-> chunk]

(* The first image has a table with a volume of each kind, or is itself a   *)
(* file system or nothing known; the second one is small.                   *)
CaseJobs ==
  <<{Job(TRUE, Volumes3(Fs(1, {1, 3, 4, 6}), Fs(0, {1})), 2),
     Job(TRUE, Volumes3(none, none), 0),
     Job(FALSE, Whole(Fs(1, {2, 3, 5, 7})), -1),
     Job(FALSE, Whole(Fs(0, {1, 3, 5, 6, 8})), 2),
     Job(FALSE, Whole(Fs(0, {2, 3, 5})), 0),
     Job(FALSE, Whole(none), -1)},
    {Job(FALSE, Whole(none), -1), Job(FALSE, Whole(Fs(0, {1})), 0)}>>

(* A file system without a free block *)
FullFsJobs ==
  <<{Job(FALSE, Whole(Fs(0, {})), 0), Job(TRUE, Volumes3(Fs(1, {}), Fs(0, {2})), 2)}>>

(* The theorem on CompleteIfOk assumes it. *)
ASSUME MCJobsGood == AllJobsGood
=============================================================================
