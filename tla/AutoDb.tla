------------------------------ MODULE AutoDb ------------------------------
(***************************************************************************)
(* Adding disk images to a case database (TskAutoDb, tsk/auto/auto_db.cpp, *)
(* over TskAuto, auto.cpp): inside a savepoint, rows are inserted for the  *)
(* image, its volumes, file systems and files and for the space that none  *)
(* of them uses, until all has been seen or another thread asks to stop;   *)
(* then the caller commits or reverts.                                     *)
(*                                                                         *)
(* An image has areas: its volumes or, if it has no volume system, one     *)
(* area that is the whole image.  An area may hold a file system with      *)
(* files and unallocated blocks.                                           *)
(***************************************************************************)
EXTENDS Savepoint, Integers, SequencesExt

CONSTANTS
  Jobs,         \* what each TskAutoDb may be given: an image, as its areas and
                \* whether it has a volume system, and m_chunkSize, in blocks
  NoFs,         \* an area in which no file system is found
  MaxAdditions, \* bound: how many TskAutoDb are made
  MaxFaults,    \* bound: statements of the database and walks that fail
  MaxCrashes    \* bound: ends of the process

Additions == 1 .. MaxAdditions

VARIABLES
  db,       \* the case database
  job,      \* what each addition has been given
  at,       \* where each addition is
  auto,     \* the members of its TskAutoDb that steer it
  area,     \* the area it is in
  count,    \* the next file of the area, or the next file system or volume
  track,    \* UNALLOC_BLOCK_WLK_TRACK, numFs, numVsP and whether all went well
  ret,      \* what startAddImage has returned
  outcome,  \* how the caller has ended it
  written,  \* history: the rows that it has inserted
  late,     \* history: how many of them, after the image's own, since
            \* m_stopAllProcessing was set
  exposed,  \* history: additions whose rows another start has committed
  faults, crashes

vars == <<db, job, at, auto, area, count, track, ret, outcome, written, late,
          exposed, faults, crashes>>
ended   == <<outcome, exposed, crashes>>

NoTrack == [start |-> 0, prev |-> 0, size |-> 0, ranges |-> <<>>,
            isStart |-> TRUE, numFs |-> 0, numVs |-> 0, err |-> FALSE]

(* m_imgTransactionOpen, m_stopped and m_stopAllProcessing, m_foundStructure *)
(* and whether m_errors has something                                      *)
NewAuto == [open |-> FALSE, stop |-> "no", found |-> FALSE, errors |-> FALSE]

NoJob == [areas |-> <<>>, vs |-> FALSE, chunk |-> -1]

Row(a, what, i, n) == [of |-> a, what |-> what, area |-> i, n |-> n, ranges |-> <<>>]

FreeRow(a, i, ranges) == [Row(a, "free blocks", i, 0) EXCEPT !.ranges = ranges]

Init ==
  /\ db = Empty
  /\ job = [a \in Additions |-> NoJob]
  /\ at = [a \in Additions |-> "new"]
  /\ auto = [a \in Additions |-> NewAuto]
  /\ area = [a \in Additions |-> 1] /\ count = [a \in Additions |-> 0]
  /\ track = [a \in Additions |-> NoTrack]
  /\ ret = [a \in Additions |-> -1]
  /\ outcome = [a \in Additions |-> "none"]
  /\ written = [a \in Additions |-> {}] /\ late = [a \in Additions |-> 0]
  /\ exposed = {}
  /\ faults = 0 /\ crashes = 0

Goto(a, l) == at' = [at EXCEPT ![a] = l]

Return(a, n) == Goto(a, "returned") /\ ret' = [ret EXCEPT ![a] = n]

StopAll(a) == auto[a].stop = "all"

Fault == faults < MaxFaults /\ faults' = faults + 1

NoFault == UNCHANGED faults

(* A file and its ranges, for which the code makes several statements, are   *)
(* inserted together or not at all: what a failure leaves of them is part of *)
(* no row here.                                                              *)
Insert(a, row) ==
  /\ db' = Inserted(db, row)
  /\ written' = [written EXCEPT ![a] = @ \union {row}]
  /\ late' = [late EXCEPT ![a] = IF StopAll(a) /\ row.what # "image" THEN @ + 1 ELSE @]

NoInsert == UNCHANGED <<db, written, late>>

Area(a) == job[a].areas[area[a]]

-----------------------------------------------------------------------------
(* startAddImage.  RELEASE is used to see whether there is a savepoint; if *)
(* there is, this commits what was done since.  A caller that was refused  *)
(* waits until the additions before it have ended.                         *)
Unfinished(b) == at[b] # "new" /\ outcome[b] = "none"

MayStart(a) ==
  /\ at[a] = "new" /\ (a > 1 => at[a - 1] # "new")
  /\ db.open \/ \A b \in Additions : ~Unfinished(b)

Uncommitted == {row.of : row \in db.tx \ db.committed}
               \union {b \in Additions : Unfinished(b) /\ auto[b].open}

StartRefused(a) ==
  /\ MayStart(a) /\ db.open
  /\ \/ db' = Released(db) /\ exposed' = exposed \union Uncommitted /\ NoFault
     \/ Fault /\ UNCHANGED <<db, exposed>>        \* inTransaction
  /\ Return(a, 1)
  /\ UNCHANGED <<job, auto, area, count, track, outcome, written, late, crashes>>

Start(a) ==
  /\ MayStart(a) /\ ~db.open
  /\ \E j \in Jobs[a] : job' = [job EXCEPT ![a] = j]
  /\ \/ /\ db' = Created(db) /\ auto' = [auto EXCEPT ![a].open = TRUE]
        /\ Goto(a, "open") /\ NoFault /\ UNCHANGED ret
     \/ Fault /\ Return(a, 1) /\ UNCHANGED <<db, auto>>
  /\ UNCHANGED <<area, count, track, written, late, ended>>

NextArea(a) ==
  /\ area' = [area EXCEPT ![a] = @ + 1] /\ count' = [count EXCEPT ![a] = 0]
  /\ Goto(a, "area")

GiveUp(a) == Goto(a, "found") /\ UNCHANGED <<area, count>>

Register(a) == auto' = [auto EXCEPT ![a].errors = TRUE]

(* openImage with addImageInfo and addImageName, and the writer of the image. *)
(* The caller of a failed start is spared the revert, but not if the writer   *)
(* fails.                                                                     *)
OpenImage(a) ==
  /\ at[a] = "open"
  /\ \/ /\ Insert(a, Row(a, "image", 0, 0)) /\ NoFault /\ UNCHANGED ret
        /\ IF job[a].vs THEN Goto(a, "vs") ELSE Goto(a, "fs")
     \/ /\ NoInsert \/ Insert(a, Row(a, "image", 0, 0))
        /\ Fault /\ Goto(a, "not opened") /\ UNCHANGED ret
     \/ Insert(a, Row(a, "image", 0, 0)) /\ Fault /\ Return(a, 1)
  /\ UNCHANGED <<job, auto, area, count, track, ended>>

(* filterVs *)
VolumeSystem(a) ==
  /\ at[a] = "vs"
  /\ \/ /\ Insert(a, Row(a, "vs", 0, 0)) /\ NoFault /\ UNCHANGED auto
        /\ IF StopAll(a) THEN Goto(a, "found") ELSE Goto(a, "area")
     \/ NoInsert /\ Fault /\ Register(a) /\ Goto(a, "found")
  /\ UNCHANGED <<job, area, count, track, ret, ended>>

NoMoreAreas(a) ==
  /\ at[a] = "area"
  /\ area[a] > Len(job[a].areas)
  /\ GiveUp(a)
  /\ UNCHANGED <<db, job, auto, track, ret, written, late, faults, ended>>

SkipMeta(a) ==
  /\ at[a] = "area" /\ area[a] <= Len(job[a].areas)
  /\ Area(a).kind = "meta"
  /\ NextArea(a)
  /\ UNCHANGED <<db, job, auto, track, ret, written, late, faults, ended>>

(* vsWalkCb with filterVol *)
Volume(a) ==
  /\ at[a] = "area" /\ area[a] <= Len(job[a].areas)
  /\ Area(a).kind # "meta"
  /\ \/ /\ Insert(a, Row(a, "volume", area[a], 0)) /\ NoFault
        /\ auto' = [auto EXCEPT ![a].found = TRUE]
        /\ IF StopAll(a) THEN Goto(a, "found") ELSE Goto(a, "fs")
     \/ /\ NoInsert /\ Fault
        /\ auto' = [auto EXCEPT ![a].found = TRUE, ![a].errors = TRUE]
        /\ Goto(a, "found")
  /\ UNCHANGED <<job, area, count, track, ret, ended>>

-----------------------------------------------------------------------------
(* findFilesInFsRet *)
LeaveFs(a) == Goto(a, "fs done") /\ UNCHANGED <<area, count>>

ExpectsFs(a) == Area(a).kind \in {"alloc", "image"}

NoFileSystem(a) ==
  /\ at[a] = "fs" /\ Area(a).fs = NoFs
  /\ IF ExpectsFs(a) THEN Register(a) ELSE UNCHANGED auto
  /\ LeaveFs(a)
  /\ UNCHANGED <<db, job, track, ret, written, late, faults, ended>>

(* filterFs.  A root directory that cannot be opened is passed over, and the *)
(* walk begins with the files below it.                                      *)
FileSystem(a) ==
  /\ at[a] = "fs" /\ Area(a).fs # NoFs
  /\ \/ /\ Insert(a, Row(a, "fs", area[a], 0))
        /\ auto' = [auto EXCEPT ![a].found = TRUE]
        /\ Goto(a, "files")
        /\ \/ NoFault /\ UNCHANGED count
           \/ Fault /\ count' = [count EXCEPT ![a] = 1]
     \/ /\ NoInsert /\ Fault
        /\ auto' = [auto EXCEPT ![a].found = TRUE, ![a].errors = TRUE]
        /\ Goto(a, "fs done") /\ UNCHANGED count
  /\ UNCHANGED <<job, area, track, ret, ended>>

(* processFile for the root directory, file 0, and for what the walk meets *)
File(a) ==
  /\ at[a] = "files" /\ count[a] <= Area(a).fs.files
  /\ auto[a].stop = "no"
  /\ \/ Insert(a, Row(a, "file", area[a], count[a])) /\ NoFault /\ UNCHANGED auto
     \/ NoInsert /\ Fault /\ Register(a)
  /\ count' = [count EXCEPT ![a] = @ + 1]
  /\ UNCHANGED <<job, at, area, track, ret, ended>>

FilesEnd(a) ==
  /\ at[a] = "files"
  /\ count[a] > Area(a).fs.files \/ auto[a].stop # "no"
  /\ LeaveFs(a)
  /\ UNCHANGED <<db, job, auto, track, ret, written, late, faults, ended>>

WalkFails(a) ==
  /\ at[a] = "files" /\ count[a] > 0
  /\ Fault /\ Register(a)
  /\ LeaveFs(a)
  /\ NoInsert /\ UNCHANGED <<job, track, ret, ended>>

(* Mutant: the walk goes on although all was to stop. *)
AfterFsGoesOn(a) == IF job[a].vs THEN NextArea(a) ELSE GiveUp(a)

AfterFs(a) == IF job[a].vs /\ ~StopAll(a) THEN NextArea(a) ELSE GiveUp(a)

FsDone(a) ==
  /\ at[a] = "fs done"
  /\ AfterFs(a)
  /\ UNCHANGED <<db, job, auto, track, ret, written, late, faults, ended>>

(* Mutant: what could not be added is forgotten once something was found. *)
AnswerIfFound(a) == IF auto[a].found \/ ~auto[a].errors THEN 0 ELSE 1

(* addFilesInImgToDb: findFilesInImg has an error if any was registered. *)
FilesAnswer(a) ==
  IF ~auto[a].errors THEN 0 ELSE IF auto[a].found THEN 2 ELSE 1

Found(a) ==
  /\ at[a] = "found"
  /\ ret' = [ret EXCEPT ![a] = FilesAnswer(a)]
  /\ IF StopAll(a) THEN Goto(a, "returned") ELSE Goto(a, "fs space")
  /\ UNCHANGED <<db, job, auto, area, count, track, written, late, faults, ended>>

-----------------------------------------------------------------------------
(* addUnallocFsSpaceToDb, of what the database has for this image *)
AreasWith(a, what) ==
  {row.area : row \in {r \in Visible(db) : r.of = a /\ r.what = what}}

LaterFs(a) == {i \in AreasWith(a, "fs") : i > area[a]}

Problem(a) == track' = [track EXCEPT ![a].err = TRUE]

FsSpace(a) ==
  /\ at[a] = "fs space"
  /\ \/ /\ StopAll(a)
        /\ Goto(a, "vs space") /\ NoFault /\ UNCHANGED <<auto, area, track>>
     \/ /\ ~StopAll(a)
        /\ track' = [track EXCEPT ![a].numFs = Cardinality(AreasWith(a, "fs"))]
        /\ area' = [area EXCEPT ![a] = 0]
        /\ Goto(a, "next fs") /\ NoFault /\ UNCHANGED auto
     \/ /\ ~StopAll(a)
        /\ Fault /\ Register(a) /\ Problem(a)
        /\ Goto(a, "vs space") /\ UNCHANGED area
  /\ UNCHANGED <<db, job, count, ret, written, late, ended>>

NoMoreFs(a) ==
  /\ at[a] = "next fs"
  /\ StopAll(a) \/ LaterFs(a) = {}
  /\ Goto(a, "vs space")
  /\ UNCHANGED <<db, job, auto, area, count, track, ret, written, late, faults, ended>>

HasRoot(a, i) == Row(a, "file", i, 0) \in Visible(db)

(* addFsInfoUnalloc: tsk_fs_open_img, the directory for the files of free    *)
(* blocks in the root directory, UNALLOC_BLOCK_WLK_TRACK                     *)
OpenFs(a) ==
  /\ at[a] = "next fs" /\ ~StopAll(a) /\ LaterFs(a) # {}
  /\ area' = [area EXCEPT ![a] = Min(LaterFs(a))]
  /\ \/ /\ HasRoot(a, area'[a])
        /\ Insert(a, Row(a, "free dir", area'[a], 0)) /\ NoFault
        /\ count' = [count EXCEPT ![a] = -1]
        /\ track' = [track EXCEPT ![a] =
             [NoTrack EXCEPT !.numFs = track[a].numFs, !.err = track[a].err]]
        /\ Goto(a, "blocks") /\ UNCHANGED auto
     \/ /\ IF HasRoot(a, area'[a]) THEN Fault ELSE NoFault
        /\ NoInsert /\ Register(a) /\ Problem(a)
        /\ UNCHANGED <<at, count>>
  /\ UNCHANGED <<job, ret, ended>>

LaterFree(a) == {b \in Area(a).fs.free : b > count[a]}

(* The blocks up to the last one seen, as the next range of the file *)
WithRange(t) ==
  Append(t.ranges, [first |-> t.start, last |-> t.prev, seq |-> Len(t.ranges)])

SizeOf(t) == t.size + 1 + t.prev - t.start

(* Mutant: a file that has m_chunkSize still grows. *)
CollectsOneMore(a, size) ==
  job[a].chunk = 0 \/ (job[a].chunk > 0 /\ size <= job[a].chunk)

Collects(a, size) == job[a].chunk = 0 \/ (job[a].chunk > 0 /\ size < job[a].chunk)

NextRangeAt(t, b) == [t EXCEPT !.start = b, !.prev = b]

(* fsWalkUnallocBlocksCb *)
Block(a) ==
  /\ at[a] = "blocks" /\ ~StopAll(a) /\ LaterFree(a) # {}
  /\ LET t == track[a]
         b == Min(LaterFree(a))
         next == [NextRangeAt(t, b) EXCEPT !.ranges = WithRange(t), !.size = SizeOf(t)]
     IN  /\ count' = [count EXCEPT ![a] = b]
         /\ \/ /\ t.isStart
               /\ track' = [track EXCEPT ![a] = [NextRangeAt(t, b) EXCEPT !.isStart = FALSE]]
               /\ NoInsert /\ NoFault
            \/ /\ ~t.isStart /\ b = t.prev + 1
               /\ track' = [track EXCEPT ![a].prev = b]
               /\ NoInsert /\ NoFault
            \/ /\ ~t.isStart /\ b # t.prev + 1 /\ Collects(a, next.size)
               /\ track' = [track EXCEPT ![a] = next]
               /\ NoInsert /\ NoFault
            \/ /\ ~t.isStart /\ b # t.prev + 1 /\ ~Collects(a, next.size)
               /\ track' = [track EXCEPT ![a] = [next EXCEPT !.ranges = <<>>, !.size = 0]]
               /\ \/ Insert(a, FreeRow(a, area[a], next.ranges)) /\ NoFault
                  \/ NoInsert /\ Fault
  /\ UNCHANGED <<job, at, auto, area, ret, ended>>

(* The last range; the first one, too, if the walk has shown no block. *)
BlocksEnd(a) ==
  /\ at[a] = "blocks" /\ ~StopAll(a) /\ LaterFree(a) = {}
  /\ \/ /\ Insert(a, FreeRow(a, area[a], WithRange(track[a]))) /\ NoFault
        /\ UNCHANGED <<auto, track>>
     \/ NoInsert /\ Fault /\ Register(a) /\ Problem(a)
  /\ Goto(a, "next fs")
  /\ UNCHANGED <<job, area, count, ret, ended>>

BlocksStop(a) ==
  /\ at[a] = "blocks" /\ StopAll(a)
  /\ Goto(a, "next fs")
  /\ UNCHANGED <<db, job, auto, area, count, track, ret, written, late, faults, ended>>

BlocksFail(a) ==
  /\ at[a] = "blocks"
  /\ Fault /\ Register(a) /\ Problem(a)
  /\ Goto(a, "next fs")
  /\ NoInsert /\ UNCHANGED <<job, area, count, ret, ended>>

-----------------------------------------------------------------------------
(* addUnallocVsSpaceToDb *)
Volumes(a) == AreasWith(a, "volume")

VsSpace(a) ==
  /\ at[a] = "vs space"
  /\ count' = [count EXCEPT ![a] = 0]
  /\ \/ /\ track' = [track EXCEPT ![a].numVs = Cardinality(Volumes(a))]
        /\ Goto(a, "volumes") /\ NoFault /\ UNCHANGED auto
     \/ /\ \E n \in {0, Cardinality(Volumes(a))} :
             track' = [track EXCEPT ![a].numVs = n, ![a].err = TRUE]
        /\ Fault /\ Register(a) /\ Goto(a, "image space")
  /\ UNCHANGED <<db, job, area, ret, written, late, ended>>

LaterVolumes(a) == {i \in Volumes(a) : i > count[a]}

NoMoreVolumes(a) ==
  /\ at[a] = "volumes"
  /\ StopAll(a) \/ LaterVolumes(a) = {}
  /\ Goto(a, "image space")
  /\ UNCHANGED <<db, job, auto, area, count, track, ret, written, late, faults, ended>>

IsFree(a, i) == job[a].areas[i].kind = "unalloc" \/ i \notin AreasWith(a, "fs")

VolumeSpace(a) ==
  /\ at[a] = "volumes" /\ ~StopAll(a) /\ LaterVolumes(a) # {}
  /\ LET i == Min(LaterVolumes(a)) IN
       \/ /\ IF IsFree(a, i) THEN Insert(a, Row(a, "volume space", i, 0)) ELSE NoInsert
          /\ count' = [count EXCEPT ![a] = i]
          /\ NoFault /\ UNCHANGED <<at, auto, track>>
       \/ /\ Fault /\ Register(a) /\ Problem(a)
          /\ Goto(a, "image space")
          /\ NoInsert /\ UNCHANGED count
  /\ UNCHANGED <<job, area, ret, ended>>

(* addUnallocImageSpaceToDb, and what addFilesInImgToDb returns *)
Answer(a, err) == Return(a, IF ret[a] # 0 THEN ret[a] ELSE IF err THEN 2 ELSE 0)

NothingFound(a) == track[a].numVs = 0 /\ track[a].numFs = 0

ImageSpace(a) ==
  /\ at[a] = "image space"
  /\ \/ /\ IF NothingFound(a) THEN Insert(a, Row(a, "image space", 0, 0)) ELSE NoInsert
        /\ Answer(a, track[a].err) /\ NoFault
     \/ /\ NothingFound(a)
        /\ NoInsert /\ Fault /\ Answer(a, TRUE)
  /\ UNCHANGED <<job, auto, area, count, track, ended>>

-----------------------------------------------------------------------------
(* stopAddImage, of another thread: m_stopped, then m_stopAllProcessing *)
Running(a) == at[a] \notin {"new", "returned", "gone"}

StopAddImage(a) ==
  /\ Running(a)
  /\ \/ auto[a].stop = "no" /\ auto' = [auto EXCEPT ![a].stop = "files"]
     \/ auto[a].stop = "files" /\ auto' = [auto EXCEPT ![a].stop = "all"]
  /\ UNCHANGED <<db, job, at, area, count, track, ret, written, late, faults, ended>>

(* Mutant: the savepoint is released without the rollback. *)
ReleasedOnly(d) == Released(d)

(* revertSavepoint *)
Reverted(d) == Released(RolledBack(d))

RevertWorks == db.open /\ db' = Reverted(db) /\ NoFault

RevertFails ==
  \/ ~db.open /\ NoFault /\ UNCHANGED db
  \/ db.open /\ Fault /\ db' \in {db, RolledBack(db)}

Closed(a) == auto' = [auto EXCEPT ![a].open = FALSE]

End(a, how) == outcome' = [outcome EXCEPT ![a] = how]

OpenFailed(a) ==
  /\ at[a] = "not opened"
  /\ \/ RevertWorks /\ End(a, "reverted")
     \/ RevertFails /\ End(a, "failed")
  /\ Closed(a) /\ Return(a, 1)
  /\ UNCHANGED <<job, area, count, track, written, late, exposed, crashes>>

MayEnd(a) == at[a] = "returned" /\ outcome[a] = "none"

(* revertAddImage, also by the destructor *)
RevertAddImage(a) ==
  /\ MayEnd(a) /\ auto[a].open
  /\ \/ RevertWorks /\ End(a, "reverted")
     \/ RevertFails /\ End(a, "failed")
  /\ Closed(a)
  /\ UNCHANGED <<job, at, area, count, track, ret, written, late, exposed, crashes>>

CommitAddImage(a) ==
  /\ MayEnd(a) /\ auto[a].open
  /\ \/ db.open /\ db' = Released(db) /\ NoFault /\ End(a, "committed")
     \/ db.open /\ Fault /\ UNCHANGED db /\ End(a, "failed")
     \/ ~db.open /\ NoFault /\ UNCHANGED db /\ End(a, "failed")
  /\ Closed(a)
  /\ UNCHANGED <<job, at, area, count, track, ret, written, late, exposed, crashes>>

(* "transaction is already closed" *)
NothingToEnd(a) ==
  /\ MayEnd(a) /\ ~auto[a].open
  /\ End(a, "failed")
  /\ UNCHANGED <<db, job, at, auto, area, count, track, ret, written, late,
                 exposed, faults, crashes>>

(* The process ends. *)
Crash ==
  /\ crashes < MaxCrashes /\ crashes' = crashes + 1
  /\ \E a \in Additions : Unfinished(a)
  /\ db' = Recovered(db)
  /\ outcome' = [a \in Additions |-> IF Unfinished(a) THEN "crashed" ELSE outcome[a]]
  /\ at' = [a \in Additions |-> IF Unfinished(a) THEN "gone" ELSE at[a]]
  /\ UNCHANGED <<job, auto, area, count, track, ret, written, late, exposed, faults>>

Step(a) ==
  \/ StartRefused(a) \/ Start(a) \/ OpenImage(a) \/ OpenFailed(a)
  \/ VolumeSystem(a) \/ NoMoreAreas(a) \/ SkipMeta(a) \/ Volume(a)
  \/ NoFileSystem(a) \/ FileSystem(a) \/ File(a) \/ FilesEnd(a) \/ WalkFails(a)
  \/ FsDone(a) \/ Found(a)
  \/ FsSpace(a) \/ NoMoreFs(a) \/ OpenFs(a)
  \/ Block(a) \/ BlocksEnd(a) \/ BlocksStop(a) \/ BlocksFail(a)
  \/ VsSpace(a) \/ NoMoreVolumes(a) \/ VolumeSpace(a) \/ ImageSpace(a)
  \/ RevertAddImage(a) \/ CommitAddImage(a) \/ NothingToEnd(a)

Next == Crash \/ \E a \in Additions : Step(a) \/ StopAddImage(a)

Spec == Init /\ [][Next]_vars

-----------------------------------------------------------------------------
RowsOf(a, rows) == {row \in rows : row.of = a}

(* An addition that was committed has all its rows in the case for good; of *)
(* one that was reverted none is left; and of one that has ended otherwise, *)
(* or not yet, none is in the case, unless another start has found its      *)
(* savepoint and, by releasing it, committed what it had (auto_db.cpp:439,  *)
(* see OnlyCallerCommits).                                                  *)
Transactional ==
  \A a \in Additions :
    /\ outcome[a] = "committed" => written[a] \subseteq db.committed
    /\ outcome[a] = "reverted" => RowsOf(a, db.committed \union db.tx) = {}
    /\ RowsOf(a, db.committed) # {} => outcome[a] = "committed" \/ a \in exposed

(* What the comment on startAddImage says (auto_db.cpp:422): nothing of an   *)
(* addition is in the case before its caller has committed it.  It fails: a  *)
(* second start looks for the savepoint of the first by releasing it, which  *)
(* commits what the first has added so far, and then refuses (439).          *)
OnlyCallerCommits ==
  \A a \in Additions : RowsOf(a, db.committed) # {} => outcome[a] = "committed"

(* What a job may be: findFilesInVs takes an image without a volume system   *)
(* as one area (auto.cpp:279); what file system an area has is a number of   *)
(* files and its free blocks.                                                *)
GoodJob(j) ==
  /\ Len(j.areas) \in Nat /\ j.chunk \in Int
  /\ ~j.vs => Len(j.areas) = 1 /\ j.areas[1].kind # "meta"
  /\ \A i \in 1 .. Len(j.areas) :
       j.areas[i].fs # NoFs => j.areas[i].fs.files \in Nat /\ j.areas[i].fs.free \subseteq Nat

AllJobsGood == \A a \in Additions : \A j \in Jobs[a] : GoodJob(j)

FoundRows(a) ==
  LET areas == job[a].areas
      found == {i \in 1 .. Len(areas) : areas[i].fs # NoFs /\ areas[i].kind # "meta"}
  IN  {Row(a, "image", 0, 0)}
      \union (IF job[a].vs
              THEN {Row(a, "vs", 0, 0)}
                   \union {Row(a, "volume", i, 0) :
                             i \in {j \in 1 .. Len(areas) : areas[j].kind # "meta"}}
              ELSE {})
      \union {Row(a, "fs", i, 0) : i \in found}
      \union UNION {{Row(a, "file", i, n) : n \in 0 .. areas[i].fs.files} : i \in found}

(* An addition that says that it had no problem, and was not stopped, has   *)
(* found a file system wherever one must be, and has added every volume,    *)
(* file system and file of the image (addFilesInImgToDb, 376), though the   *)
(* errors are only put on a list and a root directory that cannot be opened *)
(* is not even that (324): it is missed when the free blocks get their      *)
(* directory (db_sqlite.cpp:1382).                                          *)
CompleteIfOk ==
  \A a \in Additions :
    at[a] = "returned" /\ ret[a] = 0 /\ auto[a].stop = "no" =>
      /\ FoundRows(a) \subseteq written[a]
      /\ \A i \in 1 .. Len(job[a].areas) :
           job[a].areas[i].kind \in {"alloc", "image"} => job[a].areas[i].fs # NoFs

Blocks(range) == range.first .. range.last

BlocksOf(ranges) == UNION {Blocks(ranges[n]) : n \in DOMAIN ranges}

SizeIs(ranges) == Cardinality(BlocksOf(ranges))

(* A file of free blocks ends with the range that fills it to m_chunkSize.  *)
FitsChunk(chunk, ranges) ==
  \/ chunk < 0 /\ Len(ranges) = 1
  \/ chunk > 0 /\ SizeIs(ranges) >= chunk

(* The rows show the free blocks, each in one range, in ranges that are as  *)
(* large as they can be.                                                    *)
FreeExact(free, chunk, rows) ==
  /\ UNION {BlocksOf(row.ranges) : row \in rows} = free
  /\ \A x, y \in rows : x # y => BlocksOf(x.ranges) \cap BlocksOf(y.ranges) = {}
  /\ \A row \in rows :
       /\ \A m, n \in DOMAIN row.ranges :
            m # n => Blocks(row.ranges[m]) \cap Blocks(row.ranges[n]) = {}
       /\ \A n \in DOMAIN row.ranges :
            row.ranges[n].first - 1 \notin free /\ row.ranges[n].last + 1 \notin free
       /\ Max(free) \in BlocksOf(row.ranges) \/ FitsChunk(chunk, row.ranges)
       /\ chunk > 0 => SizeIs(Front(row.ranges)) < chunk

FreeAreExact(a, i) ==
  FreeExact(job[a].areas[i].fs.free, job[a].chunk,
            {row \in written[a] : row.what = "free blocks" /\ row.area = i})

(* Unless something failed or was stopped, the virtual files show what no   *)
(* file system uses, each block in one range, no range next to another, in  *)
(* files of at least m_chunkSize but for the last; the volumes without a    *)
(* file system; and the image itself only if nothing was found in it.  It   *)
(* is said of the file systems that have a free block (see OnlyFreeBlocks). *)
UnallocExact ==
  \A a \in Additions :
    at[a] = "returned" /\ faults = 0 /\ auto[a].stop = "no" /\ job[a] # NoJob =>
      LET areas == job[a].areas
          has(i) == areas[i].fs # NoFs /\ areas[i].kind # "meta"
          volumes == {i \in 1 .. Len(areas) : job[a].vs /\ areas[i].kind # "meta"}
      IN  /\ \A i \in 1 .. Len(areas) :
               has(i) /\ areas[i].fs.free # {} => FreeAreExact(a, i)
          /\ {row.area : row \in {r \in written[a] : r.what = "volume space"}}
               = {i \in volumes : areas[i].kind = "unalloc" \/ ~has(i)}
          /\ Row(a, "image space", 0, 0) \in written[a]
               <=> volumes = {} /\ \A i \in 1 .. Len(areas) : ~has(i)

(* What setAddUnallocSpace promises (tsk_case_db.h:90): the virtual files of *)
(* a file system show its free blocks only.  It fails: of one without a free *)
(* block the walk shows none, and the range of the track as it was made,     *)
(* block 0, is added after it (auto_db.cpp:988).                             *)
OnlyFreeBlocks ==
  \A a \in Additions : \A row \in written[a] :
    row.what = "free blocks" => BlocksOf(row.ranges) \subseteq job[a].areas[row.area].fs.free

(* Once processing is to stop, at most the row that was about to be added,  *)
(* after the image's own, is still added (auto.cpp:306, 542, 584).          *)
StopHeeded == \A a \in Additions : late[a] <= 1
=============================================================================
