------------------------------- MODULE DirWalk -------------------------------
(***************************************************************************)
(* Walking the names of a file system and finding its orphans              *)
(* (src/tsk/fs/fs_dir.c).  tsk_fs_dir_walk descends into directories,      *)
(* remembering the path it is on so that loops end, and collects on the    *)
(* way the unallocated inodes that names point to.  Opening the virtual    *)
(* directory $OrphanFiles walks all unallocated inodes, takes those that   *)
(* no name points to, and walks the directories among them.  A walk that   *)
(* comes to $OrphanFiles therefore starts other walks, while other threads *)
(* do the same and share the list of named inodes and the orphan directory.*)
(*                                                                         *)
(* A thread's C stack is a sequence of activation records, the running one *)
(* last.  Every step makes at most one access under a lock; what is read   *)
(* and written between taking and releasing list_inum_named_lock is one    *)
(* step, and orphan_dir_lock, held through whole walks, is a variable.     *)
(***************************************************************************)
EXTENDS Naturals, Sequences, FiniteSets, SequencesExt, FiniteSetsExt

CONSTANTS Threads,       \* the threads that use the TSK_FS_INFO
          NULL,          \* no value, no thread, no directory
          FileSystems,   \* by name: inodes, names, the directories that cannot be read,
                         \* and those with paths longer than DIR_STRSZ
          Root,          \* TSK_FS_INFO.root_inum
          OrphanDir,     \* TSK_FS_ORPHANDIR_INUM, the last inode number
          WalkFlags,     \* the flags the callers of tsk_fs_dir_walk give
          Answers,       \* what the callers' callbacks may answer
          MaxDepth,      \* MAX_DEPTH
          MaxCalls       \* bound on the calls of a thread

Kinds == {"dir", "reg", "dot", "undef"}  \* of names; "dot" is "." or ".."

NameRec == [addr : Nat, alloc : BOOLEAN, kind : Kinds]

MetaRec == [alloc : BOOLEAN, dir : BOOLEAN]

Flags == [recurse : BOOLEAN, noorphan : BOOLEAN, shows : SUBSET BOOLEAN]

ASSUME DirAssumption ==
  /\ NULL \notin Threads
  /\ Root \in Nat /\ OrphanDir \in Nat /\ Root < OrphanDir
  /\ WalkFlags \subseteq Flags
  /\ MaxDepth \in Nat \ {0}
  /\ MaxCalls \in Nat
  /\ Answers \subseteq {"cont", "stop", "error"}

\* The inode of $OrphanFiles is not one of the file system's.
ASSUME VolumeAssumption ==
  \A f \in DOMAIN FileSystems :
    LET v == FileSystems[f]
    IN  /\ IsFiniteSet(DOMAIN v.meta) /\ DOMAIN v.meta \subseteq 0 .. OrphanDir - 1
        /\ v.meta \in [DOMAIN v.meta -> MetaRec]
        /\ Root \in DOMAIN v.meta /\ v.meta[Root] = [alloc |-> TRUE, dir |-> TRUE]
        /\ v.names \in [DOMAIN v.names -> Seq(NameRec)]
        /\ v.long \subseteq DOMAIN v.meta

VARIABLES fs,               \* the name of the file system that is open
          list_inum_named,  \* TSK_FS_INFO.list_inum_named; a NULL list is the empty set
          orphan_dir,       \* TSK_FS_INFO.orphan_dir
          orphan_dir_lock,  \* the thread in tsk_fs_dir_find_orphans, or NULL
          stack,            \* the activation records of every thread
          calls,            \* how many calls a thread has made
          result            \* what its last call returned

vars == <<fs, list_inum_named, orphan_dir, orphan_dir_lock, stack, calls, result>>

-----------------------------------------------------------------------------
(* What a file system holds.                                               *)

Inodes == FileSystems[fs].meta
Meta(a) == IF a = OrphanDir THEN [alloc |-> TRUE, dir |-> TRUE] ELSE Inodes[a]
HasMeta(a) == a = OrphanDir \/ a \in DOMAIN Inodes
Deleted(a) == HasMeta(a) /\ ~Meta(a).alloc

\* The name of $OrphanFiles, which opening the root directory appends.
OrphanName == [addr |-> OrphanDir, alloc |-> TRUE, kind |-> "dir"]

Readable(a) == a \in DOMAIN FileSystems[fs].names /\ a \notin FileSystems[fs].unreadable
Names(a) == FileSystems[fs].names[a] \o (IF a = Root THEN <<OrphanName>> ELSE <<>>)

\* The name an orphan gets in $OrphanFiles.
OrphanEntry(a) == [addr |-> a, alloc |-> FALSE, kind |-> "undef"]

\* Without ALLOC and UNALLOC a walk shows both.
Shows(flags) == IF flags.shows = {} THEN BOOLEAN ELSE flags.shows

\* A mutant: a name of unknown type, as orphans have it, is not entered.
DescendsTyped(flags, e) ==
  /\ e.kind = "dir"
  /\ HasMeta(e.addr) /\ Meta(e.addr).dir
  /\ flags.recurse
  /\ e.alloc \/ Deleted(e.addr)
  /\ e.addr = OrphanDir => ~flags.noorphan

\* Whether a walk with these flags goes into the directory a name points to.
Descends(flags, e) ==
  /\ e.kind \in {"dir", "undef"}
  /\ HasMeta(e.addr) /\ Meta(e.addr).dir
  /\ flags.recurse
  /\ e.alloc \/ Deleted(e.addr)
  /\ e.addr = OrphanDir => ~flags.noorphan

-----------------------------------------------------------------------------
(* Activation records.  "got" is what the call the record waits for has    *)
(* returned; "shown" and "asked" remember what the callback saw and        *)
(* answered.                                                               *)

Walk(cb, start, flags) ==
  [fn |-> "walk", pc |-> "begin", cb |-> cb, flags |-> flags, target |-> start,
   saving |-> FALSE, list |-> {}, seen |-> <<>>, path |-> <<>>, ret |-> NULL,
   got |-> NULL, shown |-> {}, asked |-> "cont"]

FindOrphans ==
  [fn |-> "find_orphans", pc |-> "lock", found |-> <<>>, subdirs |-> {},
   todo |-> {}, got |-> NULL]

NoResult == [fn |-> "none"]

Running(t, fn, pc) ==
  /\ stack[t] # <<>>
  /\ Last(stack[t]).fn = fn /\ Last(stack[t]).pc = pc

Me(t) == Last(stack[t])

Become(t, r) == stack' = [stack EXCEPT ![t] = Append(Front(@), r)]

Call(t, r, callee) == stack' = [stack EXCEPT ![t] = Front(@) \o <<r, callee>>]

\* Return a value to the record below, or out of the library.
Return(t, value) ==
  LET rest == Front(stack[t])
  IN  IF rest = <<>>
      THEN stack' = [stack EXCEPT ![t] = <<>>] /\ result' = [result EXCEPT ![t] = value]
      ELSE /\ stack' = [stack EXCEPT ![t] =
                          Append(Front(rest), [Last(rest) EXCEPT !.got = value])]
           /\ UNCHANGED result

-----------------------------------------------------------------------------
(* tsk_fs_dir_walk_lcl: one call per element of path.                      *)

Frame(names) == [names |-> names, i |-> 1, bak |-> FALSE]
Here(w) == LET f == Last(w.path) IN f.names[f.i]
AtLastName(w) == LET f == Last(w.path) IN f.i = Len(f.names)
Advance(w) == [w EXCEPT !.path[Len(w.path)].i = @ + 1]

\* A mutant: the error of a directory that cannot be read ends the whole walk.
LeaveAll(w, path, ret) ==
  IF path = <<>> \/ ret = "error"
  THEN [w EXCEPT !.pc = "end", !.path = <<>>, !.ret = "stop"]
  ELSE LET u == [w EXCEPT !.path = path]
       IN  Advance([u EXCEPT !.pc = "names", !.target = NULL, !.seen = Front(@)])

\* A call for a directory is over: back in the loop of the caller, whose path
\* was "path".  An error is only noted there, not handed on.
Leave(w, path, ret) ==
  IF path = <<>>
  THEN [w EXCEPT !.pc = "end", !.path = <<>>, !.ret = ret]
  ELSE LET u == [w EXCEPT !.path = path]
           back == [u EXCEPT !.pc = "names", !.target = NULL, !.seen = Front(@),
                             !.saving = IF Here(u).addr = OrphanDir
                                        THEN Last(path).bak ELSE @]
       IN  Advance(back)

\* No further directory fits on the path of a walk: it is too deep or too long.
NoRoom(w) == Len(w.path) - 1 >= MaxDepth \/ Here(w).addr \in FileSystems[fs].long

\* Enter the directory the current name points to, unless the walk is in it.
\* Where there is no room the call for the containing directory is given up,
\* and the entry that was pushed stays in the place of that directory's.
Descend(w) ==
  LET e == Here(w)
      pushed == [w EXCEPT !.seen = Append(@, e.addr)]
  IN  IF e.addr \in Range(w.seen) THEN Advance(w)
      ELSE IF NoRoom(w)
      THEN Leave(pushed, Front(w.path), "error")
      ELSE [pushed EXCEPT !.pc = "open", !.target = e.addr,
              !.path[Len(w.path)].bak = w.saving,
              !.saving = IF e.addr = OrphanDir THEN FALSE ELSE @]

\* The list of named inodes grows by the name's inode (if there is no memory for
\* it the code drops the list and goes on, which is left out) ...
Collect(w) ==
  IF w.saving /\ Deleted(Here(w).addr)
  THEN [w EXCEPT !.list = @ \cup {Here(w).addr}] ELSE w

\* ... and is handed over early, before the walk goes into $OrphanFiles.
SavesEarly(w) == w.saving /\ Here(w).addr = OrphanDir /\ AtLastName(w)

SavedNames(w) == IF list_inum_named = {} THEN w.list ELSE list_inum_named

\* What a name does to the walk and to the shared list after the callback said
\* to go on.
Processed(w) ==
  LET c == Collect(w)
      d == IF SavesEarly(c) THEN [c EXCEPT !.saving = FALSE, !.list = {}] ELSE c
  IN  IF Descends(w.flags, Here(w)) THEN Descend(d) ELSE Advance(d)

SharedAfter(w) ==
  LET c == Collect(w) IN IF SavesEarly(c) THEN SavedNames(c) ELSE list_inum_named

Stopped(w) ==
  [w EXCEPT !.pc = "end", !.ret = "stop", !.path = <<>>, !.list = {}, !.saving = FALSE]

\* The callback answered: go on, stop the whole walk, or give up the directory.
Answered(w, answer) ==
  CASE answer = "cont"  -> Processed(w)
    [] answer = "stop"  -> Stopped(w)
    [] answer = "error" -> Leave(w, Front(w.path), "error")

ShareIf(w, answer) ==
  list_inum_named' = IF answer = "cont" THEN SharedAfter(w) ELSE list_inum_named

-----------------------------------------------------------------------------
Init ==
  /\ fs \in DOMAIN FileSystems
  /\ list_inum_named = {}
  /\ orphan_dir = NULL
  /\ orphan_dir_lock = NULL
  /\ stack = [t \in Threads |-> <<>>]
  /\ calls = [t \in Threads |-> 0]
  /\ result = [t \in Threads |-> NoResult]

\* A thread walks the file system from its root ...
CallWalk(t) ==
  /\ stack[t] = <<>> /\ calls[t] < MaxCalls
  /\ \E flags \in WalkFlags :
       stack' = [stack EXCEPT ![t] = <<Walk("user", Root, flags)>>]
  /\ calls' = [calls EXCEPT ![t] = @ + 1]
  /\ result' = [result EXCEPT ![t] = NoResult]
  /\ UNCHANGED <<fs, list_inum_named, orphan_dir, orphan_dir_lock>>

\* ... or opens $OrphanFiles.
CallOpenOrphans(t) ==
  /\ stack[t] = <<>> /\ calls[t] < MaxCalls
  /\ stack' = [stack EXCEPT ![t] = <<FindOrphans>>]
  /\ calls' = [calls EXCEPT ![t] = @ + 1]
  /\ result' = [result EXCEPT ![t] = NoResult]
  /\ UNCHANGED <<fs, list_inum_named, orphan_dir, orphan_dir_lock>>

\* A mutant: any recursive walk collects, not only that of the root.
BeginWalkAnywhere(t) ==
  /\ Running(t, "walk", "begin")
  /\ LET w == Me(t)
     IN  Become(t, [w EXCEPT !.pc = "open",
           !.saving = list_inum_named = {} /\ w.flags.recurse])
  /\ UNCHANGED <<fs, list_inum_named, orphan_dir, orphan_dir_lock, calls, result>>

\* tsk_fs_dir_walk: whether this walk collects the named inodes.
BeginWalk(t) ==
  /\ Running(t, "walk", "begin")
  /\ LET w == Me(t)
     IN  Become(t, [w EXCEPT !.pc = "open",
           !.saving = list_inum_named = {} /\ w.target = Root /\ w.flags.recurse])
  /\ UNCHANGED <<fs, list_inum_named, orphan_dir, orphan_dir_lock, calls, result>>

\* tsk_fs_dir_open_meta for an ordinary directory.
OpenDir(t) ==
  /\ Running(t, "walk", "open") /\ Me(t).target # OrphanDir
  /\ LET w == Me(t)
     IN  Become(t, IF Readable(w.target)
                   THEN [w EXCEPT !.pc = "names", !.path = Append(@, Frame(Names(w.target)))]
                   ELSE Leave(w, w.path, "error"))
  /\ UNCHANGED <<fs, list_inum_named, orphan_dir, orphan_dir_lock, calls, result>>

\* tsk_fs_dir_open_meta for $OrphanFiles goes to tsk_fs_dir_find_orphans ...
OpenOrphanDir(t) ==
  /\ Running(t, "walk", "open") /\ Me(t).target = OrphanDir
  /\ Call(t, [Me(t) EXCEPT !.pc = "wait"], FindOrphans)
  /\ UNCHANGED <<fs, list_inum_named, orphan_dir, orphan_dir_lock, calls, result>>

\* ... and comes back with its names.
OrphanDirOpened(t) ==
  /\ Running(t, "walk", "wait")
  /\ LET w == [Me(t) EXCEPT !.got = NULL]
         got == Me(t).got
     IN  Become(t, IF got.err THEN Leave(w, w.path, "error")
                   ELSE [w EXCEPT !.pc = "names",
                           !.path = Append(@, Frame([i \in DOMAIN got.names |->
                                                       OrphanEntry(got.names[i])]))])
  /\ UNCHANGED <<fs, list_inum_named, orphan_dir, orphan_dir_lock, calls, result>>

\* The next name, in a walk of a caller's or the one that only collects: the
\* callback sees it if the flags ask for it.
WalkName(t) ==
  /\ Running(t, "walk", "names") /\ Me(t).cb # "orphan"
  /\ LET w == Me(t)
         f == Last(w.path)
         asks == w.cb = "user" /\ Here(w).alloc \in Shows(w.flags)
     IN  /\ f.i <= Len(f.names)
         /\ \E answer \in IF asks THEN Answers ELSE {"cont"} :
              LET told == IF ~asks THEN w
                          ELSE [w EXCEPT !.shown = @ \cup {Here(w).addr},
                                         !.asked = IF @ = "cont" THEN answer ELSE @]
              IN  Become(t, Answered(told, answer)) /\ ShareIf(told, answer)
  /\ UNCHANGED <<fs, orphan_dir, orphan_dir_lock, calls, result>>

\* load_orphan_dir_walk_cb, called for the names below an orphan directory, with
\* the FIND_ORPHAN_DATA of the record that called the walk.
OrphanAnswer(e, subdirs) ==
  IF e.kind # "dot" /\ HasMeta(e.addr) /\ (Meta(e.addr).alloc \/ e.addr \in subdirs)
  THEN "stop" ELSE "cont"

NewlySeen(e, subdirs) ==
  IF e.kind # "dot" /\ Deleted(e.addr) THEN subdirs \cup {e.addr} ELSE subdirs

WalkOrphanName(t) ==
  /\ Running(t, "walk", "names") /\ Me(t).cb = "orphan"
  /\ LET w == Me(t)
         f == Last(w.path)
         depth == Len(stack[t])
         finder == stack[t][depth - 1]
         asks == Here(w).alloc \in Shows(w.flags)
         answer == IF asks THEN OrphanAnswer(Here(w), finder.subdirs) ELSE "cont"
         below == [finder EXCEPT !.subdirs = IF asks THEN NewlySeen(Here(w), @) ELSE @]
     IN  /\ f.i <= Len(f.names)
         /\ stack' = [stack EXCEPT ![t] =
                        SubSeq(@, 1, depth - 2) \o <<below, Answered(w, answer)>>]
         /\ ShareIf(w, answer)
  /\ UNCHANGED <<fs, orphan_dir, orphan_dir_lock, calls, result>>

\* All names of a directory are done.
EndDir(t) ==
  /\ Running(t, "walk", "names")
  /\ LET w == Me(t)
         f == Last(w.path)
     IN  /\ f.i > Len(f.names)
         /\ Become(t, Leave(w, Front(w.path), "cont"))
  /\ UNCHANGED <<fs, list_inum_named, orphan_dir, orphan_dir_lock, calls, result>>

\* The end of tsk_fs_dir_walk: a list that is complete is shared.
EndWalk(t) ==
  /\ Running(t, "walk", "end")
  /\ LET w == Me(t)
     IN  /\ list_inum_named' = IF w.saving /\ w.ret = "cont"
                               THEN SavedNames(w) ELSE list_inum_named
         /\ Return(t, [fn |-> "walk", err |-> w.ret = "error", shown |-> w.shown,
                       asked |-> w.asked, flags |-> w.flags])
  /\ UNCHANGED <<fs, orphan_dir, orphan_dir_lock, calls>>

-----------------------------------------------------------------------------
(* tsk_fs_dir_find_orphans                                                 *)

Opened(names) == [fn |-> "open", err |-> FALSE, names |-> names]
NotOpened == [fn |-> "open", err |-> TRUE]

\* Taking the lock; a directory that was found before is copied.
LockOrphans(t) ==
  /\ Running(t, "find_orphans", "lock")
  /\ orphan_dir_lock = NULL
  /\ IF orphan_dir # NULL
     THEN Return(t, Opened(orphan_dir)) /\ UNCHANGED orphan_dir_lock
     ELSE /\ orphan_dir_lock' = t
          /\ Become(t, [Me(t) EXCEPT !.pc = "load"])
          /\ UNCHANGED result
  /\ UNCHANGED <<fs, list_inum_named, orphan_dir, calls>>

\* tsk_fs_dir_load_inum_named: walk the file system unless the list is there.
CollectAndHunt == [recurse |-> TRUE, noorphan |-> FALSE, shows |-> {FALSE}] \* a mutant
CollectOnly == [recurse |-> TRUE, noorphan |-> TRUE, shows |-> {FALSE}]

StartScan(r) ==
  [r EXCEPT !.pc = "scan", !.got = NULL,
            !.todo = {a \in DOMAIN Inodes : Deleted(a)}]

\* A mutant: nobody fills the list.
LoadNamedNot(t) ==
  /\ Running(t, "find_orphans", "load")
  /\ Become(t, StartScan(Me(t)))
  /\ UNCHANGED <<fs, list_inum_named, orphan_dir, orphan_dir_lock, calls, result>>

LoadNamed(t) ==
  /\ Running(t, "find_orphans", "load")
  /\ IF list_inum_named # {}
     THEN Become(t, StartScan(Me(t)))
     ELSE Call(t, [Me(t) EXCEPT !.pc = "loading"], Walk("named", Root, CollectOnly))
  /\ UNCHANGED <<fs, list_inum_named, orphan_dir, orphan_dir_lock, calls, result>>

GiveUpOrphans(t) == orphan_dir_lock' = NULL /\ Return(t, NotOpened)

NamedLoaded(t) ==
  /\ Running(t, "find_orphans", "loading")
  /\ IF Me(t).got.err
     THEN GiveUpOrphans(t)
     ELSE Become(t, StartScan(Me(t))) /\ UNCHANGED <<orphan_dir_lock, result>>
  /\ UNCHANGED <<fs, list_inum_named, orphan_dir, calls>>

\* find_orphan_meta_walk_cb for the next unallocated inode: a new orphan unless a
\* name or an orphan directory leads to it; the names in a directory are walked.
ScanInode(t) ==
  /\ Running(t, "find_orphans", "scan") /\ Me(t).todo # {}
  /\ LET a == Min(Me(t).todo)
         r == [Me(t) EXCEPT !.todo = @ \ {a}]
         added == [r EXCEPT !.found = Append(@, a)]
     IN  IF a \in list_inum_named \/ a \in r.subdirs
         THEN Become(t, r)
         ELSE IF Meta(a).dir
         THEN Call(t, [added EXCEPT !.pc = "entering"], Walk("orphan", a, CollectOnly))
         ELSE Become(t, added)
  /\ UNCHANGED <<fs, list_inum_named, orphan_dir, orphan_dir_lock, calls, result>>

OrphanEntered(t) ==
  /\ Running(t, "find_orphans", "entering")
  /\ IF Me(t).got.err
     THEN GiveUpOrphans(t)
     ELSE /\ Become(t, [Me(t) EXCEPT !.pc = "scan", !.got = NULL])
          /\ UNCHANGED <<orphan_dir_lock, result>>
  /\ UNCHANGED <<fs, list_inum_named, orphan_dir, calls>>

\* A mutant: the last entry is dropped instead of being moved.
DedupDropping(found, subdirs) ==
  LET upTo[i \in 0 .. Len(found)] ==
        IF i = 0 THEN found
        ELSE LET s == upTo[i - 1]
             IN  IF i <= Len(s) /\ s[i] \in subdirs THEN Front(s) ELSE s
  IN  upTo[Len(found)]

\* The entries an orphan directory leads to are taken out: the last entry moves
\* into the place of each, and the loop goes on behind that place.
Without(s, i) == Front([s EXCEPT ![i] = Last(s)])

Dedup(found, subdirs) ==
  LET upTo[i \in 0 .. Len(found)] ==
        IF i = 0 THEN found
        ELSE LET s == upTo[i - 1]
             IN  IF i <= Len(s) /\ s[i] \in subdirs THEN Without(s, i) ELSE s
  IN  upTo[Len(found)]

FinishOrphans(t) ==
  /\ Running(t, "find_orphans", "scan") /\ Me(t).todo = {}
  /\ orphan_dir' = Dedup(Me(t).found, Me(t).subdirs)
  /\ orphan_dir_lock' = NULL
  /\ Return(t, Opened(orphan_dir'))
  /\ UNCHANGED <<fs, list_inum_named, calls>>

-----------------------------------------------------------------------------
Step(t) ==
  \/ BeginWalk(t) \/ OpenDir(t) \/ OpenOrphanDir(t) \/ OrphanDirOpened(t)
  \/ WalkName(t) \/ WalkOrphanName(t) \/ EndDir(t) \/ EndWalk(t)
  \/ LockOrphans(t) \/ LoadNamed(t) \/ NamedLoaded(t)
  \/ ScanInode(t) \/ OrphanEntered(t) \/ FinishOrphans(t)

Next == \E t \in Threads : CallWalk(t) \/ CallOpenOrphans(t) \/ Step(t)

Spec == Init /\ [][Next]_vars

\* A thread inside the library goes on; a mutex it waits for is granted.  The
\* formula is WF_vars(Step(t)) with the condition for a step written out.
CanStep(t) ==
  /\ stack[t] # <<>>
  /\ Running(t, "find_orphans", "lock") => orphan_dir_lock = NULL

FairSpec ==
  Spec /\ \A t \in Threads : []<>(~CanStep(t)) \/ []<><<Step(t)>>_vars
-----------------------------------------------------------------------------
(* What the names of a file system lead to, whatever walks do.             *)

NamesIn(v, a) == IF a \in DOMAIN v.names \ v.unreadable THEN Range(v.names[a]) ELSE {}

Enters(v, e) ==
  /\ e.kind \in {"dir", "undef"} /\ e.addr \in DOMAIN v.meta
  /\ v.meta[e.addr].dir /\ (e.alloc \/ ~v.meta[e.addr].alloc)

\* Directory a and all directories below it.
DirsBelow(v, a) ==
  LET Grow(dirs) ==
        dirs \cup {e.addr : e \in {n \in UNION {NamesIn(v, d) : d \in dirs} : Enters(v, n)}}
      size == Cardinality(DOMAIN v.meta)
      within[n \in 0 .. size] ==
        IF n = 0 THEN {a} ELSE LET before == within[n - 1] IN Grow(before)
  IN  within[size]

\* The names in directory a and in all directories below it.
NamesBelow ==
  [f \in DOMAIN FileSystems |->
    LET v == FileSystems[f]
    IN  [a \in DOMAIN v.meta |-> UNION {NamesIn(v, d) : d \in DirsBelow(v, a)}]]

InodesBelow(a) == {e.addr : e \in {n \in NamesBelow[fs][a] : n.kind # "dot"}}

DeletedInodes == {a \in DOMAIN Inodes : Deleted(a)}
Named == {e.addr : e \in NamesBelow[fs][Root]}
Orphans == DeletedInodes \ Named

\* No orphan directory leads back to itself.
OrphansAcyclic == \A a \in Orphans : a \notin InodesBelow(a)

-----------------------------------------------------------------------------
(* File systems whose walks come to every directory.                       *)

\* No name but its own leads to $OrphanFiles, and none below the root back into it.
NoWayBack(v) ==
  \A a \in DOMAIN v.names : \A e \in NamesIn(v, a) :
    e.addr # OrphanDir /\ (Enters(v, e) => e.addr # Root)

\* Whether a walk that is in directory a may go into b.
Leads(v, a, b) ==
  IF a = OrphanDir THEN b \in DOMAIN v.meta /\ ~v.meta[b].alloc
  ELSE \E e \in NamesIn(v, a) : Enters(v, e) /\ e.addr = b

Dirs(v) == {a \in DOMAIN v.meta \ {Root} : v.meta[a].dir} \cup {OrphanDir}

\* A path that does not meet itself ends before the limits of a walk.
NotTooDeep(v) ==
  /\ v.long = {}
  /\ \A p \in [1 .. MaxDepth + 1 -> Dirs(v)] :
       (\A i, j \in 1 .. MaxDepth + 1 : p[i] = p[j] => i = j)
         => \E i \in 1 .. MaxDepth : ~Leads(v, p[i], p[i + 1])

Walkable(v) == NoWayBack(v) /\ NotTooDeep(v)

\* Names that lead to deleted directories say that they do, or say nothing.
KindsAgree(v) ==
  \A a \in DOMAIN v.names : \A e \in NamesIn(v, a) :
    e.kind # "dot" /\ e.addr \in DOMAIN v.meta /\ v.meta[e.addr] = [alloc |-> FALSE, dir |-> TRUE]
      => Enters(v, e)

\* Every directory can be opened.
AllOpen(v) == \A a \in DOMAIN v.meta : v.meta[a].dir => a \in DOMAIN v.names \ v.unreadable

-----------------------------------------------------------------------------
(* Properties.                                                             *)

\* The shared list is never a part of what it should be (fs_dir.c:820-833): whoever
\* publishes it, and however the walks of several threads overlap, are stopped, go
\* round below the root or meet unreadable directories, it has exactly the unallocated
\* inodes that the names below the root point to.  There are three ways out: a
\* callback that answers with an error below the root (715), a name that leads back
\* to the root itself (638), and a path at the limit of its depth or length (682).
SharedListComplete ==
  list_inum_named # {} => list_inum_named = Named \cap DeletedInodes

\* What $OrphanFiles shows is deleted and unnamed (fs_dir.c:1053-1067): no file
\* that a name leads to is taken for an orphan, whichever thread's list decided, as
\* long as the lists are whole (SharedListComplete).
OrphansUnnamed ==
  orphan_dir # NULL => Range(orphan_dir) \subseteq Orphans

\* De-duplication and the early ends of the walks of orphan directories
\* (fs_dir.c:1004-1027, 1226-1240) lose nothing: an orphan that is not in
\* $OrphanFiles is below a directory that is.  The names have to agree with the
\* inodes: one that calls a directory a file takes it out of $OrphanFiles, and
\* no walk enters the directory from there.
NoOrphanLost ==
  orphan_dir # NULL /\ OrphansAcyclic /\ KindsAgree(FileSystems[fs]) =>
    Orphans \subseteq Range(orphan_dir) \cup UNION {InodesBelow(a) : a \in Range(orphan_dir)}

\* A walk of everything that was not stopped has shown every deleted inode, by
\* its name or as an orphan, if all directories can be opened, names agree with
\* inodes and no orphan directory leads back to itself: nothing stays hidden.
EveryDeletedFileShown ==
  \A t \in Threads :
    (/\ result[t].fn = "walk" /\ ~result[t].err /\ result[t].asked = "cont"
     /\ result[t].flags = [recurse |-> TRUE, noorphan |-> FALSE, shows |-> BOOLEAN]
     /\ AllOpen(FileSystems[fs]) /\ OrphansAcyclic /\ KindsAgree(FileSystems[fs])) =>
    DeletedInodes \subseteq result[t].shown

\* A walk that was not stopped has shown all names below the root that its
\* flags ask for, also behind loops and unreadable directories, as long as no path
\* comes to the limit of depth or length: fs_dir.c:680 says that the walk does not
\* recurse "any further into this directory", and no other is to suffer.
EveryNameShown ==
  \A t \in Threads :
    result[t].fn = "walk" /\ ~result[t].err /\ result[t].asked = "cont" /\ result[t].flags.recurse =>
      {e.addr : e \in {n \in NamesBelow[fs][Root] : n.alloc \in Shows(result[t].flags)}}
        \subseteq result[t].shown

\* tsk_base.h:291: a walk whose callback answered TSK_WALK_ERROR stops and
\* returns an error.
WalkErrorReported ==
  \A t \in Threads :
    result[t].fn = "walk" /\ result[t].asked = "error" => result[t].err

\* Every call returns: loops of directories end, and no thread waits for
\* orphan_dir_lock forever - locks are not recursive, so a walk on behalf of
\* the search must not come to $OrphanFiles again (fs_dir.c:968, 1111).
EveryCallReturns == \A t \in Threads : stack[t] # <<>> ~> stack[t] = <<>>
=============================================================================
