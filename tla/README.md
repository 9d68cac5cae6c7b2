# The Sleuth Kit in TLA+

The Sleuth Kit (TSK) is a C and C++ library, with command line tools, that reads disk
images, volume systems and file systems, including what was deleted from them. This
directory holds TLA+ models of the parts of the library that keep state, configurations
that check them with TLC, and proofs that TLAPS checks.

Lines are given as `file:line`; `img_io.c` stands for `src/tsk/img/img_io.c`, and so on.

## 1. The system

An application (or a tool, or the case database of `tsk/auto`) opens an image, a volume
system in it, a file system in one of its volumes, and walks names, inodes or blocks. It is
called back for each of them and may open and read files from the callback. All reads end in
`tsk_img_read`. Handles may be shared by threads; each has a few mutexes.

    tool / auto_db --> fs (walks, files, attributes) --> tsk_fs_read --+
                   --> vs (partitions) ------> tsk_vs_read ------------+--> tsk_img_read --> raw, EWF, ...
                   --> hashdb (lookups)

| Component (directory) | State | Operations | What is hard |
|---|---|---|---|
| image reading (`img/img_io.c`) | `TSK_IMG_INFO`: 4 cache entries of 64K with offset, length and age; `cache_lock` | `tsk_img_read` | threads; failure in the middle of a fill; rounding to sectors; ages |
| raw and split images (`img/raw.c`) | table of segments, cache of 15 descriptors and where each stands | `raw_open`, `raw_read` | eviction, descriptors that fail to open, reads over segment ends |
| other formats (`img/ewf.c`, `aff.c`, ...) | a handle of an external library and its lock | open, read, close | – |
| image writer (`img/img_writer.cpp`) | VHD block table, bitmaps, next free block | `add`, `finish_image`, `close` | one of several writes fails |
| volume systems (`vs/*.c`) | sorted list of partitions with addresses | add, fill gaps, get, walk, free | the list changes under the recursion that walks it; tables that are cut off |
| directories (`fs/fs_dir.c`) | list of named inodes, orphan directory, two locks; a walk's stack of directories | open, walk, find orphans | loops, recursion through locks, callbacks that stop, threads |
| run lists (`fs/fs_attr.c`) | list of runs with fillers for those not met yet, end pointer | set, add, append, clear | order of arrival, repetition, 64-bit wrap |
| content (`fs/fs_attr.c`, `fs_io.c`) | none beyond the call | read, walk | sparse, partly initialised and skipped parts, short reads |
| attribute lists (`fs/fs_attrlist.c`) | list of attributes, some marked unused | add, get, mark unused | reuse of cleared attributes |
| extent trees (`fs/ext2fs.c`) | the attributes of a file, `attr_state` | load | a failure half way, loading again |
| sets of numbers (`base/tsk_list.c`) | descending buckets of consecutive keys | add, find, free | growth of a bucket in both directions, wrap-around |
| paths, files, blocks (`fs/fs_file.c`, `fs_name.c`, `fs_inode.c`) | reference counts by tag, open file | open, reset, `tsk_fs_path2inum` | – |
| file systems (`fs/ntfs.c`, `fatfs*.c`, `hfs.c`, ...) | per file system caches with locks | open, inode and block walks | FAT cache and NTFS orphan map are shared by threads |
| hash databases (`hashdb/`) | index file, line buffer, offset table, lock | open, make index, lookup | two files that are made one after the other; a shared file position; bisection at the ends; double release of the lock on failure |
| automation (`auto/`) | database transaction and savepoint, current file, unallocated ranges, list of errors | add image, stop, revert, commit | stop from another thread; failure or crash inside a savepoint; ranges cut by a callback |
| errors, locks, text (`base/`) | an error record per thread | – | – |
| tools, framework, Java bindings | – | – | – |

`PROJECT.json` lists each with the files it consists of and its status.

### What makes each part correct

- **Image reading.** A read hands over the bytes of the image at the offset asked for,
  whatever was cached, evicted or failed before and whatever other threads do; it is short
  only for a reason; a failed read leaves nothing behind; the lock is always released; the
  entry that is replaced is the one not used for longest.
- **Raw images.** The same bytes come back whichever descriptors were open; none is lost.
- **Volume systems.** The partitions shown are those of the tables; addresses are places in
  the list; every sector belongs to something shown; what is shown as unallocated is not in
  use; what cannot be loaded does not take away what was.
- **Directories.** A walk shows everything and ends; the shared list of named inodes is never
  a part of what it should be; orphans are exactly what no name leads to.
- **Run lists.** Whatever the order of arrival, the list has no gaps and says of each block
  what was added; a run is refused only if it is known.
- **Content.** What is read or walked is the documented content, and all of it.
- **Extent trees.** The loaded runs are the extents; what can be read is loaded.
- **Sets of numbers.** `tsk_list_find` answers exactly for what was added.
- **Hash databases.** A lookup says truly whether a hash is there and shows each of its rows
  once; the table of the index belongs to the index, also when making one was interrupted.
- **Automation.** An image is in the case whole or not at all; who is told that nothing went wrong
  has everything; each unallocated block is in one range; a stop is heeded.

## 2. The models

| Module | Models | State | Actions |
|---|---|---|---|
| `ImgCache` | `tsk_img_read` (img_io.c:24-237) for a set of threads | the cache arrays, the lock's owner, and per thread its arguments, local variables, position and result | `RejectArgs`, `Call`, `TakeLock`, the three ways of a large read, `PastEnd`, `LookupHit`, `LookupMiss`, `LoadOk`, `LoadFailed`, `Unlock` |
| `ImgContract` | what `tsk_img_read` expects of the `read` function of an image format | – | – |
| `LruCache` | abstract: a least-recently-used cache | entries in the order of use | `Touch`, `Evict`, `Insert` |
| `ImgCacheLru` | the list of entries that the ages of `ImgCache` stand for, as a refinement of `LruCache` | `Recency` | – |
| `ImgCacheProofs` | theorems about `ImgCache` and `ImgCacheLru` | | |
| `RawSegments` | `raw_read`, `raw_read_segment`, the segment table of `raw_open` (raw.c, POSIX) | `cptr`, `cache`, `next_slot`, the kernel's descriptors, the read under way | `Begin`, `OpenSegment`, `Seek`, `Read`, `ReadFailed` |
| `RawSegmentsProofs` | theorems about `RawSegments` | | |
| `TskList` | tsk_list.c | the buckets, and the keys added | `Add`, `Free` |
| `TskListProofs` | theorems about `TskList` | | |
| `AttrRuns` | the functions of fs_attr.c that put runs into an attribute, as operators from a list to the list and the answer | – | – |
| `FsAttrRuns` | an attribute whose runs arrive in some order | the attribute, the runs added so far | `Set`, `Add`, `Append_run`, `Clear` |
| `AttrRead` | `tsk_fs_attr_read`, `tsk_fs_attr_walk_nonres` | attribute, arguments and loop variables, buffer | one per branch of the two loops |
| `AttrFile` | `FsAttrRuns` composed with `AttrRead`: runs are added, then the file is read or walked through the list they made | those of both | `Fill`, `Open`, `Read` |
| `Ext4Extents` | `ext4_load_attrs_extents` over `AttrRuns` | the tree, the two attributes, where the load is | `Load`, `MakeRunExtent`, `MakeRunIndex`, `Studied` |
| `AttrFileProofs` | theorems about `AttrFile` and what it is made of, and about `Ext4Extents` | | |
| `VsList` | `tsk_vs_part_add` (mm_part.c) as an operator | – | – |
| `VsPart` | the list of a volume system: filling of gaps, closing, lookup by address | list, walk over it | `FillBefore`, `FillTail`, `Close`, ... |
| `DosTable` | dos.c composed with `VsPart` | `VsPart`'s, and the stack of tables being loaded | `ReadTable`, `SkipUnused`, `AddPartition`, `AddExtended`, `Return`, `GiveUp`, then `VsPart`'s |
| `DosTableProofs` | theorems about `VsPart` and `DosTable` | | |
| `DirWalk` | fs_dir.c: `tsk_fs_dir_walk`, `tsk_fs_dir_find_orphans` with their callbacks, for a set of threads | shared list and orphan directory, `orphan_dir_lock`, each thread's activation records | one per place at which a thread can be interrupted |
| `DirWalkProofs` | theorems about `DirWalk` | | |
| `HashIndex` | binsrch_index.cpp with the rows of md5sum.c: one handle, shared by threads | the database, index and table on disk; the handle; per thread its bounds, line and answer; where making the index is | `Lookup`, then one per access to the handle or the buffer; `MakeIndex`, `Sort`, `MakeTable` and their failures; `Crash` |
| `HashIndexProofs` | theorems about `HashIndex` | | |
| `Savepoint` | db_sqlite.cpp: `createSavepoint`, `revertSavepoint`, `releaseSavepoint` as operators on a case | – | – |
| `AutoDb` | auto_db.cpp with the walks of auto.cpp: images that are added to a case one after the other | the case; per addition the flags of its `TskAutoDb`, where it is, the rows it has written | one per call that inserts, looks at the stop flag or can fail; `StopAddImage`, `RevertAddImage`, `CommitAddImage`, `Crash` |
| `AutoDbProofs` | theorems about `AutoDb` | | |
| `MC...` | instances of the above for TLC | | |

How the models read the code:

- **Steps.** In the threaded models a step is what a thread does between two accesses to
  shared state that others may come between. What runs under one mutex without calling back
  is one step (`list_inum_named_lock`); a mutex that is held over many steps is a variable
  with the owner (`cache_lock`, `orphan_dir_lock`). The sequential models have one action per
  iteration or branch of the loop.
- **Recursion.** The C stack is a sequence of records in `DosTable` and `DirWalk`; a call
  appends one, a return gives its value to the record below. A walk inside `tsk_fs_dir_walk_lcl`
  keeps its own recursion as a path, since all its levels share one `DENT_DINFO`.
- **Data.** A byte is the address it comes from, in images as in attributes, so that a wrong
  byte is one from a wrong place. A partition table is a sequence of start, size and kind. A
  directory is a sequence of names with address, allocation and type.
- **Failures.** A call into a lower layer is a choice between its success and each way in which
  the code can see it fail: a short or failed read, a file that cannot be opened or
  positioned, a table that cannot be read, memory that is short where the code checks for it.
- **Integers.** Keys and block addresses wrap around at `Width`, in `TskList` and `AttrRuns`.
- **External code.** `ImgContract` stands for the image formats, `ReadBytes` for `read(2)`.
  `ImgContract` is also checked: `RawSegments` keeps it (`KeepsContract`).
- **Ghost state.** `added` in `TskList`, `blocks` and `misplaced` in `FsAttrRuns`, `given_up` in `DosTable`, `why` in `Ext4Extents`, `shown`
  and `asked` in `DirWalk`, `made` in `HashIndex`, and `written`, `late`, `exposed` and `faults` in `AutoDb`
  record what was done and seen; no guard reads them, except that `faults` bounds the failures.
- A definition marked as a mutant is a plausible bug. `PROJECT.json` says which property it breaks
  when it takes the place of the definition below it; nothing else uses it.

## 3. What the runs check

| Run | Question | Instance |
|---|---|---|
| `img_threads` | Do two threads get the right bytes, all of them, is a failure forgotten, is the replacement LRU, and does every read return? | 2 threads, 4 reads in all, of an image of 3 bytes at offsets -1, 1, 2 and 3, 1 to 3 bytes long; 2 entries of 2 bytes, sectors of 2 (0.5 million states) |
| `raw_reads` | Does the descriptor cache keep the contract, and when does a read run past the tables? | segments of 2, 0, 3 and 1 bytes, 2 entries, 3 descriptors, 3 reads, also beyond the end of the image (0.3 million states) |
| `list_sets` | Is `TSK_LIST` a set? | 8 keys, every order of additions |
| `attr_files` | Is a file what its runs say, from the first run that is added to the last byte that is read? | 4 parts of a file of 8 blocks of 2 bytes, two of them of two runs, with a hole; 6 first lists, 4 additions or appendings; reads of up to 5 bytes from every byte on, and walks, with `size`, `initsize` and `skiplen` at and off the boundaries (3.4 million states) |
| `ext4_loads` | Is an extent tree loaded as it is, also after a failed load? | all subsets of 5 extents, in the inode or in one block |
| `vs_dos_opens` | Are the partitions, their addresses and the gaps right? | 46 disks of 13 sectors |
| `dir_walks` | Do walks and the search for orphans agree and end, in threads? | 2 threads, 2 calls each, 6 file systems |
| `hash_lookups` | Are lookups right while threads share one handle, and after an index was made anew, in part, or not at all? | 2 threads, 2 lookups, 1 new index, 1 crash; 5 databases of up to 6 rows, 4 hashes of 3 prefixes and one prefix without a hash; callbacks that always go on, and one that stops or fails at any row (0.4 million states) |
| `add_image` | Is an image added whole or not at all, and completely if nobody was told otherwise? | 2 additions, 6 kinds of image, 1 failure, 1 crash, stops at any time (1.3 million states) |

These runs show where the code does not do what its comments say:

| Run | Finding |
|---|---|
| `read_from_sparse` | `byteoffset_toread` is reset after a data run only (fs_attr.c:1262). A read that starts inside a block of a sparse or filler run skips the same number of bytes in the next run and returns the wrong ones. |
| `ext4_two_blocks` | The run made for an index block has no offset (ext2fs.c:1448-1454). The run of a second index block is refused, and a file with two index blocks in its inode is never loaded. |
| `dir_walk_error` | When a callback answers `TSK_WALK_ERROR` in a subdirectory, the caller takes it for a directory that could not be read, resets the error, goes on and returns success (fs_dir.c:715), against tsk_base.h:291. |

Where a passing property has a condition, or an instance leaves something out, because the code goes wrong there, a configuration
without the condition is kept beside the runs. It is not listed in `PROJECT.json`; TLC finds the named property violated
(`tlc -config AttrFile_misplaced.cfg MCAttrFile.tla`, and so on). What each shows is a disagreement as above.

| Configuration | Violates | Where the code goes wrong |
|---|---|---|
| `RawSegments_past_end` | `StaysInside` | `raw_read` does not look for the last segment (raw.c:267). A read that starts in the image and is longer than the rest of it goes on to entries of `max_off` and `cptr` that do not exist, where raw.c:200 promises a number of bytes or -1. `tsk_img_read` cuts small reads only (img_io.c:75). |
| `AttrFile_misplaced` | `RunsSequential` | What is left of a filler behind several new runs is put behind the first of them (fs_attr.c:615), so that the list is not in order (tsk_fs.h:160). NTFS and HFS+ add such lists, in the order in which they meet them. |
| `AttrRead_inside_init` | `ReadReturnsContent` | A read from the middle of a block of data that crosses `initsize` wipes from the wrong byte on (fs_attr.c:1281), since the offset in the block has been reset by then. |
| `AttrRead_short_walk` | `WalkShowsContent` | The walk compares offsets without `skiplen` with `initsize` (fs_attr.c:947): content that ends in the first block behind a `skiplen` (a small file of ISO 9660 with extended attributes) is partly shown as zeros. |
| `DirWalk_partial_list` | `SharedListComplete` | The walk of `dir_walk_error` then shares a list without the rest of that directory, as if it were whole (fs_dir.c:824). |
| `DirWalk_back_to_root` | `SharedListComplete` | A name inside a subdirectory that leads back to the root is walked once more, as the start of a walk is not on its stack; the inner walk shares a list (fs_dir.c:638) that the outer one has not completed. |
| `DirWalk_long_path` | `EveryNameShown` | At the limit of depth or length the call for the containing directory is given up (fs_dir.c:691), and with it the names behind, where the comment at 680 speaks of the one directory that is too deep. |
| `HashIndex_stop` | `StopIsHeeded` | A callback that answers `TSK_WALK_STOP` ends the rows of one line of the index (md5sum.c:380); the lookup goes on and calls it again for the next line, against tsk_base.h:290. |
| `AutoDb_second_start` | `OnlyCallerCommits` | A start finds out whether there is a savepoint by releasing it (auto_db.cpp:439), which commits what another addition has added so far, although only its caller is to commit (422). |
| `AutoDb_full_fs` | `OnlyFreeBlocks` | The last range of a file system's free blocks is added even if there were none, as block 0 (auto_db.cpp:988). |

Reads also ignore `skiplen` (fs_attr.c:1169), which walks do not: they return the bytes that are to be skipped (tsk_fs.h:291). `Straight` leaves out such attributes.

### Why the bounds are enough

- `img_threads`: with two entries a miss has a victim and a survivor. An entry of one sector makes the
  rounding of an odd offset matter (what is asked for is behind the start of the entry), 3 bytes are one too many
  for an entry, and an image of 3 bytes ends in the middle of a sector. Four reads are: fill, fill, meet the older one
  again, evict the other; divided between two threads they also
  wait for each other. Every answer of the format is tried: failure, nothing, a part, all. Reads of no bytes are left out:
  one that is met by the cache makes all entries equally old (img_io.c:150), after which the oldest is not known.
- `raw_reads`: with fewer entries than segments a read over all of them evicts the one it
  opened first. An empty segment is skipped. Requests start inside the image, at its end and behind it, and
  end inside, at the end or beyond it, since `tsk_img_read` hands large ones on as they are (img_io.c:75-103). One that runs past
  the tables is the last: what C does there is undefined.
- `list_sets`: 8 keys allow four buckets with gaps between them, and wrapping at both ends.
- `attr_files`: the runs are cut at the head, the middle and the tail; two parts have two runs, one in the middle
  of the file and one at its end, and a run is a hole; four calls bring all parts, or three and one again. 64-bit addresses are modelled with
  width 64. A read starts at every byte. The properties say themselves when the code is right: `misplaced`, `Straight` and `Skipped`
  name the places at which it is not, which the tables above show.
- `vs_dos_opens`: the primary tables hold volumes that are apart, adjacent, nested, overlapping
  and outside, in every order; chains of extended tables are whole, cut off, or point outside.
  No two tables of a chain point to each other: the code would recurse for ever (section 6).
- `dir_walks`: one file system each for directories that contain each other, for a list that
  stays empty, for a directory, an orphan directory and a root that cannot be read, and for orphan
  directories in cycles. Two calls make the second find what the first has left. `MaxDepth` is above
  the depth of these trees; at the limit the code gives up more than it says (section 6).
  No name in a subdirectory points back to the root, no path is too long, and callbacks answer "continue" or "stop": the
  run `dir_walk_error` and the other configurations of `MCDirWalk` have these.
- `hash_lookups`: the databases have nothing to index, one hash in two rows together, or in three lines with others between, rows
  that cannot be parsed alone and in the middle. Two
  hashes share a prefix. One new index suffices for an old table to meet a new index, before or after
  a crash; the first call may be for SHA1, whose index an md5sum database does not have. The callback that does not always go on is
  that of a hash with several lines, some of them of two rows.
- `add_image`: an image with a table has a volume of each kind; free blocks are single, adjacent and apart,
  and the chunk size is 0 (one range per row), unlimited, or reached in the middle of the
  blocks. Two additions are needed for one to meet the savepoint of another; one failure and one crash
  combine with a stop at every place.

### Fairness

Three runs check that calls return. All assume that a thread that is inside the library goes on,
and that a mutex that is free again and again is granted (weak fairness of each thread's step). The
code has no timeouts and waits for nothing but mutexes and reads, and a mutex of the system
(tsk_lock.c: pthread mutex or critical section) is not withheld while it is free. Nothing is
assumed of the callers: a thread may never call, `make_index` may never be finished, and nobody need stop an addition.
`EveryCallReturns` of `DirWalk` and `LookupReturns` of `HashIndex` need no
strong fairness, since within the bound on calls a thread does not take the lock again for ever.
`DirWalk!FairSpec` writes the weak fairness with `CanStep` in the place of `ENABLED <<Step(t)>>_vars`,
which TLC evaluates much faster; that the two agree was checked on three of the file systems.

## 4. What is proved

TLAPS checks the theorems for every value of the constants that satisfies the named
assumptions, which are those of the modules. Where a theorem needs more than every instance has, it
has a hypothesis with a name: `NoEmptyReads` of the image cache, `AllTreesOk` of extent trees, `AllJobsGood` of the additions, `AllWalkable` and `GoesOn` of the
walks, each explained where it is used and met by an instance that TLC runs. Where the code itself breaks such a condition, or one that a property states
(`misplaced`, `Straight`, `Skipped`, a callback that does not go on), a configuration of section 3 shows what happens without it.

**The image cache** (`ImgCacheProofs`, from `SizeAssumption` and `ThreadsAssumption`: the
cache is not empty, an entry has room for what is cached, sectors are not empty, the mark of a free lock
is no thread). The argument is one inductive invariant,

    IInv == TypeOK /\ LockOwned /\ LoadingForRequest /\ CacheCoherent /\ AnswersRight

`CacheCoherent` (an entry that nobody fills holds the image's bytes from its offset on) is not
inductive: a miss moves the entry's offset to the new request before the bytes are read.
`LoadingForRequest` says that the thread that fills it has moved it to its own request, so
that what the format delivers next makes the entry right again; `LockOwned` says that this is the only
thread there, so that nobody meets the entry in between; `AnswersRight` carries what was
copied to the end of the call. There is one lemma per action, and one for the part of the invariant that
each of them disturbs.

| Theorem | States |
|---|---|
| `Invariance` | `Spec => []IInv` |
| `TypeCorrect` | `TypeOK` |
| `Coherence` | `CacheCoherent` |
| `ReadsAreCorrect` | `ReadCorrect`: what a read hands over are the image's bytes at the offsets asked for |

They hold for every number of threads, every size of the image and the cache, and any failures of
the format. The run `img_threads` checks the same formulas on an instance.

Its second part goes on from `IInv` with `OutcomeInv`, which follows a call along its way: until the format has
been asked nothing is recorded as asked; a small read that reaches it is small (`pc = "load" => ~TooLarge`); and what
is answered is everything if what the format was asked for came back whole. The step that needs an argument is the fill:
an entry has room for the request and for the rounding of its offset (`EntryHasRoom`), and two threads do not fill at once,
so that an entry found unused after a failure is still unused when its thread unlocks (`OwnerAlone`).

| Theorem | States |
|---|---|
| `Outcomes` | `Spec => [](IInv /\ OutcomeInv)` |
| `ReadsAreFull` | `FullUnlessShort`: a read inside the image is short only where the image ends or the format was |
| `FailuresAreForgotten` | `FailureForgotten`: a failed fill is a failed read, and leaves an unused entry |

Its third part is the refinement `Spec => ReplacesLeastRecentlyUsed`. `Recency` lists the entries that can answer (`Live`), the
youngest first. The lemmas about lists come first: `IsYounger` orders the slots totally, so that the slots younger than one of `n`
slots are between 0 and `n - 1` in number and no two slots have the same rank (`RankIs`), every rank is that of a slot
(`OrderIs`), and a list in the order of the ages is the only one (`OnlyOrder`). So a step can be shown to do what `LruCache` says
by giving the list after it (`SameList`, `TouchedList`, `DroppedList`, `InsertedList`). What must be known of the ages is
`AgesOK`: no age is above that of a fresh entry, and while an entry is filled, all others have aged since; without the second part an entry
that has just come in might not be the youngest. Each step that touches the cache is then one of `LruCache` or a stutter: a hit
is `Touch` (`HitTouches`), a miss is `Evict` if all entries are in use (`MissEvicts`), a fill is `Insert` (`LoadInserts`), and a fill that fails
changes nothing, since the entry was out of the list from the miss on (`FailureKeepsList`). That the list is one of uses is the other half of the
property, since a cache that drops its entries in the order in which they came would do for `LruCache` too: whenever a read is answered
from the cache, the first entry of the list is then one with the answer (`AnswerIsYoungest`; `OnlyCacheAnswers` says which steps
these are). The hypothesis `NoEmptyReads` is that no
caller asks for 0 bytes: such a read touches several entries at once (section 3, `img_threads`).

| Theorem | States |
|---|---|
| `ReplacementIsLru` | `NoEmptyReads` implies `Spec => ReplacesLeastRecentlyUsed`, for every number of entries and threads |

**Split images** (`RawSegmentsProofs`, from `SegAssumption`, `CacheAssumption`, `RequestAssumption` and
`FdAssumption`). The inductive invariant `TablesInv` says three things of `cptr`, `cache` and the
descriptors of the kernel: a segment points only to an entry in use that is its own; an entry in use is
open on its segment's file and the segment points back; what is open belongs to an entry.
`PointsToOwnEntry` alone is not inductive: an entry that nobody points to might be in use for
a segment, and evicting it would reset that segment's pointer to another entry. That two entries
never share a descriptor follows (`OneOwner`) and need not be carried along.

`JobInv` goes on from there to the bytes. A descriptor stands where its entry's `seek_pos` says (`Standing`), so that
leaving out the `lseek` is right; what has been read are the bytes from the offset on (`DataRight`), and they end where the
read goes on in its segment (`OnItsWay`). The ends of the segments are running totals of their lengths, which are a recursive
function. That they exist and ascend would be an induction; it is shown with `LeastNat` instead: a total that
is not there would have a first one that is not, and the one before it gives it (`TotalsExist`).

| Theorem | States |
|---|---|
| `TablesInvariance` | `Spec => []TablesInv` |
| `OwnEntry` | `PointsToOwnEntry`: a segment is never read from another segment's file |
| `DescriptorsKept` | `NoDescriptorLost`: every open descriptor is owned by one entry |
| `ContractKept` | `KeepsContract`: what `raw_read` answers is what `ImgContract` says, over any number of segments of any lengths |
| `OutsideIsPastEnd` | `OutsideOnlyPastEnd`: a read runs past the tables only if it is longer than what is left of the image, and then it has read all of that. Nothing is assumed of the requests; `StaysInside`, without the exception, is refuted by `RawSegments_past_end` |

**Sets of numbers** (`TskListProofs`, from `WidthAssumption`). `ListInv` says that the buckets descend
(`InOrder`), that none reaches below 0 (`Sound`), and that together they stand for the keys
added and no others (`StandsFor`). Soundness is what `Descending` and `FindsExactlyTheAdded` lack: it makes the
expressions of tsk_list.c that wrap around modulo `Width` equal to those without wrap-around (`BucketArithmetic`). The
lemmas follow `tsk_list_add_entry` through its cases: a new head, growth at either end, a new bucket in between.
A bucket that grows up to its neighbour is not merged with it, which is why buckets may touch.

| Theorem | States |
|---|---|
| `ListInvariance` | `Spec => []ListInv` |
| `ListDescends` | `Descending` |
| `ListIsSet` | `FindsExactlyTheAdded`, for keys of any width, all orders of additions and any number of buckets |

**The volumes of a DOS disk** (`DosTableProofs`, from `ImgAssumption`, `OffsetAssumption` and `DiskAssumption`, which says that
an entry of a table is a start, a size and a kind). Two lemmas say all that is needed of `tsk_vs_part_add`: the new volume is
in its place and those behind it have moved by one and kept all but their addresses (`Grown`), and so nothing is lost (`Grew`).
`VolumeInv` says that the list is in order, that the addresses are the places, and that the walk is at a place in it; `LoadInv`
that the primary table is at the bottom of the stack. Each property then has an invariant of its own that holds on the way to it:

- `ShownInv`: while the gaps are filled, every sector before the end of the last volume is shown. This needs nothing of the
  order of ends, which is why overlapping volumes do no harm here.
- `KeptInv`: the entries of the primary table that are behind its frame's `i` have their volumes; giving up
  the extended tables leaves the frame alone.
- `UnusedInv`: if the partitions are apart, the end that the walk remembers is that of a partition behind it and of no volume
  behind it is the end later (`WalkedTo`). So a gap lies behind everything before it, and, as the list is in
  order, before everything after it. Without `Solid` (no partition is empty) an empty one inside another would break it.

| Theorem | States |
|---|---|
| `ListInvariance` | `Spec => [](LoadInv /\ VolumeInv)` |
| `AddressesAreInOrder` | `AddressesInOrder`: asking for each address below `part_count` gives each volume once, in order |
| `EverySectorIsShown` | `EverySectorShown`: for every disk, however its entries overlap |
| `UnallocatedIsUnused` | `UnallocIsUnused`: what is shown as unallocated is in no partition, unless partitions overlap |
| `PrimaryIsKept` | `PrimaryKept`: for any extended tables, whole, cut off or in a circle |
| `PartitionsAreExact` | `PartitionsExact`: the partitions shown are those of the tables |

`PartitionsExact` says two things of the nested tables, whose sets by depth (`Nested`) are a recursive function. That no partition comes from
elsewhere is `FromInv`: the table at place `n` of the stack nests at depth `n - 2`, and the stack is not longer than the list, since an entry
leads to a table only after it was added. That none is missing, unless something could not be loaded, is `WalkedInv`: there is a set of tables
that loading has come to, each of which is still on the stack or has been left with all that it leads to. At the end the stack has the primary table only, so
that the set is closed; a first depth with a table outside of it does not exist (`AllWalked`).

**Run lists and content of attributes** (`AttrFileProofs`, first and second part). The assumptions of `FsAttrRuns` say what the runs are that
arrive: lists of one or several consecutive runs of one file (`ExtentsAssumption`), two of which have no block in common (`FileAssumption`), a first list
that is empty, one of them, or a filler that none of them is partly in (`FirstAssumption`), and addresses that do not reach `Width`, which
appending could otherwise do by repetition (`AppendAssumption`). The order, the repetitions and the number of the calls are free, as are the block size, the sizes
of the attribute, its `skiplen`, and where a read starts.

The theorems speak of a list as long as no several runs were put in front of the rest of a filler, where the code goes wrong (fs_attr.c:615): `misplaced`
is FALSE until then, and each invariant of the list is an implication from it. From then on only its types are known
(`RunsOk`). A read is followed if its range is `Straight`: it starts with a block, or in a run of zeros that has all of it (1262), or in a run of
data and does not cross `initsize` (1281); and if there is no `skiplen` (1169). These conditions are part of the properties, not hypotheses, so that the runs
check the same.

A list is taken apart into pieces. `Follows(x, s)` says that the runs of `s` are consecutive from block `x` on, `Upto(x, s)` where they end; pieces can be joined and split
(`FollowsConcat`, `FollowsSplit`), and what a joined piece says of the blocks is what its parts say. Each branch of `tsk_fs_attr_add_run` is
then a joining of pieces of the old list, new runs and fillers. That a filler is always large enough for what arrives is `Whole` and `FillerOk`, the
parts of `AddedList` that `RunsSequential` and `MapExact` lack: no list of the file is partly in a filler, nor partly behind the end. `Known` says that what is known of
a list is known of all of it, so that a run is refused only if the attribute has all of it. `AppendedList` is the weaker one for lists that are appended, whose end pointer may
lag behind.

For the content, `AttrIs` says that the attribute has the runs of the list. `ReadOk` says where a read has come to: the next byte is in the block that the read starts in, or
the first of the next run (`ReadAt`), and what is in the buffer so far are the bytes of the file (`Shows`). `byteoffset_toread`, which a read from the
middle of a sparse run carries along, is why `Straight` ends such a range in its run. `WalkOk` is the same of a walk, block by block. That
the block of an offset is in some run, and that `RunIs` gives the same address as the block map, is again `LeastNat`.

| Theorem | States |
|---|---|
| `FillInvariance` | `FileSpec => []FillInv` |
| `RunsAreSequential`, `MapIsExact` | `InOrderUnlessMisplaced`, `MapExact`: unless a rest was misplaced, the list has no gaps and says of each block what was added |
| `OnlyKnownIsRefused` | `RefusedOnlyIfKnown`, unless a rest was misplaced |
| `FileInvariance` | `FileSpec => []FileInv` |
| `ReadsReturnTheFile`, `FinishedReadsFill` | `ReadReturnsFile`, `ReadFills`: of ranges that are `Straight`, the bytes of the file, and all that are asked for |
| `WalksShowTheFile`, `FinishedWalksShowAll` | `WalkShowsFile`, if content does not end in the block with the `skiplen` (`Skipped`); `WalkShowsAll` |

**Extent trees of ext4** (`AttrFileProofs`, third part, from `FsBlockAssumption`: a block has a size). The theorems are about trees as a file system has them, which the code does not check: `AllTreesOk`. An entry is an
extent or names a block of the tree; the extents come in the order of the file; each block is met on a walk from the inode. The tree may have any
depth and number of blocks. `MCExt4Extents` assumes the same of the trees of both runs, so that TLC evaluates it. `LoadInv` has two parts: what is still to be visited is
behind what has been loaded (`Ahead`), so that each extent is added at the end of the list or behind a filler; and for some set of blocks visited, the data attribute says what the extents visited
say, and the entries of these blocks are visited or to be visited (`Visited`). At the end this set is closed under what its blocks name, and so it is all of the blocks. A failed
load leaves nothing behind, since the next one begins with `tsk_fs_attr_set_run` of an empty list, and this is all that need be said of it.

| Theorem | States |
|---|---|
| `LoadInvariance` | `AllTreesOk` implies `TreeSpec => []LoadInv` |
| `LoadedDataAreTheExtents` | `AllTreesOk` implies `DataIsAllExtents` |
| `OneBlockLoads` | `AllTreesOk`, if each tree has one block at the most, implies `ReadableTreeLoads`: no run is refused. Two blocks refute it (`ext4_two_blocks`) |

**Hash indexes** (`HashIndexProofs`, from `ThreadsAssumption`, `HashAssumption`, `QueryAssumption` and `DatabaseAssumption`). The properties are
about handles whose last `make_index` has succeeded (`made`): without it the index on disk is of some other database. Then `FilesFit`
and `HandleFits` say that what is on disk and in the handle are of the database that is there; while an index is made nobody looks
anything up and what has been sorted are its lines (`MakerInv`). For each thread `Placed` says where it can be and that it
holds the lock there: that is why the buffer still has the line that it has read, and why the second release of the
lock in `hdb_binsrch_open_idx` does not reach a search: it comes only from a handle that was opened
for a hash type without an index, and such a handle answers nothing. `Bounded` is the bisection: the lines before `low` are smaller and those
from `up` on are larger than the hash (`Bracket`). The table starts a search with such a bracket (`TableBrackets`), by an
entry that is the first of its prefix and a next one that need not be the next prefix; the prefix without lines
answers at once. That the first line of each prefix and the first row of each hash exist is `LeastNat` again. A step of one
thread leaves the others alone, which is one lemma (`StepKeeps`, from `Frame`).

What a lookup shows (`EveryRowShown`) needs a second invariant, `ShownInv`: from the line that was found down to the line read last
(`Backward`), and then before the line read last (`Forward`), all lines of the hash have been shown, and nothing else (`Covers`): the rows of
each such line's run, each row once, and no run that ends at a row which cannot be parsed. It needs `LookupInv`, since it is about the line that
is in the buffer between two steps. The rest concerns the data. The runs of two lines of a hash are apart, because a line inside a
run would be a row that has the hash of the one before (`NoStartInside`, `RunsApart`); and a row of the hash that is in no run would
have a line of its own (`RowsInRuns`, about the first such row). `PreviousHash`, which steps over rows that cannot be parsed, is why
this holds only if no run ends at one; `get_entry` fails there, and the lookup with it. A callback that stops is shown less, and is called again (`HashIndex_stop`);
the invariant and the theorem are about callbacks that always go on.

| Theorem | States |
|---|---|
| `LookupInvariance` | `Spec => []LookupInv` |
| `TableIsOfIndex` | `TableFits` |
| `LookupIsExact` | `LookupExact`: the answer of a lookup is right, for every database, any number of threads and lookups |
| `ShownInvariance` | `Spec => []ShownInv` |
| `EveryRowIsShown` | `EveryRowShown`: a lookup that answers 1 has called a callback that always goes on once for every row of the hash |

**Adding images** (`AutoDbProofs`). The first three theorems assume nothing of the constants. `CaseInv` is `Transactional` with what makes it inductive: an addition that
runs or has not been ended is the only one (`OneActive`); while its savepoint is open, all that it has written is in the transaction and
the transaction holds no rows but its own and committed ones (`ActiveInside`); if the savepoint is not open any more, then
another start has released it (`ActiveExposed`); one that has not begun has no rows (`NewIsClean`). Nearly all actions are
alike to it: they insert a row of their own or none and stay inside (`InnerKeepsCaseInv`); those that begin and end additions and
the crash are proved one by one. `StopHeeded` needs `HeedInv` besides: an addition that has inserted a row although
`m_stopAllProcessing` was set is at a place from which no other comes (`Quiet`).

| Theorem | States |
|---|---|
| `CaseInvariance` | `Spec => []CaseInv` |
| `CaseIsTransactional` | `Transactional`, for all images, any number of additions, failures and crashes |
| `StopIsHeeded` | `StopHeeded`: one more row at the most |
| `AdditionsComplete` | `AllJobsGood` implies `Spec => []CompleteIfOk`: an addition that answers 0 and was not stopped has added all volumes, file systems and files |
| `FreeSpaceIsExact` | `AllJobsGood` implies `Spec => []UnallocExact`: where nothing failed and nobody asked to stop, the free blocks of file systems that have some, the volumes and images are shown exactly |

`AllJobsGood` is what an image can be to `TskAuto::findFilesInImg`: the areas of a volume system are a finite list, an image without one is a single area that is no
metadata volume (auto.cpp:279), a file system has a number of files and a set of free blocks, and `m_chunkSize` is a number. `MCAutoDb` assumes it of the run's images. The invariant is `ProgressInv`: as long as no
error has been registered and nobody has asked to stop (`Well`), everything before the place where the walk is has been added (`AddedAt`); after `Found`
the answer carries it on, since an error that was registered makes it 1 or 2 and nothing later makes it 0 again. The root directory of a file system is
the exception: if it cannot be opened the code goes on to the files below it and registers nothing (auto_db.cpp:324). `RootInv` carries it to where it comes to light:
a file system whose free blocks have been given their directory has its root, since db_sqlite.cpp:1382 looks for its row, and so each file system visited so far has one or an error is
remembered (`SeenRoots`).

For the free space the invariant is `SpaceInv`. It has three parts. Up to the search for free space (`Surveyed`) the rows of an addition show the file
systems and the volumes of the areas before the place where the walk is, and no free space. From then on (`SpaceAt`) they show all of them, so that what the
case database answers (`getFsInfos`, `getVsPartInfos`) is the file systems and volumes of the image, and the file systems that have been
visited have their free blocks (`FreeUpTo`), the others none. While the walk is in a file system, `Collected` says of the blocks up to the last
one seen that each is in exactly one of: the rows that are written, the ranges that are collected, the range that is open; that
they are in this order; that no range is next to a free block; and that the size counted so far is the number of blocks collected. A callback of
`fsWalkUnallocBlocksCb` does one of four things, and each is a lemma about `Collected` (`FirstBlock`, `SameRange`, `NextRange`, `NextRow`); the row that is written
behind the walk is a fifth (`LastRow`). `SpaceInv` needs `CaseInv`: the addition reads its own rows back because no other one is at work and its savepoint is
seen by itself (`SeesItsRows`). It was checked on the whole instance of `add_image` before it was proved.

**Directories and orphans** (`DirWalkProofs`, from `DirAssumption` and `VolumeAssumption`: what an inode and a name are, that the
root is a directory in use, and that the number of `$OrphanFiles` is not an inode's). The theorems are about file systems whose walks come to every
directory. This is their hypothesis `AllWalkable`, of two parts that the code does not enforce:

- `NoWayBack`: below the root no name that a walk enters leads to the root again (fs_dir.c:638 takes that for the start of a walk; `DirWalk_back_to_root`
  shows the list that comes of it), and no name but the one that is appended leads to `$OrphanFiles`.
- `NotTooDeep`: a chain of different directories ends before `MAX_DEPTH`, and no path is longer than `DIR_STRSZ` (fs_dir.c:682 gives up there; `DirWalk_long_path`).

Loops, directories that cannot be read, names of inodes that are used again, and any number of threads are all in. What concerns the shared list has a second
hypothesis, `GoesOn`: no callback answers `TSK_WALK_ERROR`, which the code takes, in a subdirectory, for a directory that could not be read (715, 824; `DirWalk_partial_list`).
All three are conditions of the theorems, not of the code; without any one of them the statements are false.

*What a walk covers.* What can be reached from a directory is the least set that is closed under its names (`Reach`), without a
recursion; that `DirsBelow`, which TLC evaluates, is that set is shown by counting (`BelowIsReach`). The argument about a walk with a stack of
directories that it does not enter again is one lemma, `CoverStep`: if each name of a directory has been shown, and all
below it has been shown as far as it can be reached *without going through a directory on the stack*, then all below the directory has been. `Done` says this of
every place on the path: the names before the place are cleared, with respect to the directories above them. It is
carried along by a step to the next name (`StepOk`), into a directory (`EnterOk`, `OpenOk`) and out of it (`DirDone`, `BackOk`); at the end it says that
everything below the start has been shown. `WalksOk` is this for every record of every stack, with what the records of a thread
are to each other.

*What the threads share.* `ListsOk` says of each record what it has done for the others:

- `Saves`: a walk that collects covers `Listed`, the names whose inodes it has in its list; so a list that it hands over at the end is whole.
  The one that it hands over before it goes into `$OrphanFiles` is whole since that name is the last of the root (`AtOrphanName`), and from there until
  it is back it does not collect (`Quiet`).
- `Informs`: the walk on behalf of a search, if it ends well, has collected, or another thread has put the list there in the meantime.
- `FindGood`: an orphan that the search is past is in `found`, or in `subdirs` and then below a directory of `found` (`NewlySeenBelow`).
- `Hunts`: a walk of everything, when it is back from `$OrphanFiles`, has shown all orphans (`OrphansDone`).

De-duplication takes out of `found` what is below another directory of it, which may itself be taken out. That something is left that leads to each orphan
(`OrphansKept`) needs that no orphan directory leads back to itself: of the directories of `found` above an orphan, take one with the most
of them below it; it is not below another (`Outermost`). Here names have to agree with inodes (`KindsAgree`), or
being below is not transitive; without this an orphan is lost (section 6).

| Theorem | States |
|---|---|
| `WalksOkAlways`, `ListsOkAlways` | `Spec => []WalksOk`, `Spec => []ListsOk` |
| `EveryNameShownAlways` | `EveryNameShown`, whatever callbacks answer |
| `SharedListCompleteAlways` | `SharedListComplete`, under `AllWalkable` and `GoesOn`: the shared list is not a part of what it should be |
| `OrphansUnnamedAlways` | `OrphansUnnamed`, under the same |
| `NoOrphanLostAlways` | `NoOrphanLost` |
| `EveryDeletedFileShownAlways` | `EveryDeletedFileShown` |

The run `dir_walks` shows the same properties on an instance, and `MCWalkable` that its file systems satisfy the hypotheses. TLC has also found `ListsOk`
to hold there.

**Only model-checked.** That calls return: liveness under fairness is out of the prover's reach. Every other property that a passing run checks
is a theorem, in the form in which the run checks it. Recursive functions are no obstacle: where one occurs (`max_off` of segments, `Nested` tables, what is below a directory), the proofs speak of its
values one step apart, or of a set that is closed under the step, and the least element of a set of numbers (`LeastNat`) takes the place of the induction.

## 5. What is not modelled

- **Contents of structures on disk.** Parsing of superblocks, inodes, MFT entries, directories and
  tables is a pure function of bytes with few states; what it hands on (names, runs, extents,
  partitions) is where the models start. This is most of `tsk/fs` by size.
- **Image formats other than raw** call an external library under a lock each; `ImgContract` is what
  they promise.
- **Resident and compressed attributes.** The first are one `memcpy`, the second decoders.
- **GPT, BSD, Sun and Mac partitions.** They fill the list that is modelled, from a loop over one table.
- **Other hash databases.** NSRL, EnCase and Hashkeeper differ from md5sum in how a row is parsed; SQLite
  databases are queries of another library.
- **SQL.** A case is its rows, a savepoint is what SQLite documents. Hashing of contents, the PostgreSQL
  variant and the image writer inside an addition are left out; `m_addUnallocSpace` is on and file systems are found by
  looking for them (`m_addFileSystems`).
- **Windows paths** (`#ifdef TSK_WIN32`).
- **Tools, framework, Java bindings, registry parser, vendored code.** By size most of the repository: the
  SQLite amalgamation alone is more than a third of it.
- **Closing a handle while another thread uses it.** Nothing says that it is allowed.

## 6. Seen while modelling

Besides the findings of section 3, these places do something that a comment or a caller would not
expect. No run is kept for them: the models include them where marked (*), with instances
that leave them out, or they lie outside of the models.

Images and volumes

- img_io.c:93 (*): a large read that is not of whole sectors goes through a buffer; if the format fails the
  read returns the whole length and zeros instead of -1 (img_io.c:22). `ReadCorrect` is about reads
  for which the format delivered something.
- img_io.c:75 (*): large reads are not cut at the end of the image; it is left to the format. The raw format does not do so (raw.c:267, `RawSegments_past_end`).
- img_io.c:160 (*): the ages of entries in use fall without a floor, although the comment at 158 says that
  they do not go below 1. The order of ages, and so the replacement, is right all the same.
- raw.c:61: descriptor 0 is valid and also the mark of an unused entry; a segment opened as
  0 would never be closed. `FdAssumption` excludes it.
- img_open.c:548: closing destroys the lock without taking it.
- img_writer.cpp:197: a block is marked as allocated before it is written.
- mm_part.c:151 (*): the end of the last entry is taken for the end of all before it. Nested partitions
  are followed by an "unallocated" region that they contain in part; `UnallocIsUnused` says what holds.
- mm_part.c:155 (*): the last gap reaches to the end of the image, not of the volume system.
- dos.c:773: a chain of extended tables that leads back to itself is followed without a bound.

Attributes

- tsk_list.c:98 (*): `key - len` wraps for a bucket that contains 0. `ListIsSet` shows that the answers stay right.
- fs_attr.c:613 (*): runs that are longer than the filler make its length wrap around. Lists of runs that are partly in a filler are left out
  (`FileAssumption`, `FirstAssumption`).
- fs_attr.c:649: a run that is found a second time is freed while the caller still has it.
- fs_attr.c:338: the filler in front of the first runs is allocated without a check.
- fs_attr.c:1275 (*): a short read of one of several runs returns the count of that run only.
- ext2fs.c:1454: the length of an index run is set in bytes, not blocks (tsk_fs.h:166).

Directories

- fs_dir.c:621-628: if there is no memory for a named inode, the list of the walk is dropped and collecting goes on with an empty one, which is shared at the end;
  a search that uses it takes named files for orphans. Failures of memory are not modelled here.
- fs_dir.c:1230 (*): the entry moved into the place of a duplicate is not looked at again, so that
  one of three files in a deleted directory with a higher number stays in `$OrphanFiles` twice over.
- fs_dir.c:1231 (*): orphan directories in a cycle take each other out of `$OrphanFiles`; `OrphansAcyclic` is the
  condition under which no orphan is lost.
- fs_dir.c:1226 (*): a name in an orphan directory that calls a deleted directory a file takes that directory out of `$OrphanFiles`, but no
  walk enters it from there: the files in it, if they were met through it, are neither in `$OrphanFiles` nor below it. `KindsAgree` is the condition.
- fs_dir.c:1109 (*): one orphan directory that cannot be read makes the whole search fail.
- fs_dir.c:691 (*): at the limit of depth or length an entry is left on the stack of directories.

Hash databases

- binsrch_index.cpp:91 (*): the type of a handle is that of the first hash it is asked for, and stays. After a first lookup of a
  SHA1 value in an md5sum database no MD5 value is found through the handle, and an index made through it is refused;
  `tsk_hdb_has_idx` (tsk_hashdb.c:321) answers for the first type only (540).
- binsrch_index.cpp:547 (*): the lock is released a second time when opening the index fails, whoever has it by then.
- binsrch_index.cpp:512 (*): an index that is refused stays open, so that the next call takes it for opened and
  the search reads into a line buffer that does not exist (`ReadWithoutBuffer`).
- binsrch_index.cpp:851 (*): if the table of a new index cannot be created, the old one stays, on disk and in memory,
  and lookups through it are wrong. The properties are stated while the last `make_index` has succeeded (`made`).
- md5sum.c:225 (*): the hash before the first row is one of zeros, so that a first row with that hash gets no line.
- md5sum.c:374 (*): a row that cannot be parsed behind the last row of a hash makes a lookup with a callback fail.

Automation

- auto_db.cpp:439 and 502 (*): an addition whose savepoint was released by another start (`AutoDb_second_start`) goes on without a transaction.
  `Transactional` says of such additions (`exposed`) what still holds.
- A RELEASE or ROLLBACK that fails leaves the savepoint open (*), and the next start commits it.
- auto_db.cpp:324 (*): a root directory that cannot be opened is passed over without an error; the files below it are added.
- auto_db.cpp:533-537 (*): if the writer of the image cannot be had, startAddImage returns 1 and does not revert.
- tsk_case_db.h:147: the size of the range that is added for a file system without free blocks is never set.
- auto_db.cpp:1013-1046 (*): a stop before the file systems are looked at makes the whole image look free of known structures, and it
  may be recorded as unallocated.
- auto_db.cpp:1106 (*): a volume whose table entry says "unallocated" is listed as unallocated space also if a file system was found in it.
- auto_db.cpp:927: a range that cannot be inserted in the middle of the blocks is not reported.
- auto.cpp and auto_db.cpp:514 (*): a start that was stopped returns 0, like one that has seen everything.
- case_db.cpp:225: `addImage` returns 1 for every success, as `commitAddImage` returns the identifier of the image.
- Where the savepoint and SQLite disagree, the `inTransaction` answers of db_sqlite.cpp are not reached otherwise.

In `AutoDb` a caller that was refused waits until the additions before it have ended, and `addFileWithLayoutRange` (db_sqlite.cpp:1395-1462) inserts
all its rows or none, of ranges that do not overlap. `StopHeeded` counts rows after the image's own. `UnallocExact` is about file systems with free blocks.

## 7. Plan

Done, in this order: the image cache with threads and its contract; the raw format below it; the sets of
numbers; run lists and reading of content, and both composed; extent trees over run lists; partitions; directories and orphans;
hash indexes; adding of images.

Open, the most important first:

1. **Paths** (`fs_name.c`, `tsk_fs_path2inum`): resolving a path over the names of `DirWalk`, with a deleted name
   before a live one; against the set of inodes the path leads to.
2. **Attribute lists** (`fs_attrlist.c`): reuse of attributes marked unused, composed with `FsAttrRuns`; loading a file
   again never shows runs of the file before.
3. **Image writer** (`img_writer.cpp`): table, bitmap and data of a VHD, with writes that fail; a sector marked as
   present has its data.
4. **Composition** of `ImgCache` with `RawSegments` in the place of `ImgContract`, so that the contract is not only
   checked on both sides, and of `tsk_img_close`.
5. **FAT cache** (`fatfs.c`) and the NTFS map of orphan files, each with its lock.

Theorems to add:

- `DirWalk`: the lock of orphans is held exactly by the thread that has a record of `tsk_fs_dir_find_orphans` past
  "lock" on its stack, and walks on behalf of the search never come to `$OrphanFiles`.
- `FsAttrRuns`: of a list with a misplaced rest, what is still right: that it is wrong only in the offset of what is left of the filler, until the next
  run meets it.
