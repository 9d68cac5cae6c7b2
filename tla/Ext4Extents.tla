---------------------------- MODULE Ext4Extents ----------------------------
(***************************************************************************)
(* ext4_load_attrs_extents (ext2fs.c): the extent tree of an ext4 inode is *)
(* walked in preorder.  Its extents become the runs of the data attribute, *)
(* the blocks of the tree itself those of an attribute of their own.  What *)
(* is still to be visited is kept as a sequence; an entry is an extent or  *)
(* the address of a block of the tree.                                     *)
(***************************************************************************)
EXTENDS AttrRuns

CONSTANTS
  FsBlockSize,  \* fs_info->block_size
  Trees       \* the trees: the entries of the inode and of each block

ASSUME FsBlockAssumption == FsBlockSize \in Nat \ {0}

VARIABLES
  tree,
  data, index,  \* the run lists of the two attributes
  todo,         \* what is still to be visited, in order
  state,        \* meta->attr_state: "empty", "loading", "studied", "failed"
  why           \* what made the last load fail

treeVars == <<tree, data, index, todo, state, why>>

Extent(offset, addr, len) ==
  [kind |-> "extent", block |-> 0,
   run |-> [offset |-> offset, addr |-> addr, len |-> len, filler |-> FALSE]]

IndexBlock(block) == [kind |-> "index", block |-> block, run |-> Filler(0, 0)]

TreeInit ==
  /\ tree \in Trees
  /\ data = NoRuns /\ index = NoRuns
  /\ todo = <<>>
  /\ state = "empty"
  /\ why = "none"

(* Mutant: the runs of a load that failed are kept. *)
FreshKept(list) == list

(* tsk_fs_attrlist_markunused frees the runs, tsk_fs_attr_set_run sets none. *)
Fresh(list) == SetRun(<<>>)

(* A load that fails leaves attr_state as it was: the next one marks the   *)
(* attributes unused and starts again.                                     *)
Load ==
  /\ state \in {"empty", "failed"}
  /\ data' = Fresh(data) /\ index' = Fresh(index)
  /\ todo' = tree.inode
  /\ state' = "loading"
  /\ why' = "none"
  /\ UNCHANGED tree

Fail(reason) == state' = "failed" /\ why' = reason /\ todo' = <<>>

(* ext2fs_make_data_run_extent *)
MakeRunExtent ==
  /\ state = "loading" /\ todo # <<>> /\ Head(todo).kind = "extent"
  /\ \E r \in AddResults(data, <<Head(todo).run>>) :
       /\ data' = r.list
       /\ \/ r.ret = "ok" /\ todo' = Tail(todo) /\ UNCHANGED <<state, why>>
          \/ r.ret # "ok" /\ Fail(r.ret)
  /\ UNCHANGED <<tree, index>>

(* Mutant: the first entry of a block is taken for its header. *)
EntriesAfterFirst(block) ==
  SubSeq(tree.blocks[block], 2, Len(tree.blocks[block])) \o Tail(todo)

EntriesFirst(block) == tree.blocks[block] \o Tail(todo)

(* The run that stands for a block of the tree: its offset is not set, and *)
(* its length is the block size.                                           *)
IndexRun(block) == [offset |-> 0, addr |-> block, len |-> FsBlockSize, filler |-> FALSE]

(* ext2fs_make_data_run_extent_index *)
MakeRunIndex ==
  /\ state = "loading" /\ todo # <<>> /\ Head(todo).kind = "index"
  /\ \/ \E r \in AddResults(index, <<IndexRun(Head(todo).block)>>) :
          /\ index' = r.list
          /\ \/ /\ r.ret = "ok"
                /\ todo' = EntriesFirst(Head(todo).block)
                /\ UNCHANGED <<state, why>>
             \/ r.ret # "ok" /\ Fail(r.ret)
     \/ \* the block cannot be read, its magic is wrong, or no memory is left
        /\ Fail("unreadable")
        /\ UNCHANGED index
  /\ UNCHANGED <<tree, data>>

Studied ==
  /\ state = "loading" /\ todo = <<>>
  /\ state' = "studied"
  /\ UNCHANGED <<tree, data, index, todo, why>>

TreeNext == Load \/ MakeRunExtent \/ MakeRunIndex \/ Studied

TreeSpec == TreeInit /\ [][TreeNext]_treeVars

-----------------------------------------------------------------------------
ExtentsIn(entries) ==
  {entries[i].run : i \in {j \in 1 .. Len(entries) : entries[j].kind = "extent"}}

NamedIn(entries) ==
  {entries[i].block : i \in {j \in 1 .. Len(entries) : entries[j].kind = "index"}}

ExtentsOf(t) ==
  ExtentsIn(t.inode) \union UNION {ExtentsIn(t.blocks[b]) : b \in DOMAIN t.blocks}

Blocks == DOMAIN tree.blocks

AllExtents == ExtentsOf(tree)

(* What the trees of a file are.  An entry is an extent of some blocks or  *)
(* names a block of the tree.                                              *)
Entry(t) ==
  [kind : {"extent"}, block : {0},
   run : [offset : Nat, addr : Nat, len : Nat \ {0}, filler : {FALSE}]]
    \union [kind : {"index"}, block : DOMAIN t.blocks, run : {Filler(0, 0)}]

(* A block of the tree is about the blocks of the file between its marks.  *)
Marks(t) == {0} \union {r.offset : r \in ExtentsOf(t)} \union {r.offset + r.len : r \in ExtentsOf(t)}

StartOf(e, from) == IF e.kind = "extent" THEN e.run.offset ELSE from[e.block]
BehindOf(e, to)  == IF e.kind = "extent" THEN e.run.offset + e.run.len ELSE to[e.block]

(* The entries are about blocks from x up to y, in their order. *)
InOrder(entries, from, to, x, y) ==
  /\ \A i \in 1 .. Len(entries) :
       /\ x <= StartOf(entries[i], from)
       /\ StartOf(entries[i], from) <= BehindOf(entries[i], to)
       /\ BehindOf(entries[i], to) <= y
  /\ \A i, j \in 1 .. Len(entries) :
       i < j => BehindOf(entries[i], to) <= StartOf(entries[j], from)

Between(t, from, to) ==
  /\ InOrder(t.inode, from, to, 0, Width - 1)
  /\ \A b \in DOMAIN t.blocks : InOrder(t.blocks[b], from, to, from[b], to[b])

(* Every block of the tree is met on a walk from the inode. *)
Connected(t) ==
  \A S \in SUBSET DOMAIN t.blocks :
    NamedIn(t.inode) \union UNION {NamedIn(t.blocks[b]) : b \in S} = S => S = DOMAIN t.blocks

TreeOk(t) ==
  /\ t.inode \in Seq(Entry(t))
  /\ \A b \in DOMAIN t.blocks : t.blocks[b] \in Seq(Entry(t))
  /\ \E from, to \in [DOMAIN t.blocks -> Marks(t)] : Between(t, from, to)
  /\ Connected(t)

(* A tree whose extents fit into one block besides the inode *)
OneBlock(t) == \A b, c \in DOMAIN t.blocks : b = c

(* When a file has been loaded its data runs are the extents of its tree,  *)
(* each at its place, with fillers for the holes and nothing overlapping.  *)
DataIsAllExtents ==
  state = "studied" =>
    /\ Sequential(data.run)
    /\ BlockMap(data.run) = UNION {BlockMap(<<r>>) : r \in AllExtents}

(* ext2fs.c:1405 "walk it, and add everything encountered to the           *)
(* appropriate attributes": a tree that can be read is loaded.             *)
ReadableTreeLoads == why \notin {"beyond", "no filler"}
=============================================================================
