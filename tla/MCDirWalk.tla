------------------------------ MODULE MCDirWalk ------------------------------
EXTENDS DirWalk

\* Inodes 1 (the root) to 8 ($OrphanFiles).
D == [alloc |-> TRUE, dir |-> TRUE]
d == [alloc |-> FALSE, dir |-> TRUE]
F == [alloc |-> TRUE, dir |-> FALSE]
f == [alloc |-> FALSE, dir |-> FALSE]

Live(a, kind) == [addr |-> a, alloc |-> TRUE, kind |-> kind]
Dead(a, kind) == [addr |-> a, alloc |-> FALSE, kind |-> kind]
EachDead(s) == [i \in DOMAIN s |-> Dead(s[i], "undef")]

Volume(meta, names, unreadable) ==
  [meta |-> meta, names |-> names, unreadable |-> unreadable, long |-> {}]

\* Two directories that hold each other, a deleted directory whose ".."
\* points to an inode that was deleted too, a name of an inode that is in use
\* again, and orphans: a file below a directory with a higher number.
Loops ==
  Volume((1 :> D @@ 2 :> D @@ 3 :> D @@ 4 :> d @@ 5 :> f @@ 6 :> f @@ 7 :> d),
         (1 :> <<Live(2, "dir"), Dead(3, "reg")>>
          @@ 2 :> <<Live(3, "dir"), Dead(4, "dir")>> @@ 3 :> <<Live(2, "dir")>>
          @@ 4 :> <<Dead(5, "dot"), Dead(4, "dir")>>
          @@ 7 :> <<Dead(1, "dot"), Dead(6, "reg")>>), {})

\* No names are deleted, so that the list stays NULL; orphan directories in each
\* other's way: 4 and 6 share 3, and 6 leads to an inode that is in use.
NoneNamed ==
  Volume((1 :> D @@ 2 :> F @@ 3 :> f @@ 4 :> d @@ 5 :> f @@ 6 :> d),
         (1 :> <<Live(2, "reg")>>
          @@ 4 :> <<Dead(3, "reg")>>
          @@ 6 :> <<Dead(3, "reg"), Dead(2, "reg"), Dead(5, "reg")>>), {})

\* A directory that cannot be read before one that can, in the tree ...
BadNamed ==
  Volume((1 :> D @@ 2 :> D @@ 3 :> D @@ 4 :> f @@ 5 :> f),
         (1 :> <<Live(2, "dir"), Live(3, "dir")>> @@ 2 :> <<Dead(5, "reg")>>
          @@ 3 :> <<Dead(4, "reg")>>), {2})

\* ... among the orphans, and the root itself.
BadOrphan ==
  Volume((1 :> D @@ 2 :> f @@ 3 :> f @@ 4 :> d), (1 :> <<Dead(3, "reg")>> @@ 4 :> <<>>), {4})
BadRoot == Volume((1 :> D @@ 2 :> f), (1 :> <<Dead(2, "reg")>>), {1})

\* Orphan directories that lead to themselves and to each other.
Cycles ==
  Volume((1 :> D @@ 2 :> d @@ 3 :> d @@ 4 :> d),
         (1 :> <<>> @@ 2 :> EachDead(<<2>>) @@ 3 :> EachDead(<<4>>)
          @@ 4 :> EachDead(<<3>>)), {})

MCFileSystems ==
  [loops |-> Loops, none_named |-> NoneNamed, bad_named |-> BadNamed,
   bad_orphan |-> BadOrphan, bad_root |-> BadRoot, cycles |-> Cycles]

Everything == [recurse |-> TRUE, noorphan |-> FALSE, shows |-> BOOLEAN]
DeletedOnly == [recurse |-> TRUE, noorphan |-> TRUE, shows |-> {FALSE}]
RootOnly == [recurse |-> FALSE, noorphan |-> FALSE, shows |-> {}]
MCWalkFlags == {Everything, DeletedOnly, RootOnly}
GoingOn == {"cont", "stop"}

OneVolume == [loops |-> Loops]
GivingUp == {"cont", "error"}

\* A name in a subdirectory leads back to the root, before one of a deleted file.
BackToRoot ==
  Volume((1 :> D @@ 2 :> D @@ 3 :> f @@ 4 :> f),
         (1 :> <<Live(2, "dir")>>
          @@ 2 :> <<Dead(3, "reg"), Live(1, "dir"), Dead(4, "reg")>>), {})
WithWayBack == [back_to_root |-> BackToRoot]

\* The path of directory 3, which is empty, is too long.
LongPath ==
  [Volume((1 :> D @@ 2 :> D @@ 3 :> D @@ 4 :> f),
          (1 :> <<Live(2, "dir")>> @@ 2 :> <<Live(3, "dir"), Dead(4, "reg")>> @@ 3 :> <<>>), {})
     EXCEPT !.long = {3}]
WithLongPath == [long_path |-> LongPath]

\* The conditions of the theorems hold of the instance whose runs pass.
ASSUME MCWalkable ==
  \A n \in DOMAIN MCFileSystems :
    Walkable(MCFileSystems[n]) /\ KindsAgree(MCFileSystems[n])
=============================================================================
