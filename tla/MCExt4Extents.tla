-------------------------- MODULE MCExt4Extents --------------------------
(* Extent trees for TLC, with holes between the extents. *)
EXTENDS Ext4Extents

File == <<Extent(0, 100, 2), Extent(2, 110, 1), Extent(4, 120, 3),
          Extent(7, 90, 1), Extent(9, 130, 2)>>

NoBlocks == [b \in {} |-> <<>>]

(* Every file that has some of these extents, in the inode or in a block   *)
Part(s) == SelectSeq(File, LAMBDA e : e.run.offset \in s)

SmallTrees ==
  UNION {{[inode |-> Part(s), blocks |-> NoBlocks],
          [inode |-> <<IndexBlock(50)>>, blocks |-> [b \in {50} |-> Part(s)]]} :
           s \in SUBSET {0, 2, 4, 7, 9}}

(* They are what trees have to be for the properties of Ext4Extents. *)
ASSUME SmallTreesOk == \A t \in SmallTrees : TreeOk(t) /\ OneBlock(t)

(* A file whose extents need two blocks *)
LargeTrees ==
  {[inode |-> <<IndexBlock(50), IndexBlock(51)>>,
    blocks |-> [b \in {50, 51} |-> IF b = 50 THEN SubSeq(File, 1, 3)
                                   ELSE SubSeq(File, 4, 5)]]}

ASSUME LargeTreesOk == \A t \in LargeTrees : TreeOk(t)
=============================================================================
