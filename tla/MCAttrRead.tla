---------------------------- MODULE MCAttrRead ----------------------------
(* Attributes of a few blocks for TLC, each with an offset to read it from. *)
EXTENDS AttrRead

R(offset, addr, len, kind) == [offset |-> offset, addr |-> addr, len |-> len, kind |-> kind]

SparseHead == <<R(0, 0, 1, "filler"), R(1, 4, 3, "data")>>

FromSparse == [run |-> SparseHead, size |-> 11, initsize |-> 11, allocsize |-> 12,
               skiplen |-> 0]

(* A read from the middle of a block that is sparse *)
SparseCases == {[attr |-> FromSparse, off |-> 1]}

HalfInit == [run |-> <<R(0, 4, 3, "data")>>, size |-> 9, initsize |-> 5, allocsize |-> 9,
             skiplen |-> 0]

(* A read from the middle of the block in which initsize is *)
InitCases == {[attr |-> HalfInit, off |-> 4]}

(* The content starts after one byte and ends in the same block (as with   *)
(* the extended attribute record of iso9660.c:1613, in smaller blocks).    *)
ShortSkip == [run |-> <<R(0, 4, 1, "data")>>, size |-> 2, initsize |-> 2, allocsize |-> 2,
              skiplen |-> 1]

ShortCases == {[attr |-> ShortSkip, off |-> 0]}
=============================================================================
