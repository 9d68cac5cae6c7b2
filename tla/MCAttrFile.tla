---------------------------- MODULE MCAttrFile ----------------------------
(* Instances of AttrFile for TLC: the runs of a file of eight blocks, some  *)
(* of them sparse, in every order of arrival and with repetitions.          *)
EXTENDS AttrFile

Data(offset, addr, len) == [offset |-> offset, addr |-> addr, len |-> len, filler |-> FALSE]

(* Lists of one run, as YAFFS2 and ext4 add them, and lists of two, as NTFS *)
(* and HFS+ do, in the middle and at the end of the file                    *)
FileRuns == {<<Data(0, 20, 2)>>, <<Data(2, 0, 1), Data(3, 30, 1)>>,
             <<Data(4, 26, 1)>>, <<Data(5, 24, 2), Data(7, 10, 1)>>}

(* Nothing (ext4), the list of the MFT entry met first (NTFS) or a filler  *)
(* for the whole file (YAFFS2)                                             *)
FileStarts == {<<>>, <<Filler(0, 8)>>} \union FileRuns
=============================================================================
