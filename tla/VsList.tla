------------------------------ MODULE VsList ------------------------------
(***************************************************************************)
(* The list of the volumes of a volume system (TSK_VS_INFO.part_list,      *)
(* tsk/vs/mm_part.c).  A volume has the address under which the callers    *)
(* ask for it; the addresses are kept up to date as volumes are added.     *)
(***************************************************************************)
EXTENDS Integers, Sequences

Volume(start, len, flag) == [start |-> start, len |-> len, flag |-> flag, addr |-> 0]

(* A volume goes before the first one that starts after it. *)
Place(parts, start) ==
  LET after == {i \in 1 .. Len(parts) : parts[i].start > start}
  IN  IF after = {} THEN Len(parts) + 1
      ELSE CHOOSE i \in after : \A j \in after : i <= j

AddrAt(parts, i) ==
  IF i = 1 THEN IF parts = <<>> THEN 0 ELSE parts[1].addr
  ELSE parts[i - 1].addr + 1

(* Mutant: the volumes behind the new one keep their addresses. *)
ShiftedNot(parts) == parts

Shifted(parts) == [i \in 1 .. Len(parts) |-> [parts[i] EXCEPT !.addr = @ + 1]]

(* tsk_vs_part_add *)
PartAdd(parts, v) ==
  LET i == Place(parts, v.start)
  IN  SubSeq(parts, 1, i - 1)
        \o <<[v EXCEPT !.addr = AddrAt(parts, i)]>>
        \o Shifted(SubSeq(parts, i, Len(parts)))

Sectors(v) == v.start .. v.start + v.len - 1
=============================================================================
