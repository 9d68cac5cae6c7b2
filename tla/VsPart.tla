------------------------------ MODULE VsPart ------------------------------
(***************************************************************************)
(* The second half of opening a volume system: when its table has been     *)
(* loaded, tsk_vs_part_unused (tsk/vs/mm_part.c) walks along the list of   *)
(* volumes and adds one for every region between the others, while the     *)
(* list is being walked.                                                   *)
(***************************************************************************)
EXTENDS VsList

CONSTANT ImgSectors  \* sectors of the image

ASSUME ImgAssumption == ImgSectors \in Nat

VARIABLES
  parts,       \* part_list
  part_count,
  cur,         \* the volume that the walk has come to
  prev_end,    \* the end of the one before it
  phase        \* "loading", "filling", "open" or "closed"

partVars == <<parts, part_count, cur, prev_end, phase>>

VsInit ==
  /\ parts = <<>>
  /\ part_count = 0
  /\ cur = 1
  /\ prev_end = 0
  /\ phase = "loading"

Add(v) == parts' = PartAdd(parts, v) /\ part_count' = part_count + 1

(* The table has been loaded. *)
Loaded ==
  /\ phase' = "filling"
  /\ UNCHANGED <<parts, part_count, cur, prev_end>>

(* Mutant: the first sector behind the region is taken for a part of it. *)
UnallocInclusive(from, to) == Volume(from, to - from + 1, "UNALLOC")

Unalloc(from, to) == Volume(from, to - from, "UNALLOC")

(* The walk goes on behind the volume that it was at, which the new one    *)
(* has moved by one place.                                                 *)
FillBefore ==
  LET part == parts[cur] IN
  /\ phase = "filling" /\ cur <= Len(parts)
  /\ \/ /\ part.flag = "META"
        /\ cur' = cur + 1
        /\ UNCHANGED <<parts, part_count, prev_end>>
     \/ /\ part.flag # "META" /\ part.start <= prev_end
        /\ cur' = cur + 1
        /\ prev_end' = part.start + part.len
        /\ UNCHANGED <<parts, part_count>>
     \/ /\ part.flag # "META" /\ part.start > prev_end
        /\ Add(Unalloc(prev_end, part.start))
        /\ cur' = cur + 2
        /\ prev_end' = part.start + part.len
  /\ UNCHANGED phase

(* Mutant: the space behind the last volume is forgotten. *)
TailSectorsNone == 0

(* Where the volume system is taken to end *)
TailSectors == ImgSectors

FillTail ==
  /\ phase = "filling" /\ cur > Len(parts)
  /\ IF prev_end < TailSectors THEN Add(Unalloc(prev_end, TailSectors))
     ELSE UNCHANGED <<parts, part_count>>
  /\ phase' = "open"
  /\ UNCHANGED <<cur, prev_end>>

(* Loading or filling fails, or the caller closes the volume system: the   *)
(* list is freed (tsk_vs_part_free) and then the handle.                   *)
Close ==
  /\ phase # "closed"
  /\ parts' = <<>>
  /\ phase' = "closed"
  /\ UNCHANGED <<part_count, cur, prev_end>>

-----------------------------------------------------------------------------
(* tsk_vs_part_get: the volume with an address, none if there is none *)
Get(idx) ==
  IF idx >= part_count THEN {}
  ELSE {parts[i] : i \in {j \in 1 .. Len(parts) : parts[j].addr = idx}}

Having(flag) == {parts[i] : i \in {j \in 1 .. Len(parts) : parts[j].flag = flag}}
SectorsOf(flag) == UNION {Sectors(v) : v \in Having(flag)}

(* The addresses are the places in the list, which is in the order of the  *)
(* starts: asking for every address below part_count gives each volume     *)
(* once, while the list grows before, in and behind the place of the walk. *)
AddressesInOrder ==
  phase # "closed" =>
    /\ part_count = Len(parts)
    /\ \A i \in 1 .. Len(parts) : Get(i - 1) = {parts[i]}
    /\ \A i \in 1 .. Len(parts) - 1 : parts[i].start <= parts[i + 1].start

(* An open volume system hides nothing: every sector of the image is in an *)
(* allocated or an unallocated volume, however the entries overlap.        *)
EverySectorShown ==
  phase = "open" => 0 .. ImgSectors - 1 \subseteq SectorsOf("ALLOC") \union SectorsOf("UNALLOC")

(* mm_part.c:117 "Identify regions in the partition list where there are   *)
(* unused sectors and create new entries for them": unless partitions      *)
(* overlap, no sector of one is in an unallocated volume.                  *)
UnallocIsUnused ==
  (\A v, w \in Having("ALLOC") : v # w => Sectors(v) \intersect Sectors(w) = {})
    => SectorsOf("ALLOC") \intersect SectorsOf("UNALLOC") = {}
=============================================================================
