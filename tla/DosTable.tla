------------------------------ MODULE DosTable ------------------------------
(***************************************************************************)
(* Opening a DOS volume system (tsk/vs/dos.c).  The primary table has up   *)
(* to four entries; an extended one leads to a table of its own, which is  *)
(* loaded by a recursive call in the middle of the loop over the entries.  *)
(* stack has a frame for each call that is under way, the primary table's  *)
(* first.  An extended table that cannot be loaded is given up with all    *)
(* those above it on the stack, and the primary table goes on.             *)
(***************************************************************************)
EXTENDS VsPart

CONSTANTS
  Disks,     \* the disks: a function from the sectors with a valid table
  VsOffset   \* the sector of the image at which the volume system starts

ASSUME OffsetAssumption == VsOffset \in 0 .. ImgSectors
ASSUME DiskAssumption ==
  \A d \in Disks : \A sect \in DOMAIN d :
    d[sect] \in Seq([start : Nat, size : Nat, ext : BOOLEAN])

VARIABLES
  disk,      \* the disk, with sectors counted from the volume system on
  stack,     \* the tables being loaded
  added,     \* an entry of the primary table has been added
  given_up   \* history: an extended table could not be loaded

vars == <<parts, part_count, cur, prev_end, phase, disk, stack, added, given_up>>

max_addr == ImgSectors - VsOffset

(* i is the entry that comes next, 0 if the table has not been read yet. *)
Frame(sect_cur, sect_ext_base) ==
  [sect_cur |-> sect_cur, sect_ext_base |-> sect_ext_base, i |-> 0]

Top   == stack[Len(stack)]
Entry == disk[Top.sect_cur][Top.i]
Primary == Len(stack) = 1

Init ==
  /\ VsInit
  /\ disk \in Disks
  /\ stack = <<Frame(0, 0)>>
  /\ added = FALSE
  /\ given_up = FALSE

Advanced == [stack EXCEPT ![Len(stack)].i = @ + 1]

(* At an entry of a table, those of the first two in the primary table     *)
(* that start outside of the image excepted: they make it invalid.         *)
AtEntry ==
  /\ phase = "loading"
  /\ Top.i > 0 /\ Top.i <= Len(disk[Top.sect_cur])
  /\ Primary /\ Top.i <= 2 /\ Entry.size > 0 => Entry.start <= max_addr

ReadTable ==
  /\ phase = "loading" /\ Top.i = 0
  /\ Top.sect_cur \in DOMAIN disk
  /\ Add(Volume(Top.sect_cur, 1, "META"))
  /\ stack' = Advanced
  /\ UNCHANGED <<cur, prev_end, phase, disk, added, given_up>>

SkipUnused ==
  /\ AtEntry /\ Entry.size = 0
  /\ stack' = Advanced
  /\ UNCHANGED <<partVars, disk, added, given_up>>

(* Mutant: a logical partition starts relative to the extended partition.  *)
PartStartFromBase == Top.sect_ext_base + Entry.start

(* A partition starts relative to its own table. *)
PartStart == Top.sect_cur + Entry.start

AddPartition ==
  /\ AtEntry /\ Entry.size > 0 /\ ~Entry.ext
  /\ Add(Volume(PartStart, Entry.size, "ALLOC"))
  /\ stack' = Advanced
  /\ added' = TRUE
  /\ UNCHANGED <<cur, prev_end, phase, disk, given_up>>

(* A nested table is relative to the first extended one, whose own start   *)
(* is relative to the primary table; only nested ones are ignored if they  *)
(* start outside of the image.                                             *)
AddExtended ==
  LET start == Top.sect_ext_base + Entry.start
      base  == IF Primary THEN start ELSE Top.sect_ext_base
  IN  /\ AtEntry /\ Entry.size > 0 /\ Entry.ext
      /\ Add(Volume(start, Entry.size, "META"))
      /\ stack' = IF ~Primary /\ start > max_addr THEN Advanced
                  ELSE Append(Advanced, Frame(start, base))
      /\ added' = TRUE
      /\ UNCHANGED <<cur, prev_end, phase, disk, given_up>>

Return ==
  /\ phase = "loading" /\ Top.i > 0 /\ Top.i > Len(disk[Top.sect_cur])
  /\ \/ ~Primary /\ stack' = SubSeq(stack, 1, Len(stack) - 1)
                 /\ UNCHANGED partVars
     \/ Primary /\ added /\ Loaded /\ UNCHANGED stack
  /\ UNCHANGED <<disk, added, given_up>>

(* Mutant: the rest of the primary table is given up as well. *)
GivenUpPrimary == <<[stack[1] EXCEPT !.i = Len(disk[0]) + 1]>>

GivenUp == SubSeq(stack, 1, 1)

(* A sector cannot be read or is no table, or no memory is left. *)
GiveUp ==
  /\ phase = "loading" /\ ~Primary
  /\ stack' = GivenUp
  /\ given_up' = TRUE
  /\ UNCHANGED <<partVars, disk, added>>

LoadStep == \/ ReadTable \/ SkipUnused \/ AddPartition \/ AddExtended
            \/ Return \/ GiveUp

Next ==
  \/ LoadStep
  \/ (FillBefore \/ FillTail \/ Close) /\ UNCHANGED <<disk, stack, added, given_up>>

Spec == Init /\ [][Next]_vars

-----------------------------------------------------------------------------
Used(sect, ext) ==
  IF sect \notin DOMAIN disk THEN {}
  ELSE {disk[sect][i] : i \in {j \in 1 .. Len(disk[sect]) :
                                 disk[sect][j].size > 0 /\ disk[sect][j].ext = ext}}

(* The tables that nest to depth n, each with the base of its chain *)
Nested[n \in Nat] ==
  IF n = 0 THEN {[sect |-> e.start, base |-> e.start] : e \in Used(0, TRUE)}
  ELSE {[sect |-> c.t.base + c.e.start, base |-> c.t.base] :
          c \in {d \in UNION {{[t |-> t, e |-> e] : e \in Used(t.sect, TRUE)} :
                                t \in Nested[n - 1]} :
                   d.t.base + d.e.start <= max_addr}}

Extent(base, e) == [start |-> base + e.start, len |-> e.size]
PrimaryPartitions == {Extent(0, e) : e \in Used(0, FALSE)}
LogicalPartitions ==
  UNION {{Extent(t.sect, e) : e \in Used(t.sect, FALSE)} :
           t \in UNION {Nested[n] : n \in 0 .. Len(parts)}}
Partitions == {[start |-> v.start, len |-> v.len] : v \in Having("ALLOC")}

(* dos.c:986 "Error loading extended table, moving on": whatever happens   *)
(* in the extended tables, all partitions of the primary table are there.  *)
PrimaryKept ==
  phase \in {"filling", "open"} => PrimaryPartitions \subseteq Partitions

(* The partitions are those of the tables, at their places on the disk:    *)
(* all of them if every table could be loaded, and never any other.        *)
PartitionsExact ==
  phase # "closed" =>
    /\ Partitions \subseteq PrimaryPartitions \union LogicalPartitions
    /\ phase # "loading" /\ ~given_up => LogicalPartitions \subseteq Partitions
=============================================================================
