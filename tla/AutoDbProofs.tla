---------------------------- MODULE AutoDbProofs ----------------------------
(***************************************************************************)
(* For every number of additions, images, faults and crashes: what is in a *)
(* case is what was committed (AutoDb!Transactional).  The argument is     *)
(* that at most one addition is under way; while the savepoint is open,    *)
(* all that is not committed is of that addition, and all of that addition *)
(* is not committed; and once it is no longer open, another start has      *)
(* exposed the addition.  Then, that a stop is heeded (AutoDb!StopHeeded), *)
(* and that an addition that answers 0 is complete (AutoDb!CompleteIfOk):  *)
(* as long as nothing failed, what has been added is told by the place the *)
(* addition has come to.  Last, that free space is shown exactly           *)
(* (AutoDb!UnallocExact): the walk of the free blocks keeps what it has    *)
(* shown, what it collects and the range it is in, block by block          *)
(* (Collected), and the database lists what has been found (Shows).  A     *)
(* root that cannot be opened is passed over without an error, and comes   *)
(* to light when the free blocks of its file system are added: until then  *)
(* each file system walked so far has its root, or an error is remembered  *)
(* (SeenRoots), which AdditionsComplete needs too.                         *)
(***************************************************************************)
EXTENDS AutoDb, FiniteSetTheorems, SequenceTheorems, WellFoundedInduction, TLAPS

(* The additions that may insert rows, commit and revert *)
Active(a) == Unfinished(a) /\ auto[a].open

Places == {"new", "open", "not opened", "vs", "area", "fs", "files", "fs done",
           "found", "fs space", "next fs", "blocks", "vs space", "volumes",
           "image space", "returned", "gone"}

Outcomes == {"none", "committed", "reverted", "failed", "crashed"}

Autos == [open : BOOLEAN, stop : {"no", "files", "all"}, found : BOOLEAN, errors : BOOLEAN]

IsCase(d) ==
  /\ d.open \in BOOLEAN
  /\ d.open => d.committed \subseteq d.tx
  /\ ~d.open => d.tx = {}

SteeringTypeOK ==
  /\ at \in [Additions -> Places]
  /\ auto \in [Additions -> Autos]
  /\ outcome \in [Additions -> Outcomes]
  /\ written = [a \in Additions |-> written[a]]

RunningIsActive == \A a \in Additions : Running(a) => Active(a)

OneActive == \A a, b \in Additions : Active(a) /\ Active(b) => a = b

(* What is not committed is of the active addition, and all of it. *)
ActiveInside ==
  \A a \in Additions : Active(a) /\ db.open =>
    /\ written[a] \subseteq db.tx
    /\ RowsOf(a, db.committed) = {}
    /\ \A row \in db.tx \ db.committed : row.of = a

ActiveExposed == \A a \in Additions : Active(a) /\ ~db.open => a \in exposed

(* Whoever has not started has left no trace. *)
NewIsClean ==
  \A a \in Additions : at[a] = "new" =>
    /\ outcome[a] = "none" /\ ~auto[a].open
    /\ written[a] = {} /\ RowsOf(a, db.committed \union db.tx) = {}

CaseInv ==
  /\ IsCase(db) /\ SteeringTypeOK
  /\ RunningIsActive /\ OneActive
  /\ ActiveInside /\ ActiveExposed /\ NewIsClean
  /\ Transactional
-----------------------------------------------------------------------------
(* What the statements of db_sqlite.cpp do to a case. *)
LEMMA InsertedCase ==
  ASSUME NEW d, IsCase(d), NEW row
  PROVE  /\ IsCase(Inserted(d, row)) /\ Inserted(d, row).open = d.open
         /\ d.open => /\ Inserted(d, row).committed = d.committed
                      /\ Inserted(d, row).tx = d.tx \union {row}
         /\ ~d.open => /\ Inserted(d, row).committed = d.committed \union {row}
                       /\ Inserted(d, row).tx = {}
<1>1. CASE d.open
  BY <1>1 DEF IsCase, Inserted, Case
<1>2. CASE ~d.open
  BY <1>2 DEF IsCase, Inserted, Case
<1> QED
  BY <1>1, <1>2

LEMMA CreatedCase ==
  ASSUME NEW d, IsCase(d)
  PROVE  /\ IsCase(Created(d)) /\ Created(d).open
         /\ Created(d).committed = d.committed /\ Created(d).tx = d.committed
  BY DEF IsCase, Created, Case

LEMMA ReleasedCase ==
  ASSUME NEW d, IsCase(d), d.open
  PROVE  /\ IsCase(Released(d)) /\ ~Released(d).open
         /\ Released(d).committed = d.tx /\ Released(d).tx = {}
  BY DEF IsCase, Released, Case, NoRows

LEMMA RolledBackCase ==
  ASSUME NEW d, IsCase(d), d.open
  PROVE  /\ IsCase(RolledBack(d)) /\ RolledBack(d).open
         /\ RolledBack(d).committed = d.committed
         /\ RolledBack(d).tx = d.committed
  BY DEF IsCase, RolledBack, Case

LEMMA RevertedCase ==
  ASSUME NEW d, IsCase(d), d.open
  PROVE  /\ IsCase(Reverted(d)) /\ ~Reverted(d).open
         /\ Reverted(d).committed = d.committed /\ Reverted(d).tx = {}
  BY RolledBackCase, ReleasedCase DEF Reverted

LEMMA RecoveredCase ==
  ASSUME NEW d, IsCase(d)
  PROVE  /\ IsCase(Recovered(d)) /\ ~Recovered(d).open
         /\ Recovered(d).committed = d.committed /\ Recovered(d).tx = {}
  BY DEF IsCase, Recovered, Case, NoRows

(* Before anything is added the case is empty. *)
LEMMA InitCaseInv == Init => CaseInv
<1> SUFFICES ASSUME Init PROVE CaseInv
  OBVIOUS
<1>1. IsCase(db) /\ db.committed = {} /\ db.tx = {} /\ ~db.open
  <2>1. db = [committed |-> {}, open |-> FALSE, tx |-> {}]
    BY DEF Init, Empty, Case, NoRows
  <2> QED
    BY <2>1 DEF IsCase
<1>2. SteeringTypeOK
  <2>1. NewAuto \in Autos
    BY DEF NewAuto, Autos
  <2> QED
    BY <2>1 DEF Init, SteeringTypeOK, Places, Outcomes
<1>3. \A a \in Additions : at[a] = "new" /\ outcome[a] = "none" /\ ~auto[a].open
                           /\ written[a] = {} /\ ~Active(a) /\ ~Running(a)
  BY DEF Init, NewAuto, Active, Unfinished, Running
<1> QED
  BY <1>1, <1>2, <1>3
     DEF CaseInv, RunningIsActive, OneActive, ActiveInside, ActiveExposed,
         NewIsClean, Transactional, RowsOf

(* Most steps of an addition insert a row of its own, or none, and leave    *)
(* alone who may: one lemma for all of them.                                *)
Moves(a) == at' = at \/ \E l \in Places \ {"new", "gone"} : at' = [at EXCEPT ![a] = l]

Steers(a) ==
  /\ auto' \in [Additions -> Autos]
  /\ \A b \in Additions : auto'[b].open = auto[b].open /\ (StopAll(b) => StopAll(b)')

Inserts(a) ==
  \/ UNCHANGED <<db, written>>
  \/ \E row : /\ row.of = a
              /\ db' = Inserted(db, row)
              /\ written' = [written EXCEPT ![a] = @ \union {row}]

Inner(a) ==
  /\ Running(a) /\ Moves(a) /\ Steers(a) /\ Inserts(a)
  /\ UNCHANGED <<outcome, exposed>>

LEMMA InnerKeepsCaseInv ==
  ASSUME CaseInv, NEW a \in Additions, Inner(a)
  PROVE  CaseInv'
<1> USE DEF CaseInv, Moves, Steers, Inserts
<1>1. IsCase(db')
  BY InsertedCase DEF Inner
<1>2. SteeringTypeOK'
  BY DEF Inner, SteeringTypeOK
<1>3. /\ Active(a) /\ at[a] # "new" /\ at'[a] # "new" /\ outcome[a] = "none"
      /\ \A b \in Additions \ {a} : at'[b] = at[b] /\ written'[b] = written[b]
  BY DEF Inner, SteeringTypeOK, Running, RunningIsActive, Active, Unfinished
<1>4. \A b \in Additions : (Active(b)' <=> Active(b)) /\ (at'[b] = "new" <=> at[b] = "new")
  BY <1>3 DEF Inner, Active, Unfinished
<1>5. RunningIsActive'
  BY <1>3, <1>4 DEF RunningIsActive, Running
<1>6. OneActive'
  BY <1>4 DEF OneActive
<1>7. \A b \in Additions : Active(b) => b = a
  BY <1>3 DEF OneActive
<1>8. CASE UNCHANGED <<db, written>>
  BY <1>1, <1>2, <1>4, <1>5, <1>6, <1>8
     DEF Inner, ActiveInside, ActiveExposed, NewIsClean, Transactional, RowsOf
<1>9. ASSUME NEW row, row.of = a, db' = Inserted(db, row),
             written' = [written EXCEPT ![a] = @ \union {row}]
      PROVE  CaseInv'
  <2>1. written'[a] = written[a] \union {row}
    BY <1>9 DEF SteeringTypeOK
  <2>2. /\ db'.open = db.open
        /\ db.open => db'.committed = db.committed /\ db'.tx = db.tx \union {row}
        /\ ~db.open => db'.committed = db.committed \union {row} /\ db'.tx = {}
    BY <1>9, InsertedCase
  <2>3. \A b \in Additions \ {a} :
          RowsOf(b, db'.committed) = RowsOf(b, db.committed)
    BY <1>9, <2>2 DEF RowsOf
  <2>4. \A b \in Additions \ {a} :
          RowsOf(b, db'.committed \union db'.tx) = RowsOf(b, db.committed \union db.tx)
    BY <1>9, <2>2 DEF RowsOf, IsCase
  <2>5. ActiveInside'
    BY <1>4, <1>7, <1>9, <2>1, <2>2 DEF ActiveInside, RowsOf
  <2>6. ActiveExposed'
    BY <1>4, <2>2 DEF ActiveExposed, Inner
  <2>7. NewIsClean'
    BY <1>3, <1>4, <2>4 DEF NewIsClean, Inner
  <2>8. Transactional'
    <3>1. db.committed \subseteq db'.committed
      BY <2>2
    <3>2. ~db.open => a \in exposed
      BY <1>3 DEF ActiveExposed
    <3>3. db.open => RowsOf(a, db'.committed) = {}
      BY <1>3, <2>2 DEF ActiveInside
    <3> QED
      BY <1>3, <2>3, <2>4, <3>1, <3>2, <3>3 DEF Transactional, Inner
  <2> QED
    BY <1>1, <1>2, <1>5, <1>6, <2>5, <2>6, <2>7, <2>8
<1> QED
  BY <1>8, <1>9 DEF Inner

LEMMA MovesBy ==
  ASSUME NEW a \in Additions
  PROVE  /\ UNCHANGED at => Moves(a)
         /\ \A l \in Places \ {"new", "gone"} : Goto(a, l) => Moves(a)
  BY DEF Moves, Goto

LEMMA SteersBy ==
  ASSUME SteeringTypeOK, NEW a \in Additions
  PROVE  /\ UNCHANGED auto => Steers(a)
         /\ Register(a) => Steers(a)
         /\ auto' = [auto EXCEPT ![a].found = TRUE] => Steers(a)
         /\ auto' = [auto EXCEPT ![a].found = TRUE, ![a].errors = TRUE] => Steers(a)
         /\ \A s \in {"files", "all"} :
              ~StopAll(a) /\ auto' = [auto EXCEPT ![a].stop = s] => Steers(a)
<1> USE DEF SteeringTypeOK, Autos, Steers, StopAll
<1>1. UNCHANGED auto => Steers(a)
  OBVIOUS
<1>2. Register(a) => Steers(a)
  <2>1. [auto[a] EXCEPT !.errors = TRUE] \in Autos
    OBVIOUS
  <2>2. /\ [auto[a] EXCEPT !.errors = TRUE].open = auto[a].open
        /\ [auto[a] EXCEPT !.errors = TRUE].stop = auto[a].stop
    OBVIOUS
  <2> QED
    BY <2>1, <2>2 DEF Register
<1>3. auto' = [auto EXCEPT ![a].found = TRUE] => Steers(a)
  <2>1. [auto[a] EXCEPT !.found = TRUE] \in Autos
    OBVIOUS
  <2>2. /\ [auto[a] EXCEPT !.found = TRUE].open = auto[a].open
        /\ [auto[a] EXCEPT !.found = TRUE].stop = auto[a].stop
    OBVIOUS
  <2> QED
    BY <2>1, <2>2
<1>4. auto' = [auto EXCEPT ![a].found = TRUE, ![a].errors = TRUE] => Steers(a)
  <2>1. [auto[a] EXCEPT !.found = TRUE, !.errors = TRUE] \in Autos
    OBVIOUS
  <2>2. /\ [auto[a] EXCEPT !.found = TRUE, !.errors = TRUE].open = auto[a].open
        /\ [auto[a] EXCEPT !.found = TRUE, !.errors = TRUE].stop = auto[a].stop
    OBVIOUS
  <2> QED
    BY <2>1, <2>2
<1>5. \A s \in {"files", "all"} :
        ~StopAll(a) /\ auto' = [auto EXCEPT ![a].stop = s] => Steers(a)
  OBVIOUS
<1> QED
  BY <1>1, <1>2, <1>3, <1>4, <1>5

(* Rows are of the addition that makes them. *)
LEMMA InsertsBy ==
  ASSUME NEW a \in Additions
  PROVE  /\ UNCHANGED db /\ UNCHANGED written => Inserts(a)
         /\ NoInsert => Inserts(a)
         /\ \A what, i, n : Insert(a, Row(a, what, i, n)) => Inserts(a)
         /\ \A i, ranges : Insert(a, FreeRow(a, i, ranges)) => Inserts(a)
<1>1. \A row : row.of = a /\ Insert(a, row) => Inserts(a)
  BY DEF Insert, Inserts
<1>2. \A what, i, n : Row(a, what, i, n).of = a
  BY DEF Row
<1>3. \A i, ranges : FreeRow(a, i, ranges).of = a
  BY DEF Row, FreeRow
<1>4. UNCHANGED db /\ UNCHANGED written => Inserts(a)
  BY DEF Inserts
<1>5. NoInsert => Inserts(a)
  BY DEF NoInsert, Inserts
<1> QED
  BY <1>1, <1>2, <1>3, <1>4, <1>5

(* All that an addition does between start and end, and stopAddImage. *)
InnerStep(a) ==
  \/ OpenImage(a) \/ VolumeSystem(a) \/ NoMoreAreas(a) \/ SkipMeta(a)
  \/ Volume(a) \/ NoFileSystem(a) \/ FileSystem(a) \/ File(a)
  \/ FilesEnd(a) \/ WalkFails(a) \/ FsDone(a) \/ Found(a)
  \/ FsSpace(a) \/ NoMoreFs(a) \/ OpenFs(a) \/ Block(a)
  \/ BlocksEnd(a) \/ BlocksStop(a) \/ BlocksFail(a) \/ VsSpace(a)
  \/ NoMoreVolumes(a) \/ VolumeSpace(a) \/ ImageSpace(a) \/ StopAddImage(a)

LEMMA InnerSteps ==
  ASSUME CaseInv, NEW a \in Additions, InnerStep(a)
  PROVE  Inner(a)
<1> USE DEF ended
<1>0. SteeringTypeOK
  BY DEF CaseInv
<1>1. CASE OpenImage(a)
  <2>1. Running(a) /\ UNCHANGED <<outcome, exposed>>
    BY <1>1 DEF Running, OpenImage
  <2>2. Moves(a)
    BY <1>1, MovesBy DEF Places, OpenImage, Return
  <2>3. Steers(a)
    BY <1>0, <1>1, SteersBy DEF OpenImage
  <2>4. Inserts(a)
    BY <1>1, InsertsBy DEF OpenImage
  <2> QED
    BY <2>1, <2>2, <2>3, <2>4 DEF Inner
<1>2. CASE VolumeSystem(a)
  <2>1. Running(a) /\ UNCHANGED <<outcome, exposed>>
    BY <1>2 DEF Running, VolumeSystem
  <2>2. Moves(a)
    BY <1>2, MovesBy DEF Places, VolumeSystem
  <2>3. Steers(a)
    BY <1>0, <1>2, SteersBy DEF VolumeSystem
  <2>4. Inserts(a)
    BY <1>2, InsertsBy DEF VolumeSystem
  <2> QED
    BY <2>1, <2>2, <2>3, <2>4 DEF Inner
<1>3. CASE NoMoreAreas(a)
  <2>1. Running(a) /\ UNCHANGED <<outcome, exposed>>
    BY <1>3 DEF Running, NoMoreAreas, GiveUp
  <2>2. Moves(a)
    BY <1>3, MovesBy DEF Places, NoMoreAreas, GiveUp
  <2>3. Steers(a)
    BY <1>0, <1>3, SteersBy DEF NoMoreAreas, GiveUp
  <2>4. Inserts(a)
    BY <1>3, InsertsBy DEF NoMoreAreas, GiveUp
  <2> QED
    BY <2>1, <2>2, <2>3, <2>4 DEF Inner
<1>4. CASE SkipMeta(a)
  <2>1. Running(a) /\ UNCHANGED <<outcome, exposed>>
    BY <1>4 DEF Running, SkipMeta, NextArea
  <2>2. Moves(a)
    BY <1>4, MovesBy DEF Places, SkipMeta, NextArea
  <2>3. Steers(a)
    BY <1>0, <1>4, SteersBy DEF SkipMeta, NextArea
  <2>4. Inserts(a)
    BY <1>4, InsertsBy DEF SkipMeta, NextArea
  <2> QED
    BY <2>1, <2>2, <2>3, <2>4 DEF Inner
<1>5. CASE Volume(a)
  <2>1. Running(a) /\ UNCHANGED <<outcome, exposed>>
    BY <1>5 DEF Running, Volume
  <2>2. Moves(a)
    BY <1>5, MovesBy DEF Places, Volume
  <2>3. Steers(a)
    BY <1>0, <1>5, SteersBy DEF Volume
  <2>4. Inserts(a)
    BY <1>5, InsertsBy DEF Volume
  <2> QED
    BY <2>1, <2>2, <2>3, <2>4 DEF Inner
<1>6. CASE NoFileSystem(a)
  <2>1. Running(a) /\ UNCHANGED <<outcome, exposed>>
    BY <1>6 DEF Running, NoFileSystem, LeaveFs
  <2>2. Moves(a)
    BY <1>6, MovesBy DEF Places, NoFileSystem, LeaveFs
  <2>3. Steers(a)
    BY <1>0, <1>6, SteersBy DEF NoFileSystem, LeaveFs
  <2>4. Inserts(a)
    BY <1>6, InsertsBy DEF NoFileSystem, LeaveFs
  <2> QED
    BY <2>1, <2>2, <2>3, <2>4 DEF Inner
<1>7. CASE FileSystem(a)
  <2>1. Running(a) /\ UNCHANGED <<outcome, exposed>>
    BY <1>7 DEF Running, FileSystem
  <2>2. Moves(a)
    BY <1>7, MovesBy DEF Places, FileSystem
  <2>3. Steers(a)
    BY <1>0, <1>7, SteersBy DEF FileSystem
  <2>4. Inserts(a)
    BY <1>7, InsertsBy DEF FileSystem
  <2> QED
    BY <2>1, <2>2, <2>3, <2>4 DEF Inner
<1>8. CASE File(a)
  <2>1. Running(a) /\ UNCHANGED <<outcome, exposed>>
    BY <1>8 DEF Running, File
  <2>2. Moves(a)
    BY <1>8, MovesBy DEF Places, File
  <2>3. Steers(a)
    BY <1>0, <1>8, SteersBy DEF File
  <2>4. Inserts(a)
    BY <1>8, InsertsBy DEF File
  <2> QED
    BY <2>1, <2>2, <2>3, <2>4 DEF Inner
<1>9. CASE FilesEnd(a)
  <2>1. Running(a) /\ UNCHANGED <<outcome, exposed>>
    BY <1>9 DEF Running, FilesEnd, LeaveFs
  <2>2. Moves(a)
    BY <1>9, MovesBy DEF Places, FilesEnd, LeaveFs
  <2>3. Steers(a)
    BY <1>0, <1>9, SteersBy DEF FilesEnd, LeaveFs
  <2>4. Inserts(a)
    BY <1>9, InsertsBy DEF FilesEnd, LeaveFs
  <2> QED
    BY <2>1, <2>2, <2>3, <2>4 DEF Inner
<1>10. CASE WalkFails(a)
  <2>1. Running(a) /\ UNCHANGED <<outcome, exposed>>
    BY <1>10 DEF Running, WalkFails, LeaveFs
  <2>2. Moves(a)
    BY <1>10, MovesBy DEF Places, WalkFails, LeaveFs
  <2>3. Steers(a)
    BY <1>0, <1>10, SteersBy DEF WalkFails, LeaveFs
  <2>4. Inserts(a)
    BY <1>10, InsertsBy DEF WalkFails, LeaveFs
  <2> QED
    BY <2>1, <2>2, <2>3, <2>4 DEF Inner
<1>11. CASE FsDone(a)
  <2>1. Running(a) /\ UNCHANGED <<outcome, exposed>>
    BY <1>11 DEF Running, FsDone, AfterFs, NextArea, GiveUp
  <2>2. Moves(a)
    BY <1>11, MovesBy DEF Places, FsDone, AfterFs, NextArea, GiveUp
  <2>3. Steers(a)
    BY <1>0, <1>11, SteersBy DEF FsDone, AfterFs, NextArea, GiveUp
  <2>4. Inserts(a)
    BY <1>11, InsertsBy DEF FsDone, AfterFs, NextArea, GiveUp
  <2> QED
    BY <2>1, <2>2, <2>3, <2>4 DEF Inner
<1>12. CASE Found(a)
  <2>1. Running(a) /\ UNCHANGED <<outcome, exposed>>
    BY <1>12 DEF Running, Found
  <2>2. Moves(a)
    BY <1>12, MovesBy DEF Places, Found
  <2>3. Steers(a)
    BY <1>0, <1>12, SteersBy DEF Found
  <2>4. Inserts(a)
    BY <1>12, InsertsBy DEF Found
  <2> QED
    BY <2>1, <2>2, <2>3, <2>4 DEF Inner
<1>13. CASE FsSpace(a)
  <2>1. Running(a) /\ UNCHANGED <<outcome, exposed>>
    BY <1>13 DEF Running, FsSpace
  <2>2. Moves(a)
    BY <1>13, MovesBy DEF Places, FsSpace
  <2>3. Steers(a)
    BY <1>0, <1>13, SteersBy DEF FsSpace
  <2>4. Inserts(a)
    BY <1>13, InsertsBy DEF FsSpace
  <2> QED
    BY <2>1, <2>2, <2>3, <2>4 DEF Inner
<1>14. CASE NoMoreFs(a)
  <2>1. Running(a) /\ UNCHANGED <<outcome, exposed>>
    BY <1>14 DEF Running, NoMoreFs
  <2>2. Moves(a)
    BY <1>14, MovesBy DEF Places, NoMoreFs
  <2>3. Steers(a)
    BY <1>0, <1>14, SteersBy DEF NoMoreFs
  <2>4. Inserts(a)
    BY <1>14, InsertsBy DEF NoMoreFs
  <2> QED
    BY <2>1, <2>2, <2>3, <2>4 DEF Inner
<1>15. CASE OpenFs(a)
  <2>1. Running(a) /\ UNCHANGED <<outcome, exposed>>
    BY <1>15 DEF Running, OpenFs
  <2>2. Moves(a)
    BY <1>15, MovesBy DEF Places, OpenFs
  <2>3. Steers(a)
    BY <1>0, <1>15, SteersBy DEF OpenFs
  <2>4. Inserts(a)
    BY <1>15, InsertsBy DEF OpenFs
  <2> QED
    BY <2>1, <2>2, <2>3, <2>4 DEF Inner
<1>16. CASE Block(a)
  <2>1. Running(a) /\ UNCHANGED <<outcome, exposed>>
    BY <1>16 DEF Running, Block
  <2>2. Moves(a)
    BY <1>16, MovesBy DEF Places, Block
  <2>3. Steers(a)
    BY <1>0, <1>16, SteersBy DEF Block
  <2>4. Inserts(a)
    BY <1>16, InsertsBy DEF Block
  <2> QED
    BY <2>1, <2>2, <2>3, <2>4 DEF Inner
<1>17. CASE BlocksEnd(a)
  <2>1. Running(a) /\ UNCHANGED <<outcome, exposed>>
    BY <1>17 DEF Running, BlocksEnd
  <2>2. Moves(a)
    BY <1>17, MovesBy DEF Places, BlocksEnd
  <2>3. Steers(a)
    BY <1>0, <1>17, SteersBy DEF BlocksEnd
  <2>4. Inserts(a)
    BY <1>17, InsertsBy DEF BlocksEnd
  <2> QED
    BY <2>1, <2>2, <2>3, <2>4 DEF Inner
<1>18. CASE BlocksStop(a)
  <2>1. Running(a) /\ UNCHANGED <<outcome, exposed>>
    BY <1>18 DEF Running, BlocksStop
  <2>2. Moves(a)
    BY <1>18, MovesBy DEF Places, BlocksStop
  <2>3. Steers(a)
    BY <1>0, <1>18, SteersBy DEF BlocksStop
  <2>4. Inserts(a)
    BY <1>18, InsertsBy DEF BlocksStop
  <2> QED
    BY <2>1, <2>2, <2>3, <2>4 DEF Inner
<1>19. CASE BlocksFail(a)
  <2>1. Running(a) /\ UNCHANGED <<outcome, exposed>>
    BY <1>19 DEF Running, BlocksFail
  <2>2. Moves(a)
    BY <1>19, MovesBy DEF Places, BlocksFail
  <2>3. Steers(a)
    BY <1>0, <1>19, SteersBy DEF BlocksFail
  <2>4. Inserts(a)
    BY <1>19, InsertsBy DEF BlocksFail
  <2> QED
    BY <2>1, <2>2, <2>3, <2>4 DEF Inner
<1>20. CASE VsSpace(a)
  <2>1. Running(a) /\ UNCHANGED <<outcome, exposed>>
    BY <1>20 DEF Running, VsSpace
  <2>2. Moves(a)
    BY <1>20, MovesBy DEF Places, VsSpace
  <2>3. Steers(a)
    BY <1>0, <1>20, SteersBy DEF VsSpace
  <2>4. Inserts(a)
    BY <1>20, InsertsBy DEF VsSpace
  <2> QED
    BY <2>1, <2>2, <2>3, <2>4 DEF Inner
<1>21. CASE NoMoreVolumes(a)
  <2>1. Running(a) /\ UNCHANGED <<outcome, exposed>>
    BY <1>21 DEF Running, NoMoreVolumes
  <2>2. Moves(a)
    BY <1>21, MovesBy DEF Places, NoMoreVolumes
  <2>3. Steers(a)
    BY <1>0, <1>21, SteersBy DEF NoMoreVolumes
  <2>4. Inserts(a)
    BY <1>21, InsertsBy DEF NoMoreVolumes
  <2> QED
    BY <2>1, <2>2, <2>3, <2>4 DEF Inner
<1>22. CASE VolumeSpace(a)
  <2>1. Running(a) /\ UNCHANGED <<outcome, exposed>>
    BY <1>22 DEF Running, VolumeSpace
  <2>2. Moves(a)
    BY <1>22, MovesBy DEF Places, VolumeSpace
  <2>3. Steers(a)
    BY <1>0, <1>22, SteersBy DEF VolumeSpace
  <2>4. Inserts(a)
    BY <1>22, InsertsBy DEF VolumeSpace
  <2> QED
    BY <2>1, <2>2, <2>3, <2>4 DEF Inner
<1>23. CASE ImageSpace(a)
  <2>1. Running(a) /\ UNCHANGED <<outcome, exposed>>
    BY <1>23 DEF Running, ImageSpace, Answer, Return
  <2>2. Moves(a)
    BY <1>23, MovesBy DEF Places, ImageSpace, Answer, Return
  <2>3. Steers(a)
    BY <1>0, <1>23, SteersBy DEF ImageSpace, Answer, Return
  <2>4. Inserts(a)
    BY <1>23, InsertsBy DEF ImageSpace, Answer, Return
  <2> QED
    BY <2>1, <2>2, <2>3, <2>4 DEF Inner
<1>24. CASE StopAddImage(a)
  <2>1. Running(a) /\ UNCHANGED <<outcome, exposed>>
    BY <1>24 DEF Running, StopAddImage
  <2>2. Moves(a)
    BY <1>24, MovesBy DEF Places, StopAddImage
  <2>3. Steers(a)
    BY <1>0, <1>24, SteersBy DEF StopAddImage, StopAll
  <2>4. Inserts(a)
    BY <1>24, InsertsBy DEF StopAddImage
  <2> QED
    BY <2>1, <2>2, <2>3, <2>4 DEF Inner
<1> QED
  BY <1>1, <1>2, <1>3, <1>4, <1>5, <1>6, <1>7, <1>8, <1>9, <1>10, <1>11, <1>12, <1>13, <1>14, <1>15, <1>16, <1>17, <1>18, <1>19, <1>20, <1>21, <1>22, <1>23, <1>24 DEF InnerStep

(* A start that finds a savepoint exposes the addition that has set it. *)
LEMMA StartRefusedKeepsCaseInv ==
  ASSUME CaseInv, NEW a \in Additions, StartRefused(a)
  PROVE  CaseInv'
<1> USE DEF CaseInv, StartRefused, MayStart, Return, Goto
<1>1. /\ at[a] = "new" /\ at'[a] = "returned" /\ outcome[a] = "none"
      /\ ~auto[a].open /\ db.open
      /\ \A b \in Additions \ {a} : at'[b] = at[b]
      /\ UNCHANGED <<auto, outcome, written>>
  BY DEF SteeringTypeOK, NewIsClean
<1>2. SteeringTypeOK'
  BY <1>1 DEF SteeringTypeOK, Places
<1>3. \A b \in Additions : (Active(b)' <=> Active(b)) /\ (Running(b)' => Running(b))
  BY <1>1 DEF Active, Unfinished, Running
<1>4. RunningIsActive' /\ OneActive'
  BY <1>3 DEF RunningIsActive, OneActive
<1>5. CASE UNCHANGED <<db, exposed>>
  BY <1>1, <1>2, <1>3, <1>4, <1>5
     DEF ActiveInside, ActiveExposed, NewIsClean, Transactional, RowsOf
<1>6. CASE db' = Released(db) /\ exposed' = exposed \union Uncommitted
  <2>1. /\ IsCase(db') /\ ~db'.open /\ db'.committed = db.tx /\ db'.tx = {}
        /\ db.committed \subseteq db.tx
    BY <1>1, <1>6, ReleasedCase DEF IsCase
  <2>2. \A b \in Additions : Active(b) => b \in exposed'
    BY <1>6 DEF Uncommitted, Active
  <2>3. \A b \in Additions : RowsOf(b, db.tx) # {} => RowsOf(b, db.committed) # {} \/ b \in exposed'
    BY <1>6 DEF Uncommitted, RowsOf
  <2>4. Transactional'
    BY <1>1, <1>6, <2>1, <2>3 DEF Transactional, RowsOf
  <2>5. NewIsClean'
    BY <1>1, <2>1 DEF NewIsClean, RowsOf
  <2>6. ActiveInside' /\ ActiveExposed'
    BY <1>3, <2>1, <2>2 DEF ActiveInside, ActiveExposed
  <2> QED
    BY <1>2, <1>4, <2>1, <2>4, <2>5, <2>6
<1> QED
  BY <1>5, <1>6

(* A start of its own is the only addition under way. *)
LEMMA StartKeepsCaseInv ==
  ASSUME CaseInv, NEW a \in Additions, Start(a)
  PROVE  CaseInv'
<1> USE DEF CaseInv, Start, MayStart, Return, Goto, ended
<1>1. /\ at[a] = "new" /\ outcome[a] = "none" /\ ~auto[a].open /\ ~db.open
      /\ at'[a] \in {"open", "returned"}
      /\ at' \in [Additions -> Places]
      /\ \A b \in Additions \ {a} : at'[b] = at[b] /\ auto'[b] = auto[b]
      /\ UNCHANGED <<outcome, written, exposed>>
  BY DEF SteeringTypeOK, NewIsClean, Places
<1>2. \A b \in Additions \ {a} : ~Active(b)' /\ ~Running(b)' /\ ~Active(b)
  <2>1. \A b \in Additions : ~Unfinished(b)
    BY <1>1
  <2>2. \A b \in Additions : ~Running(b)
    BY <2>1 DEF RunningIsActive, Active
  <2> QED
    BY <1>1, <2>1, <2>2 DEF Active, Unfinished, Running
<1>3. CASE db' = Created(db) /\ auto' = [auto EXCEPT ![a].open = TRUE] /\ Goto(a, "open")
  <2>1. /\ IsCase(db') /\ db'.open /\ db'.committed = db.committed
        /\ db'.tx = db.committed /\ db.tx = {}
    BY <1>1, <1>3, CreatedCase DEF IsCase
  <2>2. [auto[a] EXCEPT !.open = TRUE] \in Autos /\ [auto[a] EXCEPT !.open = TRUE].open
    <3>1. auto[a] \in Autos
      BY DEF SteeringTypeOK
    <3>2. [auto[a] EXCEPT !.open = TRUE] \in Autos
      BY <3>1 DEF Autos
    <3>3. [auto[a] EXCEPT !.open = TRUE].open = TRUE
      BY <3>1 DEF Autos
    <3> QED
      BY <3>2, <3>3
  <2>3. SteeringTypeOK'
    BY <1>1, <1>3, <2>2 DEF SteeringTypeOK
  <2>4. auto'[a].open /\ at'[a] = "open"
    BY <1>3, <2>2 DEF SteeringTypeOK
  <2>5. Active(a)'
    BY <1>1, <2>4 DEF Active, Unfinished
  <2>6. RunningIsActive' /\ OneActive' /\ ActiveExposed'
    BY <1>2, <2>1, <2>5 DEF RunningIsActive, OneActive, ActiveExposed
  <2>7. ActiveInside'
    BY <1>1, <1>2, <2>1 DEF ActiveInside, NewIsClean, RowsOf
  <2>8. NewIsClean'
    BY <1>1, <2>1, <2>4 DEF NewIsClean, RowsOf
  <2>9. Transactional'
    BY <1>1, <2>1 DEF Transactional, RowsOf
  <2> QED
    BY <2>1, <2>3, <2>6, <2>7, <2>8, <2>9
<1>4. CASE Return(a, 1) /\ UNCHANGED <<db, auto>>
  <2>1. ~Active(a)' /\ at'[a] = "returned"
    BY <1>1, <1>4 DEF Active, SteeringTypeOK
  <2>2. SteeringTypeOK'
    BY <1>1, <1>4 DEF SteeringTypeOK
  <2>3. RunningIsActive' /\ OneActive' /\ ActiveExposed' /\ ActiveInside'
    BY <1>2, <2>1 DEF RunningIsActive, OneActive, ActiveExposed, ActiveInside, Running
  <2>4. NewIsClean' /\ Transactional'
    BY <1>1, <1>4, <2>1 DEF NewIsClean, Transactional, RowsOf
  <2> QED
    BY <1>4, <2>2, <2>3, <2>4
<1> QED
  BY <1>3, <1>4

(* What ends an addition leaves none under way.                             *)
LEMMA EndIsLast ==
  ASSUME CaseInv, NEW a \in Additions, Unfinished(a),
         (\E b \in Additions : Active(b)) => Active(a),
         NEW how \in Outcomes \ {"none"}, End(a, how),
         at' \in [Additions -> Places], at'[a] = "returned",
         \A b \in Additions \ {a} : at'[b] = at[b],
         auto' \in [Additions -> Autos],
         \A b \in Additions \ {a} : auto'[b] = auto[b],
         UNCHANGED <<written, exposed>>, IsCase(db'), Transactional',
         \A b \in Additions : at[b] = "new" =>
                              RowsOf(b, db'.committed \union db'.tx) = {}
  PROVE  CaseInv'
<1> USE DEF CaseInv, End
<1>1. /\ at[a] # "new" /\ outcome'[a] = how
      /\ \A b \in Additions \ {a} : outcome'[b] = outcome[b]
      /\ outcome' \in [Additions -> Outcomes]
  BY DEF SteeringTypeOK, Unfinished
<1>2. SteeringTypeOK'
  BY <1>1 DEF SteeringTypeOK
<1>3. \A b \in Additions : ~Active(b)' /\ ~Running(b)'
  <2>1. \A b \in Additions \ {a} : ~Active(b)
    BY DEF OneActive
  <2>2. \A b \in Additions \ {a} : ~Running(b)
    BY <2>1 DEF RunningIsActive
  <2>3. \A b \in Additions \ {a} : ~Active(b)' /\ ~Running(b)'
    BY <1>1, <2>1, <2>2 DEF Active, Unfinished, Running
  <2>4. ~Active(a)' /\ ~Running(a)'
    BY <1>1 DEF Active, Unfinished, Running
  <2> QED
    BY <2>3, <2>4
<1>4. NewIsClean'
  BY <1>1 DEF NewIsClean
<1> QED
  BY <1>2, <1>3, <1>4
     DEF RunningIsActive, OneActive, ActiveInside, ActiveExposed

LEMMA ClosedTyped ==
  ASSUME SteeringTypeOK, NEW a \in Additions, Closed(a)
  PROVE  /\ auto' \in [Additions -> Autos]
         /\ \A b \in Additions \ {a} : auto'[b] = auto[b]
<1>1. auto[a] \in Autos
  BY DEF SteeringTypeOK
<1>2. [auto[a] EXCEPT !.open = FALSE] \in Autos
  BY <1>1 DEF Autos
<1> QED
  BY <1>2 DEF Closed, SteeringTypeOK

(* A revert that works leaves nothing of the addition, one that fails at    *)
(* most rows that are not committed or that another start has.              *)
LEMMA RevertKeepsCase ==
  ASSUME CaseInv, NEW a \in Additions, Active(a), NEW how \in {"reverted", "failed"},
         End(a, how), how = "reverted" => RevertWorks, how = "failed" => RevertFails,
         UNCHANGED <<written, exposed>>
  PROVE  /\ IsCase(db') /\ Transactional'
         /\ \A b \in Additions : at[b] = "new" =>
                              RowsOf(b, db'.committed \union db'.tx) = {}
<1> USE DEF CaseInv, End
<1>1. /\ outcome'[a] = how /\ outcome[a] = "none"
      /\ \A b \in Additions \ {a} : outcome'[b] = outcome[b]
  BY DEF SteeringTypeOK, Active, Unfinished
<1>2. db.open => RowsOf(a, db.committed) = {}
  BY DEF ActiveInside
<1>3. ~db.open => a \in exposed
  BY DEF ActiveExposed
<1>4. CASE how = "reverted"
  <2>1. /\ db.open /\ IsCase(db') /\ db'.committed = db.committed /\ db'.tx = {}
    BY <1>4, RevertedCase DEF RevertWorks
  <2> QED
    BY <1>1, <1>2, <1>4, <2>1 DEF Transactional, NewIsClean, RowsOf
<1>5. CASE how = "failed"
  <2>1. db' = db \/ (db.open /\ db' = RolledBack(db))
    BY <1>5 DEF RevertFails
  <2>2. /\ IsCase(db') /\ db'.committed = db.committed
        /\ db'.tx \subseteq db.committed \union db.tx
    BY <2>1, RolledBackCase
  <2>3. \A b \in Additions : RowsOf(b, db'.committed \union db'.tx)
                            \subseteq RowsOf(b, db.committed \union db.tx)
    BY <2>2 DEF RowsOf
  <2>4. \A b \in Additions : RowsOf(b, db'.committed) = RowsOf(b, db.committed)
    BY <2>2 DEF RowsOf
  <2>5. Transactional'
    BY <1>1, <1>2, <1>3, <1>5, <2>2, <2>3, <2>4 DEF Transactional
  <2> QED
    BY <2>2, <2>3, <2>5 DEF NewIsClean
<1> QED
  BY <1>4, <1>5

LEMMA OpenFailedKeepsCaseInv ==
  ASSUME CaseInv, NEW a \in Additions, OpenFailed(a)
  PROVE  CaseInv'
<1> USE DEF CaseInv, OpenFailed
<1>1. Active(a) /\ Unfinished(a) /\ SteeringTypeOK
  BY DEF RunningIsActive, Running, Active
<1>2. PICK how \in {"reverted", "failed"} :
        End(a, how) /\ (how = "reverted" => RevertWorks) /\ (how = "failed" => RevertFails)
  OBVIOUS
<1>3. /\ IsCase(db') /\ Transactional'
      /\ \A b \in Additions : at[b] = "new" =>
                              RowsOf(b, db'.committed \union db'.tx) = {}
  BY <1>1, <1>2, RevertKeepsCase
<1>4. /\ at' \in [Additions -> Places] /\ at'[a] = "returned"
      /\ \A b \in Additions \ {a} : at'[b] = at[b]
  BY <1>1 DEF Return, Goto, SteeringTypeOK, Places
<1>5. how \in Outcomes \ {"none"}
  BY DEF Outcomes
<1> QED
  BY <1>1, <1>2, <1>3, <1>4, <1>5, ClosedTyped, EndIsLast

LEMMA RevertAddImageKeepsCaseInv ==
  ASSUME CaseInv, NEW a \in Additions, RevertAddImage(a)
  PROVE  CaseInv'
<1> USE DEF CaseInv, RevertAddImage
<1>1. Active(a) /\ Unfinished(a) /\ SteeringTypeOK
  BY DEF MayEnd, Active, Unfinished
<1>2. PICK how \in {"reverted", "failed"} :
        End(a, how) /\ (how = "reverted" => RevertWorks) /\ (how = "failed" => RevertFails)
  OBVIOUS
<1>3. /\ IsCase(db') /\ Transactional'
      /\ \A b \in Additions : at[b] = "new" =>
                              RowsOf(b, db'.committed \union db'.tx) = {}
  BY <1>1, <1>2, RevertKeepsCase
<1>4. /\ at' \in [Additions -> Places] /\ at'[a] = "returned"
      /\ \A b \in Additions \ {a} : at'[b] = at[b]
  BY <1>1 DEF MayEnd, SteeringTypeOK
<1>5. how \in Outcomes \ {"none"}
  BY DEF Outcomes
<1> QED
  BY <1>1, <1>2, <1>3, <1>4, <1>5, ClosedTyped, EndIsLast

LEMMA CommitAddImageKeepsCaseInv ==
  ASSUME CaseInv, NEW a \in Additions, CommitAddImage(a)
  PROVE  CaseInv'
<1> USE DEF CaseInv, CommitAddImage
<1>1. Active(a) /\ Unfinished(a) /\ SteeringTypeOK
  BY DEF MayEnd, Active, Unfinished
<1>2. /\ at' \in [Additions -> Places] /\ at'[a] = "returned"
      /\ \A b \in Additions \ {a} : at'[b] = at[b]
  BY <1>1 DEF MayEnd, SteeringTypeOK
<1>3. CASE db.open /\ db' = Released(db) /\ End(a, "committed")
  <2>1. /\ IsCase(db') /\ db'.committed = db.tx /\ db'.tx = {}
        /\ db.committed \subseteq db.tx
    BY <1>3, ReleasedCase DEF IsCase
  <2>2. /\ outcome'[a] = "committed"
        /\ \A b \in Additions \ {a} : outcome'[b] = outcome[b]
    BY <1>1, <1>3 DEF End, SteeringTypeOK
  <2>3. /\ written[a] \subseteq db.tx
        /\ \A row \in db.tx \ db.committed : row.of = a
    BY <1>1, <1>3 DEF ActiveInside
  <2>4. \A b \in Additions \ {a} : RowsOf(b, db.tx) = RowsOf(b, db.committed)
    BY <2>1, <2>3 DEF RowsOf
  <2>5. \A b \in Additions : RowsOf(b, db'.committed \union db'.tx)
                            = RowsOf(b, db.committed \union db.tx)
    BY <2>1 DEF RowsOf
  <2>6. Transactional'
    <3> SUFFICES ASSUME NEW b \in Additions
                 PROVE  /\ outcome'[b] = "committed" => written'[b] \subseteq db'.committed
                        /\ outcome'[b] = "reverted" => RowsOf(b, db'.committed \union db'.tx) = {}
                        /\ RowsOf(b, db'.committed) # {} => outcome'[b] = "committed" \/ b \in exposed'
      BY DEF Transactional
    <3>1. CASE b = a
      BY <2>1, <2>2, <2>3, <3>1
    <3>2. CASE b # a
      BY <2>1, <2>2, <2>4, <2>5, <3>2 DEF Transactional
    <3> QED
      BY <3>1, <3>2
  <2>7. \A b \in Additions : at[b] = "new" =>
                              RowsOf(b, db'.committed \union db'.tx) = {}
    BY <2>5 DEF NewIsClean
  <2>8. "committed" \in Outcomes \ {"none"}
    BY DEF Outcomes
  <2> QED
    BY <1>1, <1>2, <1>3, <2>1, <2>6, <2>7, <2>8, ClosedTyped, EndIsLast
<1>4. CASE UNCHANGED db /\ End(a, "failed")
  <2>1. /\ outcome'[a] = "failed"
        /\ \A b \in Additions \ {a} : outcome'[b] = outcome[b]
    BY <1>1, <1>4 DEF End, SteeringTypeOK
  <2>2. RowsOf(a, db.committed) # {} => a \in exposed
    BY <1>1 DEF ActiveInside, ActiveExposed
  <2>3. IsCase(db') /\ Transactional'
    BY <1>4, <2>1, <2>2 DEF Transactional
  <2>4. \A b \in Additions : at[b] = "new" =>
                              RowsOf(b, db'.committed \union db'.tx) = {}
    BY <1>4 DEF NewIsClean
  <2>5. "failed" \in Outcomes \ {"none"}
    BY DEF Outcomes
  <2> QED
    BY <1>1, <1>2, <1>4, <2>3, <2>4, <2>5, ClosedTyped, EndIsLast
<1> QED
  BY <1>3, <1>4

(* An addition that was refused has nothing to commit or to revert. *)
LEMMA NothingToEndKeepsCaseInv ==
  ASSUME CaseInv, NEW a \in Additions, NothingToEnd(a)
  PROVE  CaseInv'
<1> USE DEF CaseInv, NothingToEnd, MayEnd
<1>1. /\ outcome[a] = "none" /\ at[a] = "returned" /\ outcome'[a] = "failed"
      /\ \A b \in Additions \ {a} : outcome'[b] = outcome[b]
      /\ outcome' \in [Additions -> Outcomes]
  BY DEF End, SteeringTypeOK, Outcomes
<1>2. SteeringTypeOK'
  BY <1>1 DEF SteeringTypeOK
<1>3. \A b \in Additions : Active(b)' <=> Active(b)
  BY <1>1 DEF Active, Unfinished
<1>4. RunningIsActive' /\ OneActive' /\ ActiveInside' /\ ActiveExposed'
  BY <1>3 DEF RunningIsActive, Running, OneActive, ActiveInside, ActiveExposed
<1>5. NewIsClean'
  BY <1>1 DEF NewIsClean
<1>6. Transactional'
  BY <1>1 DEF Transactional
<1> QED
  BY <1>2, <1>4, <1>5, <1>6

(* What is recovered is what was committed. *)
LEMMA CrashKeepsCaseInv ==
  ASSUME CaseInv, Crash
  PROVE  CaseInv'
<1> USE DEF CaseInv, Crash
<1>1. /\ IsCase(db') /\ ~db'.open /\ db'.committed = db.committed /\ db'.tx = {}
  BY RecoveredCase
<1>2. \A b \in Additions :
        /\ Unfinished(b) => outcome'[b] = "crashed" /\ at'[b] = "gone"
        /\ ~Unfinished(b) => outcome'[b] = outcome[b] /\ at'[b] = at[b]
  OBVIOUS
<1>3. at' \in [Additions -> Places] /\ outcome' \in [Additions -> Outcomes]
  BY DEF SteeringTypeOK, Places, Outcomes
<1>4. SteeringTypeOK'
  BY <1>3 DEF SteeringTypeOK
<1>5. \A b \in Additions : ~Active(b)'
  BY <1>2 DEF Active, Unfinished
<1>6. \A b \in Additions : ~Running(b)'
  BY <1>2 DEF Running, RunningIsActive, Active
<1>7. NewIsClean'
  BY <1>1, <1>2 DEF NewIsClean, Unfinished, RowsOf
<1>8. \A b \in Additions : RowsOf(b, db.committed) # {} /\ outcome[b] = "none"
                            => b \in exposed
  BY DEF Transactional
<1>9. Transactional'
  BY <1>1, <1>2, <1>8 DEF Transactional, Unfinished, RowsOf
<1> QED
  BY <1>1, <1>4, <1>5, <1>6, <1>7, <1>9
     DEF RunningIsActive, OneActive, ActiveInside, ActiveExposed

LEMMA StepKeepsCaseInv ==
  ASSUME CaseInv, [Next]_vars
  PROVE  CaseInv'
<1>1. ASSUME NEW a \in Additions, Step(a) \/ StopAddImage(a)
      PROVE  CaseInv'
  <2>1. CASE InnerStep(a)
    BY <2>1, InnerSteps, InnerKeepsCaseInv
  <2>2. CASE StartRefused(a)
    BY <2>2, StartRefusedKeepsCaseInv
  <2>3. CASE Start(a)
    BY <2>3, StartKeepsCaseInv
  <2>4. CASE OpenFailed(a)
    BY <2>4, OpenFailedKeepsCaseInv
  <2>5. CASE RevertAddImage(a)
    BY <2>5, RevertAddImageKeepsCaseInv
  <2>6. CASE CommitAddImage(a)
    BY <2>6, CommitAddImageKeepsCaseInv
  <2>7. CASE NothingToEnd(a)
    BY <2>7, NothingToEndKeepsCaseInv
  <2> QED
    BY <1>1, <2>1, <2>2, <2>3, <2>4, <2>5, <2>6, <2>7 DEF Step, InnerStep
<1>2. CASE Crash
  BY <1>2, CrashKeepsCaseInv
<1>3. CASE UNCHANGED vars
  BY <1>3 DEF vars, CaseInv, IsCase, SteeringTypeOK, RunningIsActive, Running,
              OneActive, Active, Unfinished, ActiveInside, ActiveExposed,
              NewIsClean, Transactional, RowsOf
<1> QED
  BY <1>1, <1>2, <1>3 DEF Next
-----------------------------------------------------------------------------
(* The inductive invariant: at most one addition is under way, and what     *)
(* startAddImage, the callbacks, commitAddImage and revertAddImage leave    *)
(* uncommitted is all of that addition (auto_db.cpp:430, 525, 640, 684).    *)
THEOREM CaseInvariance == Spec => []CaseInv
<1>1. Init => CaseInv
  BY InitCaseInv
<1>2. CaseInv /\ [Next]_vars => CaseInv'
  BY StepKeepsCaseInv
<1> QED
  BY <1>1, <1>2, PTL DEF Spec

(* What an addition has left in the case database is what its end says:     *)
(* all of its rows if it was committed, none if it was reverted, and none,  *)
(* unless another start has committed them, if it failed or the process     *)
(* ended (TskAutoDb::startAddImage, revertAddImage and commitAddImage).     *)
THEOREM CaseIsTransactional == Spec => []Transactional
<1>1. CaseInv => Transactional
  BY DEF CaseInv
<1> QED
  BY <1>1, CaseInvariance, PTL
-----------------------------------------------------------------------------
(* Where an addition that has added a row after all was to stop may be      *)
Quiet == {"found", "files", "fs done", "returned", "gone"}

Heeded(a) == late[a] = 0 \/ (late[a] = 1 /\ StopAll(a) /\ at[a] \in Quiet)

HeedInv == late \in [Additions -> Nat] /\ \A a \in Additions : Heeded(a)

(* A row counts as late only if all was to stop, and the image's own never. *)
Counts(a) ==
  /\ late' \in [Additions -> Nat]
  /\ \A b \in Additions \ {a} : late'[b] = late[b]
  /\ late'[a] = late[a] \/ (StopAll(a) /\ late'[a] = late[a] + 1)

LEMMA CountsBy ==
  ASSUME HeedInv, NEW a \in Additions
  PROVE  /\ UNCHANGED late => Counts(a) /\ late'[a] = late[a]
         /\ NoInsert => Counts(a) /\ late'[a] = late[a]
         /\ \A row : Insert(a, row) =>
              Counts(a) /\ (~StopAll(a) \/ row.what = "image" => late'[a] = late[a])
  BY DEF HeedInv, Counts, NoInsert, Insert

(* The step that adds the late row leads to where nothing more is added.    *)
Heeds(a) ==
  /\ Counts(a)
  /\ late'[a] = late[a] \/ (at[a] \notin Quiet /\ at'[a] \in Quiet)
  /\ StopAll(a) /\ at[a] \in Quiet => at'[a] \in Quiet

LEMMA StepHeeds ==
  ASSUME SteeringTypeOK, HeedInv, NEW a \in Additions, InnerStep(a)
  PROVE  Heeds(a)
<1> USE DEF Goto, Quiet, SteeringTypeOK
<1>1. CASE OpenImage(a)
  <2>1. Row(a, "image", 0, 0).what = "image"
    BY DEF Row
  <2>2. Counts(a) /\ late'[a] = late[a]
    BY <1>1, <2>1, CountsBy DEF OpenImage
  <2> QED
    BY <1>1, <2>2 DEF Heeds, OpenImage, Return
<1>2. CASE VolumeSystem(a)
  BY <1>2, CountsBy DEF Heeds, VolumeSystem
<1>3. CASE NoMoreAreas(a)
  BY <1>3, CountsBy DEF Heeds, NoMoreAreas, GiveUp
<1>4. CASE SkipMeta(a)
  BY <1>4, CountsBy DEF Heeds, SkipMeta, NextArea
<1>5. CASE Volume(a)
  BY <1>5, CountsBy DEF Heeds, Volume
<1>6. CASE NoFileSystem(a)
  BY <1>6, CountsBy DEF Heeds, NoFileSystem, LeaveFs
<1>7. CASE FileSystem(a)
  BY <1>7, CountsBy DEF Heeds, FileSystem
<1>8. CASE File(a)
  BY <1>8, CountsBy DEF Heeds, File, StopAll
<1>9. CASE FilesEnd(a)
  BY <1>9, CountsBy DEF Heeds, FilesEnd, LeaveFs
<1>10. CASE WalkFails(a)
  BY <1>10, CountsBy DEF Heeds, WalkFails, LeaveFs
<1>11. CASE FsDone(a)
  BY <1>11, CountsBy DEF Heeds, FsDone, AfterFs, NextArea, GiveUp
<1>12. CASE Found(a)
  BY <1>12, CountsBy DEF Heeds, Found
<1>13. CASE FsSpace(a)
  BY <1>13, CountsBy DEF Heeds, FsSpace
<1>14. CASE NoMoreFs(a)
  BY <1>14, CountsBy DEF Heeds, NoMoreFs
<1>15. CASE OpenFs(a)
  BY <1>15, CountsBy DEF Heeds, OpenFs
<1>16. CASE Block(a)
  BY <1>16, CountsBy DEF Heeds, Block
<1>17. CASE BlocksEnd(a)
  BY <1>17, CountsBy DEF Heeds, BlocksEnd
<1>18. CASE BlocksStop(a)
  BY <1>18, CountsBy DEF Heeds, BlocksStop
<1>19. CASE BlocksFail(a)
  BY <1>19, CountsBy DEF Heeds, BlocksFail
<1>20. CASE VsSpace(a)
  BY <1>20, CountsBy DEF Heeds, VsSpace
<1>21. CASE NoMoreVolumes(a)
  BY <1>21, CountsBy DEF Heeds, NoMoreVolumes
<1>22. CASE VolumeSpace(a)
  BY <1>22, CountsBy DEF Heeds, VolumeSpace
<1>23. CASE ImageSpace(a)
  BY <1>23, CountsBy DEF Heeds, ImageSpace, Answer, Return
<1>24. CASE StopAddImage(a)
  BY <1>24, CountsBy DEF Heeds, StopAddImage
<1> QED
  BY <1>1, <1>2, <1>3, <1>4, <1>5, <1>6, <1>7, <1>8, <1>9, <1>10, <1>11, <1>12, <1>13, <1>14, <1>15, <1>16, <1>17, <1>18, <1>19, <1>20, <1>21, <1>22, <1>23, <1>24 DEF InnerStep

LEMMA StepKeepsHeedInv ==
  ASSUME CaseInv, HeedInv, [Next]_vars
  PROVE  HeedInv'
<1>1. SteeringTypeOK
  BY DEF CaseInv
<1>2. ASSUME NEW a \in Additions, InnerStep(a) PROVE HeedInv'
  <2>1. Heeds(a) /\ Counts(a)
    BY <1>1, <1>2, StepHeeds DEF Heeds
  <2>2. \A b \in Additions \ {a} : late'[b] = late[b] /\ at'[b] = at[b]
    BY <1>1, <1>2, <2>1, InnerSteps DEF Counts, Inner, Moves, SteeringTypeOK
  <2>3. \A b \in Additions : StopAll(b) => StopAll(b)'
    BY <1>2, InnerSteps DEF Inner, Steers
  <2>4. Heeded(a) /\ late[a] \in Nat
    BY DEF HeedInv
  <2>5. Heeded(a)'
    BY <2>1, <2>3, <2>4 DEF Heeds, Counts, Heeded
  <2> QED
    BY <2>1, <2>2, <2>3, <2>5 DEF HeedInv, Heeded, Counts
<1>3. ASSUME NEW a \in Additions, StartRefused(a) \/ Start(a) PROVE HeedInv'
  <2>1. /\ at[a] = "new" /\ UNCHANGED late
        /\ \A b \in Additions \ {a} : at'[b] = at[b] /\ auto'[b] = auto[b]
    BY <1>1, <1>3 DEF StartRefused, Start, MayStart, Return, Goto, SteeringTypeOK
  <2> QED
    BY <2>1 DEF HeedInv, Heeded, StopAll, Quiet
<1>4. ASSUME NEW a \in Additions,
             OpenFailed(a) \/ RevertAddImage(a) \/ CommitAddImage(a) \/ NothingToEnd(a)
      PROVE  HeedInv'
  <2>1. /\ UNCHANGED late
        /\ at'[a] = at[a] \/ at[a] = "not opened"
        /\ \A b \in Additions \ {a} : at'[b] = at[b]
    BY <1>1, <1>4 DEF OpenFailed, RevertAddImage, CommitAddImage, NothingToEnd,
                      Return, Goto, SteeringTypeOK
  <2>2. UNCHANGED auto \/ Closed(a)
    BY <1>4 DEF OpenFailed, RevertAddImage, CommitAddImage, NothingToEnd
  <2>3. \A b \in Additions : auto[b] \in Autos
    BY <1>1 DEF SteeringTypeOK
  <2>4. [auto[a] EXCEPT !.open = FALSE].stop = auto[a].stop
    BY <2>3 DEF Autos
  <2>5. \A b \in Additions : StopAll(b)' <=> StopAll(b)
    BY <1>1, <2>2, <2>4 DEF StopAll, Closed, SteeringTypeOK
  <2> QED
    BY <2>1, <2>5 DEF HeedInv, Heeded, Quiet
<1>5. CASE Crash
  BY <1>5 DEF Crash, HeedInv, Heeded, StopAll, Quiet
<1>6. CASE UNCHANGED vars
  BY <1>6 DEF vars, HeedInv, Heeded, StopAll
<1> QED
  BY <1>2, <1>3, <1>4, <1>5, <1>6 DEF Next, Step, InnerStep

(* However late stopAddImage is called, the addition adds at most one more  *)
(* row after the image's own: every callback and every loop of              *)
(* TskAutoDb::addFilesInImgToDb looks at m_stopAllProcessing.               *)
THEOREM StopIsHeeded == Spec => []StopHeeded
<1>1. Init => HeedInv
  BY DEF Init, HeedInv, Heeded
<1>2. CaseInv /\ HeedInv /\ [Next]_vars => HeedInv'
  BY StepKeepsHeedInv
<1>3. HeedInv => StopHeeded
  BY DEF HeedInv, Heeded, StopHeeded
<1> QED
  BY <1>1, <1>2, <1>3, CaseInvariance, PTL DEF Spec
-----------------------------------------------------------------------------
(* w has all rows of area i of job j but for the one of the root directory,  *)
(* and no file system is missing there.                                      *)
AreaAdded(a, j, i, w) ==
  j.areas[i].kind # "meta" =>
    /\ j.vs => Row(a, "volume", i, 0) \in w
    /\ j.areas[i].fs # NoFs =>
         /\ Row(a, "fs", i, 0) \in w
         /\ \A n \in 1 .. j.areas[i].fs.files : Row(a, "file", i, n) \in w
    /\ j.areas[i].kind \in {"alloc", "image"} => j.areas[i].fs # NoFs

AddedUpTo(a, j, i, w) ==
  /\ Row(a, "image", 0, 0) \in w
  /\ j.vs => Row(a, "vs", 0, 0) \in w
  /\ \A k \in 1 .. Len(j.areas) : k < i => AreaAdded(a, j, k, w)

AllAdded(a, j, w) == AddedUpTo(a, j, Len(j.areas) + 1, w)

InArea(a, j, i, w) ==
  /\ AddedUpTo(a, j, i, w)
  /\ i \in 1 .. Len(j.areas) /\ j.areas[i].kind # "meta"
  /\ j.vs => Row(a, "volume", i, 0) \in w

(* What has been added at each place l, if nothing failed and nobody asked  *)
(* to stop.                                                                 *)
AddedAt(l, a, j, i, n, w) ==
  /\ l = "open" => i = 1 /\ n = 0
  /\ l = "vs" => i = 1 /\ n = 0 /\ j.vs /\ Row(a, "image", 0, 0) \in w
  /\ l = "area" => j.vs /\ i \in Nat \ {0} /\ n = 0 /\ AddedUpTo(a, j, i, w)
  /\ l = "fs" => n = 0 /\ InArea(a, j, i, w)
  /\ l = "files" =>
       /\ InArea(a, j, i, w) /\ j.areas[i].fs # NoFs /\ Row(a, "fs", i, 0) \in w
       /\ n \in Nat
       /\ \A k \in 1 .. j.areas[i].fs.files : k < n => Row(a, "file", i, k) \in w
  /\ l = "fs done" =>
       i \in 1 .. Len(j.areas) /\ AddedUpTo(a, j, i, w) /\ AreaAdded(a, j, i, w)
  /\ l = "found" => AllAdded(a, j, w)

OnTheWay == {"open", "vs", "area", "fs", "files", "fs done", "found"}

FoundAll == {"fs space", "next fs", "blocks", "vs space", "volumes", "image space", "returned"}

Well(a) == auto[a].stop = "no" /\ ~auto[a].errors

IsMap(f) == f = [a \in Additions |-> f[a]]

Progress(a) ==
  /\ at[a] = "new" => area[a] = 1 /\ count[a] = 0
  /\ at[a] \in OnTheWay =>
       /\ GoodJob(job[a])
       /\ Well(a) => AddedAt(at[a], a, job[a], area[a], count[a], written[a])
  /\ at[a] \in FoundAll /\ auto[a].stop = "no" /\ ret[a] = 0 =>
       GoodJob(job[a]) /\ AllAdded(a, job[a], written[a])

AllMaps == IsMap(job) /\ IsMap(area) /\ IsMap(count) /\ IsMap(ret)

ProgressInv == AllMaps /\ \A a \in Additions : Progress(a)

(* Rows are only added. *)
LEMMA AddedWider ==
  ASSUME NEW a, NEW j, NEW i, NEW w, NEW x, w \subseteq x, AddedUpTo(a, j, i, w)
  PROVE  AddedUpTo(a, j, i, x)
<1>1. \A k : AreaAdded(a, j, k, w) => AreaAdded(a, j, k, x)
  BY DEF AreaAdded
<1> QED
  BY <1>1 DEF AddedUpTo

LEMMA AddedOne ==
  ASSUME NEW a, NEW j, GoodJob(j), NEW i \in Nat \ {0}, NEW w,
         AddedUpTo(a, j, i, w), i <= Len(j.areas) => AreaAdded(a, j, i, w)
  PROVE  AddedUpTo(a, j, i + 1, w)
<1>1. Len(j.areas) \in Nat
  BY DEF GoodJob
<1>2. \A k \in 1 .. Len(j.areas) : k < i + 1 => k < i \/ k = i
  BY <1>1
<1> QED
  BY <1>1, <1>2 DEF AddedUpTo

(* The other additions are left alone. *)
Apart(a) ==
  /\ AllMaps'
  /\ \A b \in Additions \ {a} :
       /\ job'[b] = job[b] /\ at'[b] = at[b] /\ auto'[b] = auto[b] /\ area'[b] = area[b]
       /\ count'[b] = count[b] /\ ret'[b] = ret[b] /\ written'[b] = written[b]

LEMMA InsertWrites ==
  ASSUME SteeringTypeOK, NEW a \in Additions
  PROVE  /\ NoInsert => written' = written
         /\ \A row : Insert(a, row) =>
              /\ written'[a] = written[a] \union {row}
              /\ \A b \in Additions \ {a} : written'[b] = written[b]
  BY DEF SteeringTypeOK, Insert, NoInsert

LEMMA RegisterMarks ==
  ASSUME SteeringTypeOK, NEW a \in Additions, Register(a)
  PROVE  auto'[a].errors
  BY DEF Register, SteeringTypeOK, Autos

LEMMA StepApart ==
  ASSUME SteeringTypeOK, AllMaps, NEW a \in Additions, InnerStep(a)
  PROVE  Apart(a)
<1> USE DEF Goto, AllMaps, IsMap, SteeringTypeOK, Apart
<1>1. CASE OpenImage(a)
  BY <1>1, InsertWrites DEF OpenImage, Return
<1>2. CASE VolumeSystem(a)
  BY <1>2, InsertWrites DEF VolumeSystem, Register
<1>3. CASE NoMoreAreas(a)
  BY <1>3, InsertWrites DEF NoMoreAreas, GiveUp
<1>4. CASE SkipMeta(a)
  BY <1>4, InsertWrites DEF SkipMeta, NextArea
<1>5. CASE Volume(a)
  BY <1>5, InsertWrites DEF Volume
<1>6. CASE NoFileSystem(a)
  BY <1>6, InsertWrites DEF NoFileSystem, LeaveFs, Register
<1>7. CASE FileSystem(a)
  BY <1>7, InsertWrites DEF FileSystem
<1>8. CASE File(a)
  BY <1>8, InsertWrites DEF File, Register
<1>9. CASE FilesEnd(a)
  BY <1>9, InsertWrites DEF FilesEnd, LeaveFs
<1>10. CASE WalkFails(a)
  BY <1>10, InsertWrites DEF WalkFails, LeaveFs, Register
<1>11. CASE FsDone(a)
  BY <1>11, InsertWrites DEF FsDone, AfterFs, NextArea, GiveUp
<1>12. CASE Found(a)
  BY <1>12, InsertWrites DEF Found
<1>13. CASE FsSpace(a)
  BY <1>13, InsertWrites DEF FsSpace, Register
<1>14. CASE NoMoreFs(a)
  BY <1>14, InsertWrites DEF NoMoreFs
<1>15. CASE OpenFs(a)
  BY <1>15, InsertWrites DEF OpenFs, Register
<1>16. CASE Block(a)
  BY <1>16, InsertWrites DEF Block
<1>17. CASE BlocksEnd(a)
  BY <1>17, InsertWrites DEF BlocksEnd, Register
<1>18. CASE BlocksStop(a)
  BY <1>18, InsertWrites DEF BlocksStop
<1>19. CASE BlocksFail(a)
  BY <1>19, InsertWrites DEF BlocksFail, Register
<1>20. CASE VsSpace(a)
  BY <1>20, InsertWrites DEF VsSpace, Register
<1>21. CASE NoMoreVolumes(a)
  BY <1>21, InsertWrites DEF NoMoreVolumes
<1>22. CASE VolumeSpace(a)
  BY <1>22, InsertWrites DEF VolumeSpace, Register
<1>23. CASE ImageSpace(a)
  BY <1>23, InsertWrites DEF ImageSpace, Answer, Return
<1>24. CASE StopAddImage(a)
  BY <1>24, InsertWrites DEF StopAddImage
<1> QED
  BY <1>1, <1>2, <1>3, <1>4, <1>5, <1>6, <1>7, <1>8, <1>9, <1>10, <1>11, <1>12, <1>13, <1>14, <1>15, <1>16, <1>17, <1>18, <1>19, <1>20, <1>21, <1>22, <1>23, <1>24 DEF InnerStep

(* What is to be shown of a step on the way, of one after it, and of one    *)
(* that leads out of both.                                                  *)
LEMMA OnTheWayBy ==
  ASSUME NEW a, at'[a] \in OnTheWay, GoodJob(job'[a]),
         Well(a)' => AddedAt(at'[a], a, job'[a], area'[a], count'[a], written'[a])
  PROVE  Progress(a)'
  BY DEF Progress, OnTheWay, FoundAll, AddedAt

LEMMA AfterBy ==
  ASSUME NEW a, Progress(a), at[a] \in FoundAll, at'[a] \in FoundAll,
         job'[a] = job[a], written[a] \subseteq written'[a],
         auto'[a].stop = "no" => auto[a].stop = "no", ret'[a] = 0 => ret[a] = 0
  PROVE  Progress(a)'
<1>1. AllAdded(a, job[a], written[a]) => AllAdded(a, job[a], written'[a])
  BY AddedWider DEF AllAdded
<1> QED
  BY <1>1 DEF Progress, OnTheWay, FoundAll

LEMMA OutBy ==
  ASSUME NEW a, at'[a] \notin OnTheWay, at'[a] # "new", at'[a] \in FoundAll => ret'[a] # 0
  PROVE  Progress(a)'
  BY DEF Progress

LEMMA Ways ==
  /\ "area" \in OnTheWay /\ "vs" \in OnTheWay /\ "fs" \in OnTheWay
  /\ "files" \in OnTheWay /\ "fs done" \in OnTheWay /\ "found" \in OnTheWay
  /\ "not opened" \notin OnTheWay /\ "not opened" \notin FoundAll
  /\ "returned" \notin OnTheWay
  BY DEF OnTheWay, FoundAll

(* When there is no next area, all is added. *)
LEMMA LastArea ==
  ASSUME NEW a, NEW j, GoodJob(j), NEW i \in Nat \ {0}, NEW w,
         AddedUpTo(a, j, i, w), i > Len(j.areas)
  PROVE  AllAdded(a, j, w)
<1>1. Len(j.areas) \in Nat
  BY DEF GoodJob
<1> QED
  BY <1>1 DEF AllAdded, AddedUpTo

LEMMA ImageProgress ==
  ASSUME SteeringTypeOK, AllMaps, NEW a \in Additions, Progress(a), OpenImage(a)
  PROVE  Progress(a)'
<1>1. /\ at[a] = "open" /\ GoodJob(job[a])
      /\ UNCHANGED <<job, auto, area, count>>
      /\ Well(a) => area[a] = 1 /\ count[a] = 0
  BY DEF OpenImage, Progress, OnTheWay, AddedAt
<1>2. CASE Insert(a, Row(a, "image", 0, 0))
           /\ IF job[a].vs THEN Goto(a, "vs") ELSE Goto(a, "fs")
  <2>1. /\ Row(a, "image", 0, 0) \in written'[a]
        /\ at'[a] = IF job[a].vs THEN "vs" ELSE "fs"
    BY <1>2, InsertWrites DEF Goto, SteeringTypeOK
  <2>2. ~job[a].vs => InArea(a, job[a], 1, written'[a])
    BY <2>1, <1>1 DEF InArea, AddedUpTo, GoodJob
  <2>3. Well(a)' => AddedAt(at'[a], a, job[a], area[a], count[a], written'[a])
    BY <1>1, <2>1, <2>2 DEF AddedAt, Well
  <2> QED
    BY <1>1, <2>1, <2>3, Ways, OnTheWayBy
<1>3. CASE Goto(a, "not opened")
  <2>1. at'[a] = "not opened"
    BY <1>3 DEF Goto, SteeringTypeOK
  <2> QED
    BY <2>1, Ways, OutBy
<1>4. CASE Return(a, 1)
  <2>1. at'[a] = "returned" /\ ret'[a] = 1
    BY <1>4 DEF Return, Goto, SteeringTypeOK, AllMaps, IsMap
  <2>2. "returned" \notin OnTheWay /\ ret'[a] # 0
    BY <2>1 DEF OnTheWay
  <2> QED
    BY <2>1, <2>2 DEF Progress
<1> QED
  BY <1>2, <1>3, <1>4 DEF OpenImage

LEMMA VolumeSystemProgress ==
  ASSUME SteeringTypeOK, AllMaps, NEW a \in Additions, Progress(a), VolumeSystem(a)
  PROVE  Progress(a)'
<1>1. /\ at[a] = "vs" /\ GoodJob(job[a])
      /\ UNCHANGED <<job, area, count, ret>>
      /\ Well(a) => /\ area[a] = 1 /\ count[a] = 0 /\ job[a].vs
                    /\ Row(a, "image", 0, 0) \in written[a]
  BY DEF VolumeSystem, Progress, OnTheWay, AddedAt
<1>2. CASE /\ Insert(a, Row(a, "vs", 0, 0)) /\ UNCHANGED auto
           /\ IF StopAll(a) THEN Goto(a, "found") ELSE Goto(a, "area")
  <2>1. /\ written'[a] = written[a] \union {Row(a, "vs", 0, 0)}
        /\ at'[a] = IF StopAll(a) THEN "found" ELSE "area"
    BY <1>2, InsertWrites DEF Goto, SteeringTypeOK
  <2>2. ASSUME Well(a)' PROVE AddedAt(at'[a], a, job[a], area[a], count[a], written'[a])
    <3>1. Well(a) /\ at'[a] = "area"
      BY <1>2, <2>1, <2>2 DEF Well, StopAll
    <3>2. AddedUpTo(a, job[a], 1, written'[a])
      BY <1>1, <2>1, <3>1 DEF AddedUpTo
    <3> QED
      BY <1>1, <3>1, <3>2 DEF AddedAt
  <2> QED
    BY <1>1, <2>1, <2>2, Ways, OnTheWayBy
<1>3. CASE Register(a) /\ Goto(a, "found")
  <2>1. at'[a] = "found" /\ ~Well(a)'
    BY <1>3, RegisterMarks DEF Goto, SteeringTypeOK, Well
  <2> QED
    BY <1>1, <2>1, Ways, OnTheWayBy
<1> QED
  BY <1>2, <1>3 DEF VolumeSystem

LEMMA AreasProgress ==
  ASSUME SteeringTypeOK, AllMaps, NEW a \in Additions, Progress(a),
         NoMoreAreas(a) \/ SkipMeta(a)
  PROVE  Progress(a)'
<1>1. /\ at[a] = "area" /\ GoodJob(job[a])
      /\ UNCHANGED <<job, auto, ret, written>>
      /\ Well(a) => /\ job[a].vs /\ area[a] \in Nat \ {0} /\ count[a] = 0
                    /\ AddedUpTo(a, job[a], area[a], written[a])
  BY DEF NoMoreAreas, SkipMeta, Progress, OnTheWay, AddedAt
<1>2. Well(a)' <=> Well(a)
  BY <1>1 DEF Well
<1>3. CASE NoMoreAreas(a)
  <2>1. at'[a] = "found" /\ area[a] > Len(job[a].areas)
    BY <1>3 DEF NoMoreAreas, GiveUp, Goto, SteeringTypeOK
  <2>2. Well(a) => AllAdded(a, job[a], written[a])
    BY <1>1, <2>1, LastArea
  <2>3. Well(a)' => AddedAt(at'[a], a, job'[a], area'[a], count'[a], written'[a])
    BY <1>1, <1>2, <2>1, <2>2 DEF AddedAt
  <2> QED
    BY <1>1, <2>1, <2>3, Ways, OnTheWayBy
<1>4. CASE SkipMeta(a)
  <2>1. /\ at'[a] = "area" /\ area'[a] = area[a] + 1 /\ count'[a] = 0
        /\ job[a].areas[area[a]].kind = "meta"
    BY <1>4 DEF SkipMeta, NextArea, Goto, Area, SteeringTypeOK, AllMaps, IsMap
  <2>2. Well(a) => AddedUpTo(a, job[a], area[a] + 1, written[a])
    BY <1>1, <2>1, AddedOne DEF AreaAdded
  <2>3. Well(a)' => AddedAt(at'[a], a, job'[a], area'[a], count'[a], written'[a])
    BY <1>1, <1>2, <2>1, <2>2 DEF AddedAt
  <2> QED
    BY <1>1, <2>1, <2>3, Ways, OnTheWayBy
<1> QED
  BY <1>3, <1>4

LEMMA VolumeProgress ==
  ASSUME SteeringTypeOK, AllMaps, NEW a \in Additions, Progress(a), Volume(a)
  PROVE  Progress(a)'
<1>1. /\ at[a] = "area" /\ GoodJob(job[a])
      /\ area[a] <= Len(job[a].areas) /\ job[a].areas[area[a]].kind # "meta"
      /\ UNCHANGED <<job, area, count, ret>>
      /\ Well(a) => /\ job[a].vs /\ area[a] \in Nat \ {0} /\ count[a] = 0
                    /\ AddedUpTo(a, job[a], area[a], written[a])
  BY DEF Volume, Area, Progress, OnTheWay, AddedAt
<1>2. CASE /\ Insert(a, Row(a, "volume", area[a], 0))
           /\ auto' = [auto EXCEPT ![a].found = TRUE]
           /\ IF StopAll(a) THEN Goto(a, "found") ELSE Goto(a, "fs")
  <2>1. /\ written'[a] = written[a] \union {Row(a, "volume", area[a], 0)}
        /\ at'[a] = IF StopAll(a) THEN "found" ELSE "fs"
    BY <1>2, InsertWrites DEF Goto, SteeringTypeOK
  <2>2. auto'[a].stop = auto[a].stop /\ auto'[a].errors = auto[a].errors
    BY <1>2 DEF SteeringTypeOK, Autos
  <2>3. ASSUME Well(a)' PROVE AddedAt(at'[a], a, job[a], area[a], count[a], written'[a])
    <3>1. Well(a) /\ at'[a] = "fs"
      BY <2>1, <2>2, <2>3 DEF Well, StopAll
    <3>2. AddedUpTo(a, job[a], area[a], written'[a]) /\ area[a] \in 1 .. Len(job[a].areas)
      BY <1>1, <2>1, <3>1, AddedWider DEF GoodJob
    <3> QED
      BY <1>1, <2>1, <3>1, <3>2 DEF AddedAt, InArea
  <2> QED
    BY <1>1, <2>1, <2>3, Ways, OnTheWayBy
<1>3. CASE /\ auto' = [auto EXCEPT ![a].found = TRUE, ![a].errors = TRUE]
           /\ Goto(a, "found")
  <2>1. at'[a] = "found" /\ ~Well(a)'
    BY <1>3 DEF Goto, SteeringTypeOK, Autos, Well
  <2> QED
    BY <1>1, <2>1, Ways, OnTheWayBy
<1> QED
  BY <1>2, <1>3 DEF Volume

(* The file system of an area, up to its root directory. *)
LEMMA FileSystemProgress ==
  ASSUME SteeringTypeOK, AllMaps, NEW a \in Additions, Progress(a),
         NoFileSystem(a) \/ FileSystem(a)
  PROVE  Progress(a)'
<1>1. /\ at[a] = "fs" /\ GoodJob(job[a])
      /\ UNCHANGED <<job, area, ret>>
      /\ Well(a) => count[a] = 0 /\ InArea(a, job[a], area[a], written[a])
  BY DEF NoFileSystem, FileSystem, LeaveFs, Progress, OnTheWay, AddedAt
<1>2. CASE NoFileSystem(a)
  <2>1. /\ at'[a] = "fs done" /\ job[a].areas[area[a]].fs = NoFs /\ written' = written
        /\ UNCHANGED count
        /\ IF job[a].areas[area[a]].kind \in {"alloc", "image"} THEN Register(a)
           ELSE UNCHANGED auto
    BY <1>2 DEF NoFileSystem, LeaveFs, Goto, SteeringTypeOK, ExpectsFs, Area
  <2>2. ASSUME Well(a)' PROVE AddedAt("fs done", a, job[a], area[a], count[a], written[a])
    <3>1. Well(a) /\ job[a].areas[area[a]].kind \notin {"alloc", "image"}
      BY <2>1, <2>2, RegisterMarks DEF Well
    <3> QED
      BY <1>1, <2>1, <3>1 DEF AddedAt, InArea, AreaAdded
  <2> QED
    BY <1>1, <2>1, <2>2, Ways, OnTheWayBy
<1>3. CASE FileSystem(a)
  <2>1. CASE /\ Insert(a, Row(a, "fs", area[a], 0))
             /\ auto' = [auto EXCEPT ![a].found = TRUE]
             /\ Goto(a, "files")
             /\ UNCHANGED count \/ count' = [count EXCEPT ![a] = 1]
    <3>1. /\ written'[a] = written[a] \union {Row(a, "fs", area[a], 0)}
          /\ at'[a] = "files" /\ (count'[a] = count[a] \/ count'[a] = 1)
      BY <2>1, InsertWrites DEF Goto, SteeringTypeOK, AllMaps, IsMap
    <3>2. auto'[a].stop = auto[a].stop /\ auto'[a].errors = auto[a].errors
      BY <2>1 DEF SteeringTypeOK, Autos
    <3>3. ASSUME Well(a)'
          PROVE AddedAt("files", a, job[a], area[a], count'[a], written'[a])
      <4>1. Well(a)
        BY <3>2, <3>3 DEF Well
      <4>2. InArea(a, job[a], area[a], written'[a])
        BY <1>1, <3>1, <4>1, AddedWider DEF InArea
      <4>3. job[a].areas[area[a]].fs # NoFs
        BY <1>3 DEF FileSystem, Area
      <4>4. count'[a] \in {0, 1} /\ Row(a, "fs", area[a], 0) \in written'[a]
        BY <1>1, <3>1, <4>1
      <4>5. \A k \in 1 .. job[a].areas[area[a]].fs.files : ~(k < count'[a])
        BY <4>4
      <4> QED
        BY <4>2, <4>3, <4>4, <4>5 DEF AddedAt
    <3> QED
      BY <1>1, <3>1, <3>3, Ways, OnTheWayBy
  <2>2. CASE /\ auto' = [auto EXCEPT ![a].found = TRUE, ![a].errors = TRUE]
             /\ Goto(a, "fs done")
    <3>1. at'[a] = "fs done" /\ ~Well(a)'
      BY <2>2 DEF Goto, SteeringTypeOK, Autos, Well
    <3> QED
      BY <1>1, <3>1, Ways, OnTheWayBy
  <2> QED
    BY <1>3, <2>1, <2>2 DEF FileSystem
<1> QED
  BY <1>2, <1>3

LEMMA FilesProgress ==
  ASSUME SteeringTypeOK, AllMaps, NEW a \in Additions, Progress(a),
         File(a) \/ FilesEnd(a) \/ WalkFails(a)
  PROVE  Progress(a)'
<1> DEFINE i == area[a] fs == job[a].areas[i].fs
<1>1. /\ at[a] = "files" /\ GoodJob(job[a])
      /\ UNCHANGED <<job, area, ret>>
      /\ Well(a) => /\ InArea(a, job[a], i, written[a]) /\ fs # NoFs
                    /\ Row(a, "fs", i, 0) \in written[a] /\ count[a] \in Nat
                    /\ \A k \in 1 .. fs.files : k < count[a] => Row(a, "file", i, k) \in written[a]
  BY DEF File, FilesEnd, WalkFails, LeaveFs, Progress, OnTheWay, AddedAt
<1>2. CASE File(a)
  <2>1. at'[a] = "files" /\ count'[a] = count[a] + 1
    BY <1>1, <1>2 DEF File, AllMaps, IsMap
  <2>2. CASE Insert(a, Row(a, "file", i, count[a])) /\ UNCHANGED auto
    <3>1. written'[a] = written[a] \union {Row(a, "file", i, count[a])}
      BY <2>2, InsertWrites
    <3>2. ASSUME Well(a)'
          PROVE AddedAt("files", a, job[a], i, count[a] + 1, written'[a])
      <4>1. Well(a)
        BY <2>2, <3>2 DEF Well
      <4>2. InArea(a, job[a], i, written'[a])
        BY <1>1, <3>1, <4>1, AddedWider DEF InArea
      <4>3. \A k \in 1 .. fs.files : k < count[a] + 1 => k < count[a] \/ k = count[a]
        BY <1>1, <4>1
      <4> HIDE DEF i
      <4>4. \A k \in 1 .. fs.files : k < count[a] + 1 => Row(a, "file", i, k) \in written'[a]
        BY <1>1, <3>1, <4>1, <4>3
      <4> QED
        BY <1>1, <3>1, <4>1, <4>2, <4>4 DEF AddedAt
    <3> QED
      BY <1>1, <2>1, <3>2, Ways, OnTheWayBy
  <2>3. CASE Register(a)
    BY <1>1, <2>1, <2>3, RegisterMarks, Ways, OnTheWayBy DEF Well
  <2> QED
    BY <1>2, <2>2, <2>3 DEF File
<1>3. CASE FilesEnd(a)
  <2>1. /\ at'[a] = "fs done" /\ UNCHANGED <<auto, count, written>>
        /\ count[a] > fs.files \/ auto[a].stop # "no"
    BY <1>3 DEF FilesEnd, LeaveFs, Goto, SteeringTypeOK, Area
  <2>2. ASSUME Well(a)' PROVE AddedAt("fs done", a, job[a], i, count[a], written[a])
    <3>1. Well(a) /\ count[a] > fs.files
      BY <2>1, <2>2 DEF Well
    <3>2. fs.files \in Nat
      BY <1>1, <3>1 DEF GoodJob, InArea
    <3>3. \A k \in 1 .. fs.files : k < count[a]
      BY <1>1, <3>1, <3>2
    <3> QED
      BY <1>1, <3>1, <3>3 DEF AddedAt, InArea, AreaAdded
  <2> QED
    BY <1>1, <2>1, <2>2, Ways, OnTheWayBy
<1>4. CASE WalkFails(a)
  <2>1. at'[a] = "fs done" /\ ~Well(a)'
    BY <1>4, RegisterMarks DEF WalkFails, LeaveFs, Goto, SteeringTypeOK, Well
  <2> QED
    BY <1>1, <2>1, Ways, OnTheWayBy
<1> QED
  BY <1>2, <1>3, <1>4

LEMMA FsDoneProgress ==
  ASSUME SteeringTypeOK, AllMaps, NEW a \in Additions, Progress(a), FsDone(a)
  PROVE  Progress(a)'
<1> DEFINE j == job[a] i == area[a]
<1>1. at[a] = "fs done" /\ UNCHANGED <<job, auto, ret, written>>
  BY DEF FsDone
<1>2. /\ GoodJob(j)
      /\ Well(a) => /\ i \in 1 .. Len(j.areas)
                    /\ AddedUpTo(a, j, i, written[a]) /\ AreaAdded(a, j, i, written[a])
  BY <1>1 DEF Progress, OnTheWay, AddedAt
<1>3. Len(j.areas) \in Nat /\ (~j.vs => Len(j.areas) = 1)
  BY <1>2 DEF GoodJob
<1>4. GoodJob(job'[a])
  BY <1>1, <1>2
<1>5. Well(a)' => Well(a) /\ ~StopAll(a)
  BY <1>1 DEF Well, StopAll
<1> HIDE DEF j, i
<1>6. ASSUME Well(a) PROVE i \in Nat \ {0} /\ AddedUpTo(a, j, i + 1, written[a])
  <2>1. i \in Nat \ {0}
    BY <1>2, <1>3, <1>6
  <2> QED
    BY <1>2, <1>6, <2>1, AddedOne
<1>7. CASE j.vs /\ ~StopAll(a)
  <2>1. at'[a] = "area" /\ area'[a] = i + 1 /\ count'[a] = 0
    BY <1>7 DEF FsDone, AfterFs, NextArea, Goto, SteeringTypeOK, AllMaps, IsMap, i, j
  <2>2. ASSUME Well(a)'
        PROVE  AddedAt(at'[a], a, job'[a], area'[a], count'[a], written'[a])
    <3>1. i + 1 \in Nat \ {0} /\ AddedUpTo(a, j, i + 1, written[a])
      BY <1>5, <1>6, <2>2
    <3>2. job'[a] = j /\ written'[a] = written[a]
      BY <1>1 DEF j
    <3> QED
      BY <1>7, <2>1, <3>1, <3>2 DEF AddedAt
  <2>3. at'[a] \in OnTheWay
    BY <2>1, Ways
  <2> QED
    BY <1>4, <2>2, <2>3, OnTheWayBy
<1>8. CASE ~(j.vs /\ ~StopAll(a))
  <2>1. at'[a] = "found"
    BY <1>8 DEF FsDone, AfterFs, GiveUp, Goto, SteeringTypeOK, j
  <2>2. ASSUME Well(a)'
        PROVE  AddedAt(at'[a], a, job'[a], area'[a], count'[a], written'[a])
    <3>1. AddedUpTo(a, j, i + 1, written[a]) /\ i \in 1 .. Len(j.areas) /\ ~j.vs
      BY <1>2, <1>5, <1>6, <1>8, <2>2
    <3>2. i + 1 = Len(j.areas) + 1
      <4>1. Len(j.areas) = 1
        BY <1>3, <3>1
      <4>2. \A n : n = 1 /\ i \in 1 .. n => i + 1 = n + 1
        OBVIOUS
      <4> QED
        BY <3>1, <4>1, <4>2
    <3>3. AllAdded(a, j, written[a])
      BY <3>1, <3>2 DEF AllAdded
    <3>4. job'[a] = j /\ written'[a] = written[a]
      BY <1>1 DEF j
    <3> QED
      BY <2>1, <3>3, <3>4 DEF AddedAt
  <2>3. at'[a] \in OnTheWay
    BY <2>1, Ways
  <2> QED
    BY <1>4, <2>2, <2>3, OnTheWayBy
<1> QED
  BY <1>7, <1>8

LEMMA FoundProgress ==
  ASSUME SteeringTypeOK, AllMaps, NEW a \in Additions, Progress(a), Found(a)
  PROVE  Progress(a)'
<1>1. /\ at[a] = "found" /\ GoodJob(job[a])
      /\ UNCHANGED <<job, auto, written>>
      /\ Well(a) => AllAdded(a, job[a], written[a])
  BY DEF Found, Progress, OnTheWay, AddedAt
<1>2. ret'[a] = FilesAnswer(a)
  BY DEF Found, AllMaps, IsMap
<1>3. ASSUME ret'[a] = 0 PROVE ~auto[a].errors
  <2>1. CASE auto[a].errors /\ auto[a].found
    BY <1>2, <1>3, <2>1 DEF FilesAnswer
  <2>2. CASE auto[a].errors /\ ~auto[a].found
    BY <1>2, <1>3, <2>2 DEF FilesAnswer
  <2> QED
    BY <2>1, <2>2
<1>4. at'[a] \notin OnTheWay /\ at'[a] # "new"
  <2>1. at'[a] = "returned" \/ at'[a] = "fs space"
    BY DEF Found, Goto, SteeringTypeOK
  <2> QED
    BY <2>1 DEF OnTheWay
<1>5. auto'[a].stop = "no" /\ ret'[a] = 0 => AllAdded(a, job'[a], written'[a])
  BY <1>1, <1>3 DEF Well
<1>6. GoodJob(job'[a])
  BY <1>1
<1> QED
  BY <1>4, <1>5, <1>6 DEF Progress

(* The rows of free space leave what is added, and what is answered, as it  *)
(* is, or make the answer worse.                                            *)
LEMMA SpaceProgress ==
  ASSUME SteeringTypeOK, AllMaps, NEW a \in Additions, Progress(a),
         \/ FsSpace(a) \/ NoMoreFs(a) \/ OpenFs(a)
         \/ Block(a) \/ BlocksEnd(a) \/ BlocksStop(a) \/ BlocksFail(a)
         \/ VsSpace(a) \/ NoMoreVolumes(a) \/ VolumeSpace(a) \/ ImageSpace(a)
  PROVE  Progress(a)'
<1>1. UNCHANGED job
  BY DEF FsSpace, NoMoreFs, OpenFs, Block, BlocksEnd, BlocksStop, BlocksFail,
         VsSpace, NoMoreVolumes, VolumeSpace, ImageSpace
<1>2. written[a] \subseteq written'[a]
  BY InsertWrites
     DEF FsSpace, NoMoreFs, OpenFs, Block, BlocksEnd, BlocksStop, BlocksFail,
         VsSpace, NoMoreVolumes, VolumeSpace, ImageSpace
<1>3. UNCHANGED auto \/ Register(a)
  BY DEF FsSpace, NoMoreFs, OpenFs, Block, BlocksEnd, BlocksStop, BlocksFail,
         VsSpace, NoMoreVolumes, VolumeSpace, ImageSpace
<1>4. auto'[a].stop = auto[a].stop
  BY <1>3 DEF Register, SteeringTypeOK, Autos
<1>5. ret'[a] = 0 => ret[a] = 0
  BY DEF FsSpace, NoMoreFs, OpenFs, Block, BlocksEnd, BlocksStop, BlocksFail,
         VsSpace, NoMoreVolumes, VolumeSpace, ImageSpace, Answer, Return, AllMaps, IsMap
<1>6. at[a] \in FoundAll /\ at'[a] \in FoundAll
  BY DEF FsSpace, NoMoreFs, OpenFs, Block, BlocksEnd, BlocksStop, BlocksFail,
         VsSpace, NoMoreVolumes, VolumeSpace, ImageSpace, Answer, Return, Goto,
         SteeringTypeOK, FoundAll
<1> QED
  BY <1>1, <1>2, <1>4, <1>5, <1>6, AfterBy

LEMMA InnerProgress ==
  ASSUME SteeringTypeOK, AllMaps, NEW a \in Additions, Progress(a), InnerStep(a)
  PROVE  Progress(a)'
<1>1. CASE StopAddImage(a)
  <2>1. auto'[a].stop # "no" /\ UNCHANGED <<job, at, area, count, ret, written>>
    BY <1>1 DEF StopAddImage, SteeringTypeOK, Autos
  <2> QED
    BY <2>1 DEF Progress, Well
<1> QED
  BY <1>1, ImageProgress, VolumeSystemProgress, AreasProgress, VolumeProgress,
     FileSystemProgress, FilesProgress, FsDoneProgress, FoundProgress, SpaceProgress
     DEF InnerStep

LEMMA StepKeepsProgressInv ==
  ASSUME AllJobsGood, CaseInv, ProgressInv, [Next]_vars
  PROVE  ProgressInv'
<1>1. SteeringTypeOK /\ AllMaps /\ \A a \in Additions : Progress(a)
  BY DEF CaseInv, ProgressInv
<1>2. ASSUME NEW a \in Additions, Apart(a), Progress(a)' PROVE ProgressInv'
  <2>1. ASSUME NEW b \in Additions \ {a} PROVE Progress(b)'
    BY <1>1, <1>2, <2>1 DEF Apart, Progress, Well
  <2> QED
    BY <1>2, <2>1 DEF Apart, ProgressInv
<1>3. ASSUME NEW a \in Additions, InnerStep(a) PROVE ProgressInv'
  BY <1>1, <1>2, <1>3, StepApart, InnerProgress
<1>4. ASSUME NEW a \in Additions, Start(a) PROVE ProgressInv'
  <2>1. /\ Apart(a) /\ job'[a] \in Jobs[a] /\ at[a] = "new"
        /\ UNCHANGED <<area, count>>
        /\ (at'[a] = "open" \/ (at'[a] = "returned" /\ ret'[a] = 1))
    BY <1>1, <1>4 DEF Start, MayStart, Apart, AllMaps, IsMap, SteeringTypeOK, Goto, Return
  <2>2. GoodJob(job'[a]) /\ area[a] = 1 /\ count[a] = 0
    BY <1>1, <2>1 DEF AllJobsGood, Progress
  <2>3. ASSUME at'[a] = "open" PROVE Progress(a)'
    <3>1. AddedAt("open", a, job'[a], area'[a], count'[a], written'[a])
      BY <2>1, <2>2 DEF AddedAt
    <3>2. "open" \in OnTheWay
      BY DEF OnTheWay
    <3> QED
      BY <2>2, <2>3, <3>1, <3>2, OnTheWayBy
  <2>4. ASSUME at'[a] = "returned", ret'[a] = 1 PROVE Progress(a)'
    BY <2>4 DEF Progress, OnTheWay
  <2> QED
    BY <1>2, <2>1, <2>3, <2>4
<1>5. ASSUME NEW a \in Additions, StartRefused(a) \/ OpenFailed(a) PROVE ProgressInv'
  <2>1. Apart(a) /\ at'[a] = "returned" /\ ret'[a] = 1
    BY <1>1, <1>5
       DEF StartRefused, OpenFailed, Apart, AllMaps, IsMap, SteeringTypeOK, Goto, Return, Closed
  <2>2. Progress(a)'
    BY <2>1 DEF Progress, OnTheWay
  <2> QED
    BY <1>2, <2>1, <2>2
<1>6. ASSUME NEW a \in Additions, RevertAddImage(a) \/ CommitAddImage(a) \/ NothingToEnd(a)
      PROVE  ProgressInv'
  <2>1. /\ UNCHANGED <<job, at, area, count, ret, written>>
        /\ UNCHANGED auto \/ Closed(a)
    BY <1>6 DEF RevertAddImage, CommitAddImage, NothingToEnd
  <2>2. \A b \in Additions : auto'[b].stop = auto[b].stop /\ auto'[b].errors = auto[b].errors
    BY <1>1, <2>1 DEF Closed, SteeringTypeOK, Autos
  <2> QED
    BY <1>1, <2>1, <2>2 DEF ProgressInv, AllMaps, IsMap, Progress, Well
<1>7. CASE Crash
  <2>1. /\ UNCHANGED <<job, auto, area, count, ret, written>>
        /\ \A b \in Additions : at'[b] = at[b] \/ at'[b] = "gone"
    BY <1>7 DEF Crash
  <2> QED
    BY <1>1, <2>1 DEF ProgressInv, AllMaps, IsMap, Progress, Well, OnTheWay, FoundAll
<1>8. CASE UNCHANGED vars
  BY <1>1, <1>8 DEF vars, ProgressInv, AllMaps, IsMap, Progress, Well
<1> QED
  BY <1>3, <1>4, <1>5, <1>6, <1>7, <1>8 DEF Next, Step, InnerStep

(* At every place, an addition has added what AddedAt says.                 *)
THEOREM ProgressInvariance ==
  ASSUME AllJobsGood
  PROVE  Spec => []ProgressInv
<1>1. Init => ProgressInv
  <2> SUFFICES ASSUME Init PROVE ProgressInv
    OBVIOUS
  <2>1. AllMaps
    BY DEF Init, AllMaps, IsMap
  <2>2. \A a \in Additions : at[a] = "new" /\ area[a] = 1 /\ count[a] = 0
    BY DEF Init
  <2> QED
    BY <2>1, <2>2 DEF ProgressInv, Progress, OnTheWay, FoundAll
<1>2. CaseInv /\ ProgressInv /\ [Next]_vars => ProgressInv'
  BY StepKeepsProgressInv
<1> QED
  BY <1>1, <1>2, CaseInvariance, PTL DEF Spec

-----------------------------------------------------------------------------
(* The ranges of a file of free blocks, in their order *)
FreeRange == [first : Nat, last : Nat, seq : Nat]

Ascends(s) ==
  /\ s \in Seq(FreeRange)
  /\ \A n \in 1 .. Len(s) : s[n].first <= s[n].last
  /\ \A m, n \in 1 .. Len(s) : m < n => s[m].last < s[n].first
  /\ IsFiniteSet(BlocksOf(s))

(* No free block is next to a range. *)
Longest(free, s) == \A n \in 1 .. Len(s) : s[n].first - 1 \notin free /\ s[n].last + 1 \notin free

(* Nothing has been collected. *)
LEMMA NoRanges ==
  /\ Ascends(<<>>) /\ BlocksOf(<<>>) = {} /\ SizeIs(<<>>) = 0
  /\ \A free : Longest(free, <<>>)
<1>1. BlocksOf(<<>>) = {}
  BY DEF BlocksOf
<1> QED
  BY <1>1, FS_EmptySet DEF Ascends, SizeIs, Longest

(* The blocks of ranges are numbers, among them the ends of each. *)
LEMMA RangesAre ==
  ASSUME NEW s, Ascends(s)
  PROVE  /\ BlocksOf(s) \subseteq Nat /\ SizeIs(s) \in Nat /\ Len(s) \in Nat /\ DOMAIN s = 1 .. Len(s)
         /\ \A n \in 1 .. Len(s) : s[n].first \in BlocksOf(s) /\ s[n].last \in BlocksOf(s)
         /\ \A m, n \in 1 .. Len(s) : m # n => Blocks(s[m]) \cap Blocks(s[n]) = {}
<1>1. /\ Len(s) \in Nat /\ DOMAIN s = 1 .. Len(s)
      /\ \A n \in 1 .. Len(s) : s[n].first \in Nat /\ s[n].last \in Nat
  <2>1. s \in Seq(FreeRange)
    BY DEF Ascends
  <2>2. \A n \in 1 .. Len(s) : s[n] \in FreeRange
    BY <2>1
  <2> QED
    BY <2>1, <2>2 DEF FreeRange
<1>2. SizeIs(s) \in Nat
  BY FS_CardinalityType DEF Ascends, SizeIs
<1>3. BlocksOf(s) \subseteq Nat
  BY <1>1 DEF BlocksOf, Blocks
<1>4. ASSUME NEW n \in 1 .. Len(s) PROVE s[n].first \in BlocksOf(s) /\ s[n].last \in BlocksOf(s)
  <2>1. s[n].first \in Blocks(s[n]) /\ s[n].last \in Blocks(s[n])
    BY <1>1 DEF Ascends, Blocks
  <2> QED
    BY <1>1, <2>1 DEF BlocksOf
<1>5. ASSUME NEW m \in 1 .. Len(s), NEW n \in 1 .. Len(s), m < n
      PROVE  Blocks(s[m]) \cap Blocks(s[n]) = {}
  <2>1. s[m].last < s[n].first
    BY <1>5 DEF Ascends
  <2> QED
    BY <1>1, <2>1 DEF Blocks
<1>6. \A m, n \in 1 .. Len(s) : m # n => m < n \/ n < m
  BY <1>1
<1> QED
  BY <1>1, <1>2, <1>3, <1>4, <1>5, <1>6

(* A range behind those that there are *)
LEMMA OneMoreRange ==
  ASSUME NEW s, Ascends(s), NEW r \in FreeRange, r.first <= r.last,
         \A b \in BlocksOf(s) : b < r.first
  PROVE  /\ Ascends(Append(s, r))
         /\ BlocksOf(Append(s, r)) = BlocksOf(s) \union (r.first .. r.last)
         /\ SizeIs(Append(s, r)) = SizeIs(s) + ((r.last - r.first) + 1)
         /\ Front(Append(s, r)) = s
         /\ Len(Append(s, r)) = Len(s) + 1
         /\ \A free : Longest(free, s) /\ r.first - 1 \notin free /\ r.last + 1 \notin free
                        => Longest(free, Append(s, r))
<1> DEFINE t == Append(s, r)
<1>1. /\ Len(s) \in Nat /\ SizeIs(s) \in Nat /\ BlocksOf(s) \subseteq Nat /\ DOMAIN s = 1 .. Len(s)
      /\ \A n \in 1 .. Len(s) : s[n].last \in BlocksOf(s)
      /\ s \in Seq(FreeRange)
  BY RangesAre DEF Ascends
<1>2. /\ t \in Seq(FreeRange) /\ Len(t) = Len(s) + 1
      /\ \A i \in 1 .. Len(s) : t[i] = s[i]
      /\ t[Len(s) + 1] = r
  BY <1>1, AppendProperties
<1>3. DOMAIN t = 1 .. Len(s) + 1
  BY <1>2
<1> HIDE DEF t
<1>4. BlocksOf(t) = BlocksOf(s) \union Blocks(r)
  <2>1. \A n \in DOMAIN t : n \in DOMAIN s \/ n = Len(s) + 1
    BY <1>1, <1>3
  <2>2. DOMAIN s \subseteq DOMAIN t /\ Len(s) + 1 \in DOMAIN t
    BY <1>1, <1>3
  <2>3. \A n \in DOMAIN s : t[n] = s[n]
    BY <1>1, <1>2
  <2> QED
    BY <1>2, <2>1, <2>2, <2>3, Zenon DEF BlocksOf
<1>5. r.first \in Nat /\ r.last \in Nat
  BY DEF FreeRange
<1>6. IsFiniteSet(Blocks(r)) /\ Cardinality(Blocks(r)) = (r.last - r.first) + 1
  <2>1. r.first \in Int /\ r.last \in Int /\ ~(r.first > r.last)
    BY <1>5
  <2> QED
    BY <2>1, FS_Interval DEF Blocks
<1>7. BlocksOf(s) \cap Blocks(r) = {}
  BY <1>1, <1>5 DEF Blocks
<1>8. /\ IsFiniteSet(BlocksOf(t))
      /\ SizeIs(t) = SizeIs(s) + ((r.last - r.first) + 1)
  <2>1. IsFiniteSet(BlocksOf(s))
    BY DEF Ascends
  <2>2. /\ IsFiniteSet(BlocksOf(s) \union Blocks(r))
        /\ Cardinality(BlocksOf(s) \union Blocks(r)) =
             Cardinality(BlocksOf(s)) + Cardinality(Blocks(r)) - Cardinality({})
    BY <1>6, <1>7, <2>1, FS_Union
  <2>3. Cardinality({}) = 0
    BY FS_EmptySet
  <2> QED
    BY <1>1, <1>4, <1>5, <1>6, <2>2, <2>3 DEF SizeIs
<1>9. Ascends(t)
  <2>1. \A n \in 1 .. Len(t) : n \in 1 .. Len(s) \/ n = Len(s) + 1
    BY <1>1, <1>2
  <2>2. \A n \in 1 .. Len(t) : t[n].first <= t[n].last
    BY <1>2, <2>1 DEF Ascends
  <2>3. ASSUME NEW m \in 1 .. Len(t), NEW n \in 1 .. Len(t), m < n PROVE t[m].last < t[n].first
    <3>1. m \in 1 .. Len(s)
      BY <1>1, <1>2, <2>3
    <3>2. CASE n \in 1 .. Len(s)
      BY <1>2, <2>3, <3>1, <3>2 DEF Ascends
    <3>3. CASE n = Len(s) + 1
      BY <1>1, <1>2, <3>1, <3>3
    <3> QED
      BY <2>1, <3>2, <3>3
  <2> QED
    BY <1>2, <1>8, <2>2, <2>3 DEF Ascends
<1>10. Front(t) = s
  <2>1. Len(t) - 1 = Len(s)
    BY <1>1, <1>2
  <2>2. SubSeq(t, 1, Len(s)) \in Seq(FreeRange) /\ Len(SubSeq(t, 1, Len(s))) = Len(s)
        /\ \A i \in 1 .. Len(s) : SubSeq(t, 1, Len(s))[i] = s[i]
    BY <1>1, <1>2, SubSeqProperties
  <2>3. SubSeq(t, 1, Len(s)) = s
    BY <1>1, <2>2, SeqEqual
  <2> QED
    BY <2>1, <2>3 DEF Front
<1>11. ASSUME NEW free, Longest(free, s), r.first - 1 \notin free, r.last + 1 \notin free
       PROVE  Longest(free, t)
  <2>1. \A n \in 1 .. Len(t) : n \in 1 .. Len(s) \/ n = Len(s) + 1
    BY <1>1, <1>2
  <2> QED
    BY <1>2, <1>11, <2>1 DEF Longest
<1> QED
  BY <1>2, <1>4, <1>8, <1>9, <1>10, <1>11 DEF t, Blocks

ShownBlocks(rows) == UNION {BlocksOf(row.ranges) : row \in rows}

OnceEach(rows) == \A x, y \in rows : x # y => BlocksOf(x.ranges) \cap BlocksOf(y.ranges) = {}

RowDone(free, chunk, row) ==
  /\ Ascends(row.ranges) /\ Longest(free, row.ranges)
  /\ chunk > 0 => SizeIs(Front(row.ranges)) < chunk

RangeOf(first, last, seq) == [first |-> first, last |-> last, seq |-> seq]

(* The ranges t are those of s and, behind them, first .. last. *)
WithLast(t, s, first, last) == \E seq \in Nat : t = Append(s, RangeOf(first, last, seq))

SizeUpTo(size, first, last) == ((size + 1) + last) - first

Seen(free, n) == {c \in free : c <= n}

(* The walk of the free blocks has come to block last: rows have been added, *)
(* the ranges s of the next one are full, and the range from first on is    *)
(* not.                                                                     *)
Collected(free, chunk, rows, s, size, first, last) ==
  /\ free \subseteq Nat /\ chunk \in Int
  /\ \A row \in rows : RowDone(free, chunk, row) /\ FitsChunk(chunk, row.ranges)
  /\ OnceEach(rows)
  /\ Ascends(s) /\ Longest(free, s) /\ size = SizeIs(s)
  /\ chunk > 0 => size < chunk
  /\ chunk < 0 => s = <<>>
  /\ first \in Nat /\ last \in Nat /\ first <= last
  /\ last \in free /\ first - 1 \notin free
  /\ \A c \in BlocksOf(s) : c < first
  /\ \A b \in ShownBlocks(rows) : (\A c \in BlocksOf(s) : b < c) /\ b < first
  /\ ShownBlocks(rows) \union BlocksOf(s) \union (first .. last) = Seen(free, last)

(* The block that the walk comes to next *)
IsNext(free, n, b) ==
  /\ free \subseteq Nat /\ n \in Int
  /\ b \in free /\ b > n /\ \A c \in free : c > n => b <= c

LEMMA NextIs ==
  ASSUME NEW free, NEW n, NEW b, IsNext(free, n, b)
  PROVE  /\ b \in Nat
         /\ Seen(free, b) = Seen(free, n) \union {b}
         /\ b # n + 1 => b - 1 \notin free /\ n + 1 \notin free
<1>1. b \in Nat /\ b > n /\ n \in Int /\ \A c \in free : c \in Nat /\ (c > n => b <= c)
  BY DEF IsNext
<1>2. \A c \in free : c <= b <=> c <= n \/ c = b
  BY <1>1
<1>3. Seen(free, b) = Seen(free, n) \union {b}
  BY <1>2 DEF IsNext, Seen
<1>4. ASSUME b # n + 1 PROVE b - 1 \notin free /\ n + 1 \notin free
  BY <1>1, <1>4
<1> QED
  BY <1>1, <1>3, <1>4

(* isStart *)
LEMMA FirstBlock ==
  ASSUME NEW free, free \subseteq Nat, NEW chunk \in Int, NEW b, IsNext(free, -1, b)
  PROVE  Collected(free, chunk, {}, <<>>, 0, b, b)
<1>1. b \in Nat /\ b \in free
  BY NextIs DEF IsNext
<1>2. Seen(free, b) = {b}
  <2>1. \A c \in free : c \in Nat /\ (c > -1 => b <= c)
    BY DEF IsNext
  <2>2. \A c \in free : c <= b => c = b
    BY <1>1, <2>1
  <2>3. b \in Seen(free, b)
    BY <1>1 DEF Seen
  <2> QED
    BY <2>2, <2>3 DEF Seen
<1>3. b - 1 \notin free
  BY <1>1 DEF IsNext
<1>4. b .. b = {b}
  BY <1>1
<1>5. ShownBlocks({}) = {}
  BY DEF ShownBlocks
<1>6. ShownBlocks({}) \union BlocksOf(<<>>) \union (b .. b) = Seen(free, b)
  BY <1>2, <1>4, <1>5, NoRanges
<1> QED
  BY <1>1, <1>3, <1>5, <1>6, NoRanges DEF Collected, OnceEach

(* A block next to the one before *)
LEMMA SameRange ==
  ASSUME NEW free, NEW chunk, NEW rows, NEW s, NEW size,
         NEW first, NEW last, Collected(free, chunk, rows, s, size, first, last),
         IsNext(free, last, last + 1)
  PROVE  Collected(free, chunk, rows, s, size, first, last + 1)
<1>1. first \in Nat /\ last \in Nat /\ first <= last
  BY DEF Collected
<1>2. first .. last + 1 = (first .. last) \union {last + 1}
  BY <1>1
<1>3. Seen(free, last + 1) = Seen(free, last) \union {last + 1}
  <2>1. last \in Int
    BY <1>1
  <2> QED
    BY <2>1, NextIs
<1>4. ShownBlocks(rows) \union BlocksOf(s) \union (first .. last) = Seen(free, last)
  BY DEF Collected
<1>5. ShownBlocks(rows) \union BlocksOf(s) \union (first .. last + 1) = Seen(free, last + 1)
  BY <1>2, <1>3, <1>4
<1>6. last + 1 \in free /\ first <= last + 1 /\ last + 1 \in Nat
  BY <1>1 DEF IsNext
<1> QED
  BY <1>5, <1>6 DEF Collected

(* The range that ends with block last, which no free block follows *)
LEMMA RangeEnds ==
  ASSUME NEW free, NEW chunk, NEW rows, NEW s, NEW size,
         NEW first, NEW last, Collected(free, chunk, rows, s, size, first, last),
         last + 1 \notin free, NEW t, WithLast(t, s, first, last)
  PROVE  /\ Ascends(t) /\ Longest(free, t) /\ Front(t) = s /\ Len(t) = Len(s) + 1
         /\ SizeIs(t) = SizeUpTo(size, first, last)
         /\ BlocksOf(t) = BlocksOf(s) \union (first .. last)
<1> PICK seq \in Nat : t = Append(s, RangeOf(first, last, seq))
  BY DEF WithLast
<1> DEFINE r == RangeOf(first, last, seq)
<1>1. /\ first \in Nat /\ last \in Nat /\ first <= last /\ first - 1 \notin free
      /\ Ascends(s) /\ Longest(free, s) /\ size = SizeIs(s)
      /\ \A c \in BlocksOf(s) : c < first
  BY DEF Collected
<1>2. r \in FreeRange /\ r.first = first /\ r.last = last
  BY <1>1 DEF FreeRange, RangeOf
<1>3. size \in Nat
  BY <1>1, RangesAre
<1> HIDE DEF r
<1>4. /\ Ascends(Append(s, r))
      /\ BlocksOf(Append(s, r)) = BlocksOf(s) \union (first .. last)
      /\ SizeIs(Append(s, r)) = SizeIs(s) + ((last - first) + 1)
      /\ Front(Append(s, r)) = s
      /\ Len(Append(s, r)) = Len(s) + 1
      /\ Longest(free, Append(s, r))
  BY <1>1, <1>2, OneMoreRange
<1>5. SizeIs(s) + ((last - first) + 1) = SizeUpTo(size, first, last)
  BY <1>1, <1>3 DEF SizeUpTo
<1> QED
  BY <1>4, <1>5 DEF r

(* It becomes the next one of the file. *)
LEMMA NextRange ==
  ASSUME NEW free, NEW chunk, NEW rows, NEW s, NEW size,
         NEW first, NEW last, Collected(free, chunk, rows, s, size, first, last),
         NEW b, IsNext(free, last, b), b # last + 1, NEW t, WithLast(t, s, first, last),
         chunk = 0 \/ (chunk > 0 /\ SizeUpTo(size, first, last) < chunk)
  PROVE  Collected(free, chunk, rows, t, SizeUpTo(size, first, last), b, b)
<1> DEFINE n == SizeUpTo(size, first, last)
<1>1. /\ first \in Nat /\ last \in Nat /\ first <= last
      /\ free \subseteq Nat /\ chunk \in Int
      /\ \A c \in BlocksOf(s) : c < first
      /\ \A c \in ShownBlocks(rows) : (\A d \in BlocksOf(s) : c < d) /\ c < first
      /\ ShownBlocks(rows) \union BlocksOf(s) \union (first .. last) = Seen(free, last)
      /\ \A row \in rows : RowDone(free, chunk, row) /\ FitsChunk(chunk, row.ranges)
      /\ OnceEach(rows)
  BY DEF Collected
<1>2. /\ b \in Nat /\ b > last /\ b \in free /\ last + 1 \notin free /\ b - 1 \notin free
      /\ Seen(free, b) = Seen(free, last) \union {b}
  <2>1. last \in Int
    BY <1>1
  <2>2. /\ b \in Nat /\ (b # last + 1 => b - 1 \notin free /\ last + 1 \notin free)
        /\ Seen(free, b) = Seen(free, last) \union {b}
    BY <2>1, NextIs
  <2>3. b > last /\ b \in free
    BY DEF IsNext
  <2> QED
    BY <2>2, <2>3
<1>3. /\ Ascends(t) /\ Longest(free, t) /\ n = SizeIs(t)
      /\ BlocksOf(t) = BlocksOf(s) \union (first .. last)
  BY <1>2, RangeEnds
<1>4. BlocksOf(t) \union ShownBlocks(rows) = Seen(free, last)
  BY <1>1, <1>3
<1>5. \A c \in BlocksOf(t) \union ShownBlocks(rows) : c < b
  <2>1. \A c \in BlocksOf(t) \union ShownBlocks(rows) : c \in Nat /\ c <= last
    BY <1>1, <1>4 DEF Seen
  <2> QED
    BY <1>1, <1>2, <2>1
<1>6. \A c \in ShownBlocks(rows) : \A d \in BlocksOf(t) : c < d
  <2>1. ASSUME NEW c \in ShownBlocks(rows), NEW d \in first .. last PROVE c < d
    <3>1. c \in Nat /\ c < first
      BY <1>1 DEF Seen
    <3> QED
      BY <1>1, <3>1
  <2> QED
    BY <1>1, <1>3, <2>1
<1>7. ShownBlocks(rows) \union BlocksOf(t) \union (b .. b) = Seen(free, b)
  <2>1. b .. b = {b}
    BY <1>2
  <2> QED
    BY <1>2, <1>4, <2>1
<1>8. (chunk > 0 => n < chunk) /\ ~(chunk < 0)
  BY <1>1
<1> HIDE DEF n
<1>9. b <= b
  BY <1>2
<1>10. Collected(free, chunk, rows, t, n, b, b)
  BY ONLY <1>1, <1>2, <1>3, <1>5, <1>6, <1>7, <1>8, <1>9 DEF Collected
<1> QED
  BY <1>10 DEF n

(* The rows with the one that ends with it *)
LEMMA RowEnds ==
  ASSUME NEW free, NEW chunk, NEW rows, NEW s, NEW size,
         NEW first, NEW last, Collected(free, chunk, rows, s, size, first, last),
         last + 1 \notin free, NEW x, WithLast(x.ranges, s, first, last)
  PROVE  /\ RowDone(free, chunk, x) /\ last \in BlocksOf(x.ranges)
         /\ OnceEach(rows \union {x})
         /\ ShownBlocks(rows \union {x}) = Seen(free, last)
         /\ SizeIs(x.ranges) = SizeUpTo(size, first, last)
         /\ chunk < 0 => Len(x.ranges) = 1
<1>1. /\ Ascends(x.ranges) /\ Longest(free, x.ranges) /\ Front(x.ranges) = s
      /\ Len(x.ranges) = Len(s) + 1
      /\ SizeIs(x.ranges) = SizeUpTo(size, first, last)
      /\ BlocksOf(x.ranges) = BlocksOf(s) \union (first .. last)
  BY RangeEnds
<1>2. /\ first \in Nat /\ last \in Nat /\ first <= last /\ size = SizeIs(s)
      /\ free \subseteq Nat
      /\ chunk > 0 => size < chunk
      /\ chunk < 0 => s = <<>>
      /\ OnceEach(rows)
      /\ \A c \in ShownBlocks(rows) : (\A d \in BlocksOf(s) : c < d) /\ c < first
      /\ ShownBlocks(rows) \union BlocksOf(s) \union (first .. last) = Seen(free, last)
  BY DEF Collected
<1>3. last \in first .. last
  BY <1>2
<1>4. ShownBlocks(rows \union {x}) = ShownBlocks(rows) \union BlocksOf(x.ranges)
  BY DEF ShownBlocks
<1>5. ASSUME NEW y \in rows PROVE BlocksOf(y.ranges) \cap BlocksOf(x.ranges) = {}
  <2>1. BlocksOf(y.ranges) \subseteq ShownBlocks(rows)
    BY DEF ShownBlocks
  <2>2. ASSUME NEW c \in BlocksOf(y.ranges), c \in BlocksOf(x.ranges) PROVE FALSE
    <3>1. c \in Seen(free, last) /\ (\A d \in BlocksOf(s) : c < d) /\ c < first
      BY <1>2, <2>1
    <3>2. c \in Nat
      BY <1>2, <3>1 DEF Seen
    <3>3. CASE c \in BlocksOf(s)
      BY <3>1, <3>2, <3>3
    <3>4. CASE c \in first .. last
      BY <1>2, <3>1, <3>2, <3>4
    <3> QED
      BY <1>1, <2>2, <3>3, <3>4
  <2> QED
    BY <2>2
<1>6. OnceEach(rows \union {x})
  BY <1>2, <1>5 DEF OnceEach
<1>7. RowDone(free, chunk, x)
  BY <1>1, <1>2 DEF RowDone
<1>8. chunk < 0 => Len(x.ranges) = 1
  <2>1. Len(<<>>) = 0
    OBVIOUS
  <2> QED
    BY <1>1, <1>2, <2>1
<1> QED
  BY <1>1, <1>2, <1>3, <1>4, <1>6, <1>7, <1>8

(* The file is full, and the next one begins. *)
LEMMA NextRow ==
  ASSUME NEW free, NEW chunk, NEW rows, NEW s, NEW size,
         NEW first, NEW last, Collected(free, chunk, rows, s, size, first, last),
         NEW b, IsNext(free, last, b), b # last + 1,
         ~(chunk = 0 \/ (chunk > 0 /\ SizeUpTo(size, first, last) < chunk)),
         NEW x, WithLast(x.ranges, s, first, last)
  PROVE  Collected(free, chunk, rows \union {x}, <<>>, 0, b, b)
<1>1. /\ first \in Nat /\ last \in Nat /\ Ascends(s) /\ size = SizeIs(s)
      /\ free \subseteq Nat /\ chunk \in Int
      /\ \A row \in rows : RowDone(free, chunk, row) /\ FitsChunk(chunk, row.ranges)
  BY DEF Collected
<1>2. /\ b \in Nat /\ b > last /\ b \in free /\ last + 1 \notin free /\ b - 1 \notin free
      /\ Seen(free, b) = Seen(free, last) \union {b}
  <2>1. last \in Int
    BY <1>1
  <2>2. /\ b \in Nat /\ (b # last + 1 => b - 1 \notin free /\ last + 1 \notin free)
        /\ Seen(free, b) = Seen(free, last) \union {b}
    BY <2>1, NextIs
  <2>3. b > last /\ b \in free
    BY DEF IsNext
  <2> QED
    BY <2>2, <2>3
<1>3. /\ RowDone(free, chunk, x)
      /\ OnceEach(rows \union {x})
      /\ ShownBlocks(rows \union {x}) = Seen(free, last)
      /\ SizeIs(x.ranges) = SizeUpTo(size, first, last)
      /\ chunk < 0 => Len(x.ranges) = 1
  BY <1>2, RowEnds
<1>4. FitsChunk(chunk, x.ranges)
  <2>1. size \in Nat
    BY <1>1, RangesAre
  <2> QED
    BY <1>1, <1>3, <2>1 DEF FitsChunk, SizeUpTo
<1>5. \A row \in rows \union {x} : RowDone(free, chunk, row) /\ FitsChunk(chunk, row.ranges)
  BY <1>1, <1>3, <1>4
<1>6. \A c \in ShownBlocks(rows \union {x}) : c < b
  <2>1. \A c \in ShownBlocks(rows \union {x}) : c \in Nat /\ c <= last
    BY <1>1, <1>3 DEF Seen
  <2> QED
    BY <1>1, <1>2, <2>1
<1>7. ShownBlocks(rows \union {x}) \union BlocksOf(<<>>) \union (b .. b) = Seen(free, b)
  <2>1. b .. b = {b}
    BY <1>2
  <2> QED
    BY <1>2, <1>3, <2>1, NoRanges
<1>8. chunk > 0 => 0 < chunk
  OBVIOUS
<1>9. b <= b
  BY <1>2
<1>10. /\ Ascends(<<>>) /\ Longest(free, <<>>) /\ 0 = SizeIs(<<>>)
       /\ \A c \in BlocksOf(<<>>) : c < b
       /\ \A c \in ShownBlocks(rows \union {x}) : \A d \in BlocksOf(<<>>) : c < d
  BY NoRanges
<1>11. /\ OnceEach(rows \union {x}) /\ free \subseteq Nat /\ chunk \in Int
       /\ b \in Nat /\ b \in free /\ b - 1 \notin free
  BY <1>1, <1>2, <1>3
<1> QED
  BY ONLY <1>5, <1>6, <1>7, <1>8, <1>9, <1>10, <1>11 DEF Collected

(* After the last block *)
LEMMA LastRow ==
  ASSUME NEW free, NEW chunk, NEW rows, NEW s, NEW size,
         NEW first, NEW last, Collected(free, chunk, rows, s, size, first, last),
         \A c \in free : ~(c > last),
         NEW x, WithLast(x.ranges, s, first, last)
  PROVE  FreeExact(free, chunk, rows \union {x})
<1>1. /\ first \in Nat /\ last \in Nat /\ last \in free /\ free \subseteq Nat
      /\ \A row \in rows : RowDone(free, chunk, row) /\ FitsChunk(chunk, row.ranges)
  BY DEF Collected
<1>2. last + 1 \notin free
  BY <1>1
<1>3. /\ RowDone(free, chunk, x) /\ last \in BlocksOf(x.ranges)
      /\ OnceEach(rows \union {x})
      /\ ShownBlocks(rows \union {x}) = Seen(free, last)
  BY <1>2, RowEnds
<1>4. Seen(free, last) = free
  <2>1. \A c \in free : c <= last
    BY <1>1
  <2> QED
    BY <2>1 DEF Seen
<1>5. Max(free) = last
  <2>1. \A c \in free : last >= c
    BY <1>1
  <2>2. \A m \in free : (\A c \in free : m >= c) => m = last
    BY <1>1, <2>1
  <2> QED
    BY <1>1, <2>1, <2>2 DEF Max
<1>6. \A row \in rows \union {x} : RowDone(free, chunk, row)
  BY <1>1, <1>3
<1>7. \A row \in rows \union {x} : last \in BlocksOf(row.ranges) \/ FitsChunk(chunk, row.ranges)
  BY <1>1, <1>3
<1>8. ASSUME NEW row \in rows \union {x}
      PROVE  /\ \A m, n \in DOMAIN row.ranges :
                  m # n => Blocks(row.ranges[m]) \cap Blocks(row.ranges[n]) = {}
             /\ \A n \in DOMAIN row.ranges :
                  row.ranges[n].first - 1 \notin free /\ row.ranges[n].last + 1 \notin free
             /\ chunk > 0 => SizeIs(Front(row.ranges)) < chunk
  <2>1. Ascends(row.ranges) /\ Longest(free, row.ranges) /\ (chunk > 0 => SizeIs(Front(row.ranges)) < chunk)
    BY <1>6 DEF RowDone
  <2> QED
    BY <2>1, RangesAre DEF Longest
<1>9. UNION {BlocksOf(row.ranges) : row \in rows \union {x}} = free
  BY <1>3, <1>4 DEF ShownBlocks
<1>10. \A v, w \in rows \union {x} : v # w => BlocksOf(v.ranges) \cap BlocksOf(w.ranges) = {}
  BY <1>3 DEF OnceEach
<1> QED
  BY <1>5, <1>7, <1>8, <1>9, <1>10 DEF FreeExact

(* What of an image has a file system, and what is a volume *)
FsAreas(j) == {i \in 1 .. Len(j.areas) : j.areas[i].fs # NoFs /\ j.areas[i].kind # "meta"}

VolumeAreas(j) == {i \in 1 .. Len(j.areas) : j.vs /\ j.areas[i].kind # "meta"}

FreeVolumes(j) == {i \in VolumeAreas(j) : j.areas[i].kind = "unalloc" \/ i \notin FsAreas(j)}

UpTo(S, n) == {i \in S : i <= n}

AreasOf(w, what) == {row.area : row \in {r \in w : r.what = what}}

FreeRows(w, i) == {row \in w : row.what = "free blocks" /\ row.area = i}

(* The rows w show the file systems of F and the volumes of V. *)
Shows(w, F, V) == AreasOf(w, "fs") = F /\ AreasOf(w, "volume") = V

SpaceKinds == {"free blocks", "volume space", "image space"}

NoSpace(w) == \A row \in w : row.what \notin SpaceKinds

OnlyFree(w) == \A row \in w : row.what \notin {"volume space", "image space"}

(* The free blocks of the file systems up to area i have their rows. *)
FreeUpTo(j, i, w) ==
  \A k \in FsAreas(j) : k <= i /\ j.areas[k].fs.free # {} =>
    FreeExact(j.areas[k].fs.free, j.chunk, FreeRows(w, k))

NoneAfter(j, i, w) == \A k \in FsAreas(j) : k > i => FreeRows(w, k) = {}

Collecting(free, chunk, rows, t, n) ==
  \/ t.isStart /\ n = -1 /\ rows = {} /\ t.ranges = <<>> /\ t.size = 0
  \/ ~t.isStart /\ n = t.prev
     /\ Collected(free, chunk, rows, t.ranges, t.size, t.start, t.prev)

SpaceExact(a, j, w) ==
  /\ FreeUpTo(j, Len(j.areas), w)
  /\ AreasOf(w, "volume space") = FreeVolumes(j)
  /\ Row(a, "image space", 0, 0) \in w <=> VolumeAreas(j) = {} /\ FsAreas(j) = {}

(* What has been added at each place l, if nothing failed and nobody asked  *)
(* to stop: of job j, in area i, at file or volume n, with track t, rows w. *)
Surveyed(l, j, i, w) ==
  /\ i \in Nat /\ NoSpace(w)
  /\ l \in {"open", "vs"} => i = 1 /\ Shows(w, {}, {})
  /\ l = "vs" => j.vs
  /\ l = "area" => i > 0 /\ j.vs /\ Shows(w, UpTo(FsAreas(j), i - 1), UpTo(VolumeAreas(j), i - 1))
  /\ l \in {"fs", "files", "fs done"} =>
       i \in 1 .. Len(j.areas) /\ j.areas[i].kind # "meta"
  /\ l = "fs" => Shows(w, UpTo(FsAreas(j), i - 1), UpTo(VolumeAreas(j), i))
  /\ l \in {"files", "fs done"} => Shows(w, UpTo(FsAreas(j), i), UpTo(VolumeAreas(j), i))
  /\ l \in {"found", "fs space"} => Shows(w, FsAreas(j), VolumeAreas(j))

SpaceAt(l, j, i, n, t, w) ==
  /\ i \in Nat /\ Shows(w, FsAreas(j), VolumeAreas(j))
  /\ t.numFs = Cardinality(FsAreas(j))
  /\ l \in {"next fs", "blocks", "vs space"} => OnlyFree(w)
  /\ l = "next fs" => FreeUpTo(j, i, w) /\ NoneAfter(j, i, w)
  /\ l = "blocks" =>
       /\ i \in FsAreas(j) /\ FreeUpTo(j, i - 1, w) /\ NoneAfter(j, i, w)
       /\ Collecting(j.areas[i].fs.free, j.chunk, FreeRows(w, i), t, n)
  /\ l \in {"vs space", "volumes", "image space"} => FreeUpTo(j, Len(j.areas), w)
  /\ l \in {"volumes", "image space"} =>
       t.numVs = Cardinality(VolumeAreas(j)) /\ AreasOf(w, "image space") = {}
  /\ l = "volumes" => n \in Nat /\ AreasOf(w, "volume space") = UpTo(FreeVolumes(j), n)
  /\ l = "image space" => AreasOf(w, "volume space") = FreeVolumes(j)

Surveys == {"open", "vs", "area", "fs", "files", "fs done", "found", "fs space"}
Spaces == {"next fs", "blocks", "vs space", "volumes", "image space"}

Members == {"start", "prev", "size", "ranges", "isStart", "numFs", "numVs", "err"}

IsTrack(t) == t = [m \in Members |-> t[m]]

TracksOK == IsMap(track) /\ \A a \in Additions : IsTrack(track[a])

Clean(a) == faults = 0 /\ auto[a].stop = "no"

Stands(a) ==
  /\ at[a] # "not opened"
  /\ at[a] \in Surveys => Surveyed(at[a], job[a], area[a], written[a])
  /\ at[a] \in Spaces => SpaceAt(at[a], job[a], area[a], count[a], track[a], written[a])
  /\ at[a] = "returned" /\ job[a] # NoJob => SpaceExact(a, job[a], written[a])

SpaceOf(a) ==
  /\ at[a] = "new" => area[a] = 1 /\ job[a] = NoJob
  /\ at[a] \in Surveys \union Spaces => GoodJob(job[a]) /\ RowsOf(a, Visible(db)) = written[a]
  /\ Clean(a) => Stands(a)

SpaceInv == faults \in Nat /\ TracksOK /\ \A a \in Additions : SpaceOf(a)

(* The file systems that an addition has found, and that their root         *)
(* directories have been added, too                                         *)
FsOf(a) == AreasOf(written[a], "fs")

RootIn(a, i) == Row(a, "file", i, 0) \in written[a]

Rooted(a) == \A i \in FsOf(a) : RootIn(a, i)

FirstPlaces == {"open", "vs"}
EarlyPlaces == {"open", "vs", "area", "fs"}
FsPlaces == {"fs", "files", "fs done"}
WalkPlaces == {"next fs", "blocks"}
LatePlaces == {"vs space", "volumes", "image space"}

LocatedAt(l, j, i, n) ==
  /\ l \in FirstPlaces => i = 1
  /\ l \in EarlyPlaces => n = 0
  /\ l \in OnTheWay => i \in Nat \ {0}
  /\ l \in FsPlaces => i <= Len(j.areas)
  /\ l = "files" => j.areas[i].fs # NoFs
  /\ l \in WalkPlaces => i \in Nat

Located(a) ==
  LocatedAt(at[a], job[a], area[a], count[a]) /\ FsOf(a) \subseteq Nat \ {0}

(* If nothing failed, every root is added but for the one that is to be     *)
(* added next; if one was passed over, the answer is not 0, since the       *)
(* directory of the free blocks was refused.                                *)
RootOrNext(a, i) == RootIn(a, i) \/ (at[a] = "files" /\ count[a] = 0 /\ area[a] = i)

CleanRoots(a) == Clean(a) /\ at[a] # "gone" => \A i \in FsOf(a) : RootOrNext(a, i)

RootedUpTo(a, n) == \A i \in FsOf(a) : i <= n => RootIn(a, i)

SeenRoots(a) ==
  auto[a].stop = "no" =>
    /\ at[a] \in WalkPlaces /\ ~track[a].err => RootedUpTo(a, area[a])
    /\ at[a] \in LatePlaces /\ ~track[a].err => Rooted(a)
    /\ at[a] = "returned" /\ ret[a] = 0 => Rooted(a)

RootsOf(a) == Located(a) /\ CleanRoots(a) /\ SeenRoots(a)

RootInv == \A a \in Additions : RootsOf(a)

-----------------------------------------------------------------------------
(* Whatever an addition does, it keeps its job, leaves the tracks of the    *)
(* others alone, and neither forgets a fault nor a stop.                    *)
Onward(a) ==
  /\ IsMap(track)' /\ \A b \in Additions \ {a} : track'[b] = track[b]
  /\ UNCHANGED job /\ at'[a] # "new"
  /\ auto'[a].stop = "no" => auto[a].stop = "no"
  /\ NoFault \/ Fault

LEMMA StepOnward ==
  ASSUME SteeringTypeOK, IsMap(track), NEW a \in Additions, InnerStep(a)
  PROVE  Onward(a)
<1>0. \/ UNCHANGED auto \/ Register(a) \/ auto' = [auto EXCEPT ![a].found = TRUE]
      \/ auto' = [auto EXCEPT ![a].found = TRUE, ![a].errors = TRUE]
      => auto'[a].stop = auto[a].stop
  BY DEF Register, SteeringTypeOK, Autos
<1> USE DEF Goto, IsMap, Onward, SteeringTypeOK
<1>1. CASE OpenImage(a)
  BY <1>0, <1>1 DEF OpenImage, Return, NoFault
<1>2. CASE VolumeSystem(a)
  BY <1>0, <1>2 DEF VolumeSystem, NoFault
<1>3. CASE NoMoreAreas(a)
  BY <1>0, <1>3 DEF NoMoreAreas, GiveUp, NoFault
<1>4. CASE SkipMeta(a)
  BY <1>0, <1>4 DEF SkipMeta, NextArea, NoFault
<1>5. CASE Volume(a)
  BY <1>0, <1>5 DEF Volume, NoFault
<1>6. CASE NoFileSystem(a)
  BY <1>0, <1>6 DEF NoFileSystem, LeaveFs, NoFault
<1>7. CASE FileSystem(a)
  BY <1>0, <1>7 DEF FileSystem, NoFault
<1>8. CASE File(a)
  BY <1>0, <1>8 DEF File, NoFault
<1>9. CASE FilesEnd(a)
  BY <1>0, <1>9 DEF FilesEnd, LeaveFs, NoFault
<1>10. CASE WalkFails(a)
  BY <1>0, <1>10 DEF WalkFails, LeaveFs, NoFault
<1>11. CASE FsDone(a)
  BY <1>0, <1>11 DEF FsDone, AfterFs, NextArea, GiveUp, NoFault
<1>12. CASE Found(a)
  BY <1>0, <1>12 DEF Found, NoFault
<1>13. CASE FsSpace(a)
  BY <1>0, <1>13 DEF FsSpace, Problem, NoFault
<1>14. CASE NoMoreFs(a)
  BY <1>0, <1>14 DEF NoMoreFs, NoFault
<1>15. CASE OpenFs(a)
  BY <1>0, <1>15 DEF OpenFs, Problem, NoFault
<1>16. CASE Block(a)
  BY <1>0, <1>16 DEF Block, NoFault
<1>17. CASE BlocksEnd(a)
  BY <1>0, <1>17 DEF BlocksEnd, Problem, NoFault
<1>18. CASE BlocksStop(a)
  BY <1>0, <1>18 DEF BlocksStop, NoFault
<1>19. CASE BlocksFail(a)
  BY <1>0, <1>19 DEF BlocksFail, Problem, NoFault
<1>20. CASE VsSpace(a)
  BY <1>0, <1>20 DEF VsSpace, NoFault
<1>21. CASE NoMoreVolumes(a)
  BY <1>0, <1>21 DEF NoMoreVolumes, NoFault
<1>22. CASE VolumeSpace(a)
  BY <1>0, <1>22 DEF VolumeSpace, Problem, NoFault
<1>23. CASE ImageSpace(a)
  BY <1>0, <1>23 DEF ImageSpace, Answer, Return, NoFault
<1>24. CASE StopAddImage(a)
  BY <1>24 DEF StopAddImage, Running, NoFault, Autos
<1> QED
  BY <1>1, <1>2, <1>3, <1>4, <1>5, <1>6, <1>7, <1>8, <1>9, <1>10, <1>11, <1>12, <1>13, <1>14, <1>15, <1>16, <1>17, <1>18, <1>19, <1>20, <1>21, <1>22, <1>23, <1>24 DEF InnerStep

(* The members of a track stay what they are. *)
LEMMA TracksStay ==
  ASSUME SteeringTypeOK, TracksOK, NEW a \in Additions, InnerStep(a)
  PROVE  TracksOK'
<1> DEFINE t == track[a]
<1>1. IsMap(track) /\ IsTrack(t)
  BY DEF TracksOK
<1>2. UNCHANGED track \/ IsTrack(track'[a])
  <2> SUFFICES ASSUME track' # track PROVE IsTrack(track'[a])
    OBVIOUS
  <2>1. CASE Problem(a)
    <3>1. track'[a] = [t EXCEPT !.err = TRUE]
      BY <1>1, <2>1 DEF Problem, IsMap
    <3> QED
      BY <1>1, <3>1 DEF IsTrack, Members
  <2>2. CASE FsSpace(a) /\ ~Problem(a)
    <3>1. PICK n : track'[a] = [t EXCEPT !.numFs = n]
      BY <1>1, <2>2 DEF FsSpace, IsMap
    <3> QED
      BY <1>1, <3>1 DEF IsTrack, Members
  <2>3. CASE OpenFs(a) /\ ~Problem(a)
    <3>1. track'[a] = [NoTrack EXCEPT !.numFs = t.numFs, !.err = t.err]
      BY <1>1, <2>3 DEF OpenFs, IsMap
    <3> QED
      BY <3>1 DEF NoTrack, IsTrack, Members
  <2>4. CASE VsSpace(a)
    <3>1. \E n : track'[a] = [t EXCEPT !.numVs = n] \/ track'[a] = [t EXCEPT !.numVs = n, !.err = TRUE]
      BY <1>1, <2>4 DEF VsSpace, IsMap
    <3> QED
      BY <1>1, <3>1 DEF IsTrack, Members
  <2>5. CASE Block(a)
    <3> DEFINE b == Min(LaterFree(a))
               next == [NextRangeAt(t, b) EXCEPT !.ranges = WithRange(t), !.size = SizeOf(t)]
    <3>1. \/ track'[a] = [NextRangeAt(t, b) EXCEPT !.isStart = FALSE]
          \/ track'[a] = [t EXCEPT !.prev = b]
          \/ track'[a] = next
          \/ track'[a] = [next EXCEPT !.ranges = <<>>, !.size = 0]
      BY <1>1, <2>5 DEF Block, IsMap
    <3>2. IsTrack(next)
      BY <1>1 DEF NextRangeAt, IsTrack, Members
    <3> HIDE DEF next, b
    <3>3. IsTrack([next EXCEPT !.ranges = <<>>, !.size = 0])
      BY <3>2 DEF IsTrack, Members
    <3>4. IsTrack([NextRangeAt(t, b) EXCEPT !.isStart = FALSE]) /\ IsTrack([t EXCEPT !.prev = b])
      BY <1>1 DEF NextRangeAt, IsTrack, Members
    <3> QED
      BY <3>1, <3>2, <3>3, <3>4
  <2> QED
    BY <2>1, <2>2, <2>3, <2>4, <2>5
       DEF InnerStep, OpenImage, VolumeSystem, NoMoreAreas, SkipMeta, Volume, NoFileSystem,
           FileSystem, File, FilesEnd, WalkFails, FsDone, Found, NoMoreFs, BlocksEnd, BlocksStop,
           BlocksFail, NoMoreVolumes, VolumeSpace, ImageSpace, StopAddImage
<1>3. IsMap(track)' /\ \A b \in Additions \ {a} : track'[b] = track[b]
  BY <1>1, StepOnward DEF Onward
<1>4. CASE UNCHANGED track
  BY <1>4 DEF TracksOK, IsMap
<1>5. CASE IsTrack(track'[a])
  BY <1>3, <1>5 DEF TracksOK
<1> QED
  BY <1>2, <1>4, <1>5

(* Each row that it adds is seen in the case database, too. *)
LEMMA SeesItsRows ==
  ASSUME IsCase(db), SteeringTypeOK, NEW a \in Additions, Inserts(a),
         RowsOf(a, Visible(db)) = written[a]
  PROVE  RowsOf(a, Visible(db)') = written'[a]
<1>1. CASE UNCHANGED <<db, written>>
  BY <1>1
<1>2. ASSUME NEW row, row.of = a, db' = Inserted(db, row),
             written' = [written EXCEPT ![a] = @ \union {row}]
      PROVE  RowsOf(a, Visible(db)') = written'[a]
  <2>1. Visible(db)' = Visible(db) \union {row}
    BY <1>2, InsertedCase DEF Visible
  <2>2. written'[a] = written[a] \union {row}
    BY <1>2 DEF SteeringTypeOK
  <2> QED
    BY <1>2, <2>1, <2>2 DEF RowsOf
<1> QED
  BY <1>1, <1>2 DEF Inserts

LEMMA AreasWithAre ==
  ASSUME NEW a, RowsOf(a, Visible(db)) = written[a]
  PROVE  \A what : AreasWith(a, what) = AreasOf(written[a], what)
BY DEF RowsOf, AreasWith, AreasOf

(* Rows x are rows w and one more. *)
IsMore(x, w, what, i) == \E a, n : x = w \union {Row(a, what, i, n)}

LEMMA InsertMore ==
  ASSUME SteeringTypeOK, NEW a \in Additions, NEW what, NEW i, NEW n, Insert(a, Row(a, what, i, n))
  PROVE  IsMore(written'[a], written[a], what, i)
<1>1. written'[a] = written[a] \union {Row(a, what, i, n)}
  BY InsertWrites
<1> QED
  BY <1>1 DEF IsMore

LEMMA RowAreas ==
  ASSUME NEW w, NEW x, NEW what, NEW i, IsMore(x, w, what, i)
  PROVE  /\ AreasOf(x, what) = AreasOf(w, what) \union {i}
         /\ \A k : k # what => AreasOf(x, k) = AreasOf(w, k)
<1>1. PICK r : r.what = what /\ r.area = i /\ x = w \union {r}
  <2>1. PICK a, n : x = w \union {Row(a, what, i, n)}
    BY DEF IsMore
  <2>2. Row(a, what, i, n).what = what /\ Row(a, what, i, n).area = i
    BY DEF Row
  <2> QED
    BY <2>1, <2>2
<1>2. AreasOf(x, what) = AreasOf(w, what) \union {i}
  BY <1>1 DEF AreasOf
<1>3. ASSUME NEW k, k # what PROVE AreasOf(x, k) = AreasOf(w, k)
  BY <1>1, <1>3 DEF AreasOf
<1> QED
  BY <1>2, <1>3

LEMMA RowFree ==
  ASSUME NEW w, NEW x, NEW what, NEW i, IsMore(x, w, what, i), what # "free blocks"
  PROVE  \A k : FreeRows(x, k) = FreeRows(w, k)
<1>1. PICK r : r.what = what /\ r.area = i /\ x = w \union {r}
  <2>1. PICK a, n : x = w \union {Row(a, what, i, n)}
    BY DEF IsMore
  <2>2. Row(a, what, i, n).what = what /\ Row(a, what, i, n).area = i
    BY DEF Row
  <2> QED
    BY <2>1, <2>2
<1> QED
  BY <1>1 DEF FreeRows

LEMMA RowSpace ==
  ASSUME NEW w, NEW x, NEW what, NEW i, IsMore(x, w, what, i)
  PROVE  /\ NoSpace(w) /\ what \notin SpaceKinds => NoSpace(x)
         /\ OnlyFree(w) /\ what \notin {"volume space", "image space"} => OnlyFree(x)
<1>1. PICK r : r.what = what /\ r.area = i /\ x = w \union {r}
  <2>1. PICK a, n : x = w \union {Row(a, what, i, n)}
    BY DEF IsMore
  <2>2. Row(a, what, i, n).what = what /\ Row(a, what, i, n).area = i
    BY DEF Row
  <2> QED
    BY <2>1, <2>2
<1>2. NoSpace(w) /\ what \notin SpaceKinds => NoSpace(x)
  BY <1>1 DEF NoSpace
<1>3. OnlyFree(w) /\ what \notin {"volume space", "image space"} => OnlyFree(x)
  BY <1>1 DEF OnlyFree
<1> QED
  BY <1>2, <1>3

(* A row on the way shows a file system, a volume or neither. *)
LEMMA OtherRow ==
  ASSUME NEW w, NEW F, NEW V, Shows(w, F, V), NoSpace(w), NEW x, NEW i,
         NEW what, IsMore(x, w, what, i), what = "image" \/ what = "vs" \/ what = "file"
  PROVE  Shows(x, F, V) /\ NoSpace(x)
<1>1. \A k : k # what => AreasOf(x, k) = AreasOf(w, k)
  BY RowAreas
<1>2. NoSpace(x)
  BY RowSpace DEF SpaceKinds
<1> QED
  BY <1>1, <1>2 DEF Shows

LEMMA FsRow ==
  ASSUME NEW w, NEW F, NEW V, Shows(w, F, V), NoSpace(w), NEW x, NEW i, IsMore(x, w, "fs", i)
  PROVE  Shows(x, F \union {i}, V) /\ NoSpace(x)
<1>1. AreasOf(x, "fs") = AreasOf(w, "fs") \union {i} /\ AreasOf(x, "volume") = AreasOf(w, "volume")
  BY RowAreas
<1>2. NoSpace(x)
  <2>1. "fs" \notin SpaceKinds
    BY DEF SpaceKinds
  <2> QED
    BY <2>1, RowSpace
<1> QED
  BY <1>1, <1>2 DEF Shows

LEMMA VolumeRow ==
  ASSUME NEW w, NEW F, NEW V, Shows(w, F, V), NoSpace(w), NEW x, NEW i, IsMore(x, w, "volume", i)
  PROVE  Shows(x, F, V \union {i}) /\ NoSpace(x)
<1>1. AreasOf(x, "volume") = AreasOf(w, "volume") \union {i} /\ AreasOf(x, "fs") = AreasOf(w, "fs")
  BY RowAreas
<1>2. NoSpace(x)
  <2>1. "volume" \notin SpaceKinds
    BY DEF SpaceKinds
  <2> QED
    BY <2>1, RowSpace
<1> QED
  BY <1>1, <1>2 DEF Shows

LEMMA DirRow ==
  ASSUME NEW w, NEW F, NEW V, Shows(w, F, V), OnlyFree(w),
         NEW x, NEW i, IsMore(x, w, "free dir", i)
  PROVE  Shows(x, F, V) /\ OnlyFree(x) /\ \A k : FreeRows(x, k) = FreeRows(w, k)
<1>1. Shows(x, F, V)
  <2>1. ASSUME NEW what, IsMore(x, w, what, i)
        PROVE  \A k : k # what => AreasOf(x, k) = AreasOf(w, k)
    BY ONLY <2>1, RowAreas
  <2> QED
    BY <2>1, "fs" # "free dir", "volume" # "free dir" DEF Shows
<1>2. OnlyFree(x)
  <2>1. "free dir" \notin {"volume space", "image space"}
    OBVIOUS
  <2> QED
    BY <2>1, RowSpace
<1>3. \A k : FreeRows(x, k) = FreeRows(w, k)
  BY RowFree
<1> QED
  BY <1>1, <1>2, <1>3 DEF Shows

(* The areas up to the next one *)
LEMMA UpToNext ==
  ASSUME NEW S \in SUBSET Int, NEW i \in Int
  PROVE  UpTo(S, i) = IF i \in S THEN UpTo(S, i - 1) \union {i} ELSE UpTo(S, i - 1)
<1>1. \A k \in S : k <= i <=> k <= i - 1 \/ k = i
  OBVIOUS
<1> QED
  BY <1>1 DEF UpTo

LEMMA AreasAre ==
  ASSUME NEW j, GoodJob(j)
  PROVE  /\ Len(j.areas) \in Nat
         /\ FsAreas(j) \subseteq 1 .. Len(j.areas) /\ VolumeAreas(j) \subseteq 1 .. Len(j.areas)
         /\ FreeVolumes(j) \subseteq VolumeAreas(j)
         /\ UpTo(FsAreas(j), 0) = {} /\ UpTo(VolumeAreas(j), 0) = {} /\ UpTo(FreeVolumes(j), 0) = {}
         /\ \A i \in Nat : i >= Len(j.areas) =>
              /\ UpTo(FsAreas(j), i) = FsAreas(j) /\ UpTo(VolumeAreas(j), i) = VolumeAreas(j)
              /\ UpTo(FreeVolumes(j), i) = FreeVolumes(j)
         /\ \A i \in FsAreas(j) : j.areas[i].fs.free \subseteq Nat
         /\ j.chunk \in Int
<1>1. /\ Len(j.areas) \in Nat /\ j.chunk \in Int
      /\ \A i \in FsAreas(j) : j.areas[i].fs.free \subseteq Nat
  BY DEF GoodJob, FsAreas
<1>2. /\ FsAreas(j) \subseteq 1 .. Len(j.areas) /\ VolumeAreas(j) \subseteq 1 .. Len(j.areas)
      /\ FreeVolumes(j) \subseteq VolumeAreas(j)
  BY DEF FsAreas, VolumeAreas, FreeVolumes
<1>3. \A S \in SUBSET (1 .. Len(j.areas)) :
        UpTo(S, 0) = {} /\ \A i \in Nat : i >= Len(j.areas) => UpTo(S, i) = S
  BY <1>1 DEF UpTo
<1> QED
  BY <1>1, <1>2, <1>3

(* What is known before a step after which nothing has failed. *)
Before(a) ==
  /\ SteeringTypeOK /\ AllMaps /\ TracksOK
  /\ Clean(a) /\ ~Fault /\ Stands(a) /\ UNCHANGED job
  /\ GoodJob(job[a]) /\ RowsOf(a, Visible(db)) = written[a]
  /\ at[a] = "next fs" => Rooted(a)

LEMMA BeforeSurvey ==
  ASSUME NEW a \in Additions, Before(a), at[a] \in Surveys
  PROVE  /\ Surveyed(at[a], job[a], area[a], written[a])
         /\ GoodJob(job[a]) /\ SteeringTypeOK /\ AllMaps /\ ~StopAll(a) /\ ~Fault
  BY DEF Before, Stands, Clean, StopAll

LEMMA BeforeSpace ==
  ASSUME NEW a \in Additions, Before(a), at[a] \in Spaces
  PROVE  /\ SpaceAt(at[a], job[a], area[a], count[a], track[a], written[a])
         /\ GoodJob(job[a]) /\ SteeringTypeOK /\ AllMaps /\ TracksOK
         /\ ~StopAll(a) /\ ~Fault
         /\ \A what : AreasWith(a, what) = AreasOf(written[a], what)
  BY AreasWithAre DEF Before, Stands, Clean, StopAll

LEMMA AfterSurvey ==
  ASSUME NEW a \in Additions, Before(a), NEW l \in Surveys, at'[a] = l,
         Surveyed(l, job[a], area'[a], written'[a])
  PROVE  Stands(a)'
<1>1. l \notin Spaces /\ l # "not opened" /\ l # "returned"
  BY DEF Surveys, Spaces
<1> QED
  BY <1>1 DEF Before, Stands

LEMMA AfterSpace ==
  ASSUME NEW a \in Additions, Before(a), NEW l \in Spaces, at'[a] = l,
         SpaceAt(l, job[a], area'[a], count'[a], track'[a], written'[a])
  PROVE  Stands(a)'
<1>1. l \notin Surveys /\ l # "not opened" /\ l # "returned"
  BY DEF Surveys, Spaces
<1> QED
  BY <1>1 DEF Before, Stands

LEMMA ImageSurveyed ==
  ASSUME NEW a \in Additions, Before(a), OpenImage(a)
  PROVE  Stands(a)'
<1>1. at[a] = "open" /\ at[a] \in Surveys /\ UNCHANGED area
  BY DEF OpenImage, Surveys
<1>2. /\ area[a] = 1 /\ Shows(written[a], {}, {}) /\ NoSpace(written[a])
      /\ GoodJob(job[a]) /\ SteeringTypeOK /\ ~Fault
  BY <1>1, BeforeSurvey DEF Surveyed
<1>3. /\ IsMore(written'[a], written[a], "image", 0)
      /\ at'[a] = IF job[a].vs THEN "vs" ELSE "fs"
  BY <1>2, InsertMore DEF OpenImage, Goto, SteeringTypeOK
<1>4. Shows(written'[a], {}, {}) /\ NoSpace(written'[a])
  BY <1>2, <1>3, OtherRow
<1>5. CASE job[a].vs
  <2>1. at'[a] = "vs" /\ "vs" \in Surveys
    BY <1>3, <1>5 DEF Surveys
  <2>2. Surveyed("vs", job[a], area'[a], written'[a])
    BY <1>1, <1>2, <1>4, <1>5 DEF Surveyed
  <2> QED
    BY <2>1, <2>2, AfterSurvey
<1>6. CASE ~job[a].vs
  <2>1. at'[a] = "fs" /\ "fs" \in Surveys
    BY <1>3, <1>6 DEF Surveys
  <2>2. UpTo(FsAreas(job[a]), 1 - 1) = {} /\ UpTo(VolumeAreas(job[a]), 1) = {}
    <3>1. VolumeAreas(job[a]) = {}
      BY <1>6 DEF VolumeAreas
    <3>2. UpTo({}, 1) = {} /\ 1 - 1 = 0
      BY DEF UpTo
    <3> QED
      BY <1>2, <3>1, <3>2, AreasAre
  <2>3. 1 \in 1 .. Len(job[a].areas) /\ job[a].areas[1].kind # "meta"
    BY <1>2, <1>6 DEF GoodJob
  <2>4. Surveyed("fs", job[a], 1, written'[a])
    BY <1>4, <2>2, <2>3 DEF Surveyed
  <2> QED
    BY <1>1, <1>2, <2>1, <2>4, AfterSurvey
<1> QED
  BY <1>5, <1>6

LEMMA VolumeSystemSurveyed ==
  ASSUME NEW a \in Additions, Before(a), VolumeSystem(a)
  PROVE  Stands(a)'
<1>1. at[a] = "vs" /\ at[a] \in Surveys /\ UNCHANGED area
  BY DEF VolumeSystem, Surveys
<1>2. /\ area[a] = 1 /\ job[a].vs /\ Shows(written[a], {}, {}) /\ NoSpace(written[a])
      /\ GoodJob(job[a]) /\ SteeringTypeOK /\ ~Fault /\ ~StopAll(a)
  BY <1>1, BeforeSurvey DEF Surveyed
<1>3. IsMore(written'[a], written[a], "vs", 0) /\ at'[a] = "area"
  BY <1>2, InsertMore DEF VolumeSystem, Goto, SteeringTypeOK
<1>4. Shows(written'[a], {}, {}) /\ NoSpace(written'[a])
  BY <1>2, <1>3, OtherRow
<1>5. UpTo(FsAreas(job[a]), 1 - 1) = {} /\ UpTo(VolumeAreas(job[a]), 1 - 1) = {}
  <2>1. 1 - 1 = 0
    OBVIOUS
  <2> QED
    BY <1>2, <2>1, AreasAre
<1>6. Surveyed("area", job[a], area'[a], written'[a])
  BY <1>1, <1>2, <1>4, <1>5 DEF Surveyed
<1>7. "area" \in Surveys
  BY DEF Surveys
<1> QED
  BY <1>3, <1>6, <1>7, AfterSurvey

LEMMA AreasSurveyed ==
  ASSUME NEW a \in Additions, Before(a), NoMoreAreas(a) \/ SkipMeta(a) \/ Volume(a)
  PROVE  Stands(a)'
<1> DEFINE i == area[a]
           F == FsAreas(job[a])
           V == VolumeAreas(job[a])
<1>1. at[a] = "area" /\ at[a] \in Surveys
  BY DEF NoMoreAreas, SkipMeta, Volume, Surveys
<1>2. /\ i \in Nat /\ i > 0 /\ job[a].vs /\ NoSpace(written[a])
      /\ Shows(written[a], UpTo(F, i - 1), UpTo(V, i - 1))
      /\ GoodJob(job[a]) /\ SteeringTypeOK /\ AllMaps /\ ~Fault /\ ~StopAll(a)
  BY <1>1, BeforeSurvey DEF Surveyed
<1>3. /\ Len(job[a].areas) \in Nat /\ F \in SUBSET Int /\ V \in SUBSET Int
      /\ \A k \in Nat : k >= Len(job[a].areas) => UpTo(F, k) = F /\ UpTo(V, k) = V
  BY <1>2, AreasAre
<1>4. CASE NoMoreAreas(a)
  <2>1. at'[a] = "found" /\ "found" \in Surveys /\ UNCHANGED <<area, written>>
    BY <1>2, <1>4 DEF NoMoreAreas, GiveUp, Goto, SteeringTypeOK, Surveys
  <2>2. i - 1 \in Nat /\ i - 1 >= Len(job[a].areas)
    BY <1>2, <1>3, <1>4 DEF NoMoreAreas
  <2>3. Shows(written[a], F, V)
    BY <1>2, <1>3, <2>2
  <2>4. Surveyed("found", job[a], area'[a], written'[a])
    BY <1>2, <2>1, <2>3 DEF Surveyed
  <2> QED
    BY <2>1, <2>4, AfterSurvey
<1>5. CASE SkipMeta(a)
  <2>1. at'[a] = "area" /\ area'[a] = i + 1 /\ UNCHANGED written
    BY <1>2, <1>5 DEF SkipMeta, NextArea, Goto, SteeringTypeOK, AllMaps, IsMap
  <2>2. i \notin F /\ i \notin V
    BY <1>5 DEF SkipMeta, Area, FsAreas, VolumeAreas
  <2>3. UpTo(F, i) = UpTo(F, i - 1) /\ UpTo(V, i) = UpTo(V, i - 1)
    BY <1>2, <1>3, <2>2, UpToNext
  <2>4. (i + 1) - 1 = i /\ i + 1 \in Nat /\ i + 1 > 0
    BY <1>2
  <2>5. Surveyed("area", job[a], area'[a], written'[a])
    BY <1>2, <2>1, <2>3, <2>4 DEF Surveyed
  <2> QED
    BY <1>1, <2>1, <2>5, AfterSurvey
<1>6. CASE Volume(a)
  <2>1. /\ at'[a] = "fs" /\ "fs" \in Surveys /\ UNCHANGED area
        /\ IsMore(written'[a], written[a], "volume", i)
    BY <1>2, <1>6, InsertMore DEF Volume, Goto, SteeringTypeOK, Surveys
  <2>2. i \in 1 .. Len(job[a].areas) /\ job[a].areas[i].kind # "meta"
    BY <1>2, <1>3, <1>6 DEF Volume, Area
  <2>3. i \in V
    BY <1>2, <2>2 DEF VolumeAreas
  <2>4. UpTo(V, i) = UpTo(V, i - 1) \union {i}
    BY <1>2, <1>3, <2>3, UpToNext
  <2>5. Shows(written'[a], UpTo(F, i - 1), UpTo(V, i)) /\ NoSpace(written'[a])
    <3>1. Shows(written'[a], UpTo(F, i - 1), UpTo(V, i - 1) \union {i}) /\ NoSpace(written'[a])
      BY <1>2, <2>1, VolumeRow
    <3> QED
      BY <2>4, <3>1
  <2>6. Surveyed("fs", job[a], area'[a], written'[a])
    BY <1>2, <2>1, <2>2, <2>5 DEF Surveyed
  <2> QED
    BY <2>1, <2>6, AfterSurvey
<1> QED
  BY <1>4, <1>5, <1>6

LEMMA FileSystemSurveyed ==
  ASSUME NEW a \in Additions, Before(a), NoFileSystem(a) \/ FileSystem(a)
  PROVE  Stands(a)'
<1> DEFINE i == area[a]
           F == FsAreas(job[a])
           V == VolumeAreas(job[a])
<1>1. at[a] = "fs" /\ at[a] \in Surveys /\ UNCHANGED area
  BY DEF NoFileSystem, FileSystem, LeaveFs, Surveys
<1>2. /\ i \in Nat /\ i \in 1 .. Len(job[a].areas) /\ job[a].areas[i].kind # "meta"
      /\ NoSpace(written[a]) /\ Shows(written[a], UpTo(F, i - 1), UpTo(V, i))
      /\ GoodJob(job[a]) /\ SteeringTypeOK /\ ~Fault
  BY <1>1, BeforeSurvey DEF Surveyed
<1>3. F \in SUBSET Int
  BY <1>2, AreasAre
<1>4. CASE NoFileSystem(a)
  <2>1. at'[a] = "fs done" /\ "fs done" \in Surveys /\ UNCHANGED written
    BY <1>2, <1>4 DEF NoFileSystem, LeaveFs, Goto, SteeringTypeOK, Surveys
  <2>2. i \notin F
    BY <1>4 DEF NoFileSystem, Area, FsAreas
  <2>3. UpTo(F, i) = UpTo(F, i - 1)
    BY <1>2, <1>3, <2>2, UpToNext
  <2>4. Surveyed("fs done", job[a], area'[a], written'[a])
    BY <1>1, <1>2, <2>1, <2>3 DEF Surveyed
  <2> QED
    BY <2>1, <2>4, AfterSurvey
<1>5. CASE FileSystem(a)
  <2>1. /\ at'[a] = "files" /\ "files" \in Surveys
        /\ IsMore(written'[a], written[a], "fs", i)
    BY <1>2, <1>5, InsertMore DEF FileSystem, Goto, SteeringTypeOK, Surveys
  <2>2. i \in F
    BY <1>2, <1>5 DEF FileSystem, Area, FsAreas
  <2>3. UpTo(F, i) = UpTo(F, i - 1) \union {i}
    BY <1>2, <1>3, <2>2, UpToNext
  <2>4. Shows(written'[a], UpTo(F, i), UpTo(V, i)) /\ NoSpace(written'[a])
    <3>1. Shows(written'[a], UpTo(F, i - 1) \union {i}, UpTo(V, i)) /\ NoSpace(written'[a])
      BY <1>2, <2>1, FsRow
    <3> QED
      BY <2>3, <3>1
  <2>5. Surveyed("files", job[a], area'[a], written'[a])
    BY <1>1, <1>2, <2>1, <2>4 DEF Surveyed
  <2> QED
    BY <2>1, <2>5, AfterSurvey
<1> QED
  BY <1>4, <1>5

LEMMA FilesSurveyed ==
  ASSUME NEW a \in Additions, Before(a), File(a) \/ FilesEnd(a) \/ WalkFails(a)
  PROVE  Stands(a)'
<1> DEFINE i == area[a]
           F == FsAreas(job[a])
           V == VolumeAreas(job[a])
<1>1. at[a] = "files" /\ at[a] \in Surveys
  BY DEF File, FilesEnd, WalkFails, Surveys
<1>2. /\ i \in Nat /\ i \in 1 .. Len(job[a].areas) /\ job[a].areas[i].kind # "meta"
      /\ NoSpace(written[a]) /\ Shows(written[a], UpTo(F, i), UpTo(V, i))
      /\ GoodJob(job[a]) /\ SteeringTypeOK /\ ~Fault
  BY <1>1, BeforeSurvey DEF Surveyed
<1>3. CASE File(a)
  <2>1. /\ at'[a] = "files" /\ UNCHANGED area
        /\ IsMore(written'[a], written[a], "file", i)
    BY <1>1, <1>2, <1>3, InsertMore DEF File, SteeringTypeOK
  <2>2. Shows(written'[a], UpTo(F, i), UpTo(V, i)) /\ NoSpace(written'[a])
    BY <1>2, <2>1, OtherRow
  <2>3. Surveyed("files", job[a], area'[a], written'[a])
    BY <1>2, <2>1, <2>2 DEF Surveyed
  <2> QED
    BY <1>1, <2>1, <2>3, AfterSurvey
<1>4. CASE FilesEnd(a)
  <2>1. at'[a] = "fs done" /\ "fs done" \in Surveys /\ UNCHANGED <<area, written>>
    BY <1>2, <1>4 DEF FilesEnd, LeaveFs, Goto, SteeringTypeOK, Surveys
  <2>2. Surveyed("fs done", job[a], area'[a], written'[a])
    BY <1>2, <2>1 DEF Surveyed
  <2> QED
    BY <2>1, <2>2, AfterSurvey
<1>5. CASE WalkFails(a)
  BY <1>2, <1>5 DEF WalkFails
<1> QED
  BY <1>3, <1>4, <1>5

LEMMA FsDoneSurveyed ==
  ASSUME NEW a \in Additions, Before(a), FsDone(a)
  PROVE  Stands(a)'
<1> DEFINE i == area[a]
           F == FsAreas(job[a])
           V == VolumeAreas(job[a])
<1>1. at[a] = "fs done" /\ at[a] \in Surveys /\ UNCHANGED written
  BY DEF FsDone, Surveys
<1>2. /\ i \in Nat /\ i \in 1 .. Len(job[a].areas)
      /\ NoSpace(written[a]) /\ Shows(written[a], UpTo(F, i), UpTo(V, i))
      /\ GoodJob(job[a]) /\ SteeringTypeOK /\ AllMaps /\ ~StopAll(a)
  BY <1>1, BeforeSurvey DEF Surveyed
<1>3. CASE job[a].vs
  <2>1. at'[a] = "area" /\ "area" \in Surveys /\ area'[a] = i + 1
    BY <1>2, <1>3 DEF FsDone, AfterFs, NextArea, Goto, SteeringTypeOK, AllMaps, IsMap, Surveys
  <2>2. (i + 1) - 1 = i /\ i + 1 \in Nat /\ i + 1 > 0
    BY <1>2
  <2>3. Surveyed("area", job[a], area'[a], written'[a])
    BY <1>1, <1>2, <1>3, <2>1, <2>2 DEF Surveyed
  <2> QED
    BY <2>1, <2>3, AfterSurvey
<1>4. CASE ~job[a].vs
  <2>1. at'[a] = "found" /\ "found" \in Surveys /\ UNCHANGED area
    BY <1>2, <1>4 DEF FsDone, AfterFs, GiveUp, Goto, SteeringTypeOK, Surveys
  <2>2. i >= Len(job[a].areas)
    BY <1>2, <1>4 DEF GoodJob
  <2>3. Shows(written[a], F, V)
    BY <1>2, <2>2, AreasAre
  <2>4. Surveyed("found", job[a], area'[a], written'[a])
    BY <1>1, <1>2, <2>1, <2>3 DEF Surveyed
  <2> QED
    BY <2>1, <2>4, AfterSurvey
<1> QED
  BY <1>3, <1>4

LEMMA FoundSurveyed ==
  ASSUME NEW a \in Additions, Before(a), Found(a)
  PROVE  Stands(a)'
<1>1. at[a] = "found" /\ at[a] \in Surveys /\ UNCHANGED <<area, written>>
  BY DEF Found, Surveys
<1>2. /\ area[a] \in Nat /\ NoSpace(written[a])
      /\ Shows(written[a], FsAreas(job[a]), VolumeAreas(job[a]))
      /\ SteeringTypeOK /\ ~StopAll(a)
  BY <1>1, BeforeSurvey DEF Surveyed
<1>3. at'[a] = "fs space" /\ "fs space" \in Surveys
  BY <1>2 DEF Found, Goto, SteeringTypeOK, Surveys
<1>4. Surveyed("fs space", job[a], area'[a], written'[a])
  BY <1>1, <1>2 DEF Surveyed
<1> QED
  BY <1>3, <1>4, AfterSurvey

LEMMA LeastNat ==
  ASSUME NEW T, T \subseteq Nat, T # {}
  PROVE  \E x \in T : \A y \in T : x <= y
<1> DEFINE D == {0 .. x : x \in T}
           Inside == StrictSubsetOrdering(Nat)
<1>1. IsWellFoundedOn(Inside, FiniteSubsetsOf(Nat))
  BY FS_StrictSubsetOrderingWellFounded
<1>2. \A x \in Nat : 0 .. x \in FiniteSubsetsOf(Nat)
  <2> TAKE x \in Nat
  <2>1. IsFiniteSet(0 .. x)
    BY FS_Interval
  <2>2. 0 .. x \subseteq Nat
    OBVIOUS
  <2> QED
    BY <2>1, <2>2 DEF FiniteSubsetsOf
<1>3. D \subseteq FiniteSubsetsOf(Nat) /\ D # {}
  BY <1>2
<1>4. PICK d \in D : \A e \in D : ~(<<e, d>> \in Inside)
  <2> HIDE DEF D, Inside
  <2> QED
    BY <1>1, <1>3, WFMin
<1>5. PICK x \in T : d = 0 .. x
  OBVIOUS
<1>6. ASSUME NEW y \in T, y < x PROVE FALSE
  <2>1. 0 .. y \subseteq d /\ 0 .. y # d
    BY <1>5, <1>6
  <2>2. <<0 .. y, d>> \in Inside
    BY <2>1, <1>5 DEF StrictSubsetOrdering
  <2> QED
    BY <1>4, <2>2
<1> QED
  BY <1>6

LEMMA MinIs ==
  ASSUME NEW S, S \subseteq Nat, S # {}
  PROVE  Min(S) \in S /\ \A c \in S : Min(S) <= c
BY LeastNat DEF Min

(* The walk shows the free blocks in their order. *)
LEMMA NextFree ==
  ASSUME NEW free, free \subseteq Nat, NEW n \in Int, NEW S, S = {b \in free : b > n}, S # {}
  PROVE  IsNext(free, n, Min(S))
<1>1. Min(S) \in S /\ \A c \in S : Min(S) <= c
  BY MinIs
<1> QED
  BY <1>1 DEF IsNext

(* What is inserted for free blocks *)
LEMMA InsertFree ==
  ASSUME SteeringTypeOK, NEW a \in Additions, NEW i, NEW ranges, Insert(a, FreeRow(a, i, ranges))
  PROVE  written'[a] = written[a] \union {FreeRow(a, i, ranges)}
  BY InsertWrites

LEMMA FsSpaceStarts ==
  ASSUME NEW a \in Additions, Before(a), FsSpace(a)
  PROVE  Stands(a)'
<1>1. at[a] = "fs space" /\ at[a] \in Surveys /\ UNCHANGED written
  BY DEF FsSpace, Surveys
<1>2. /\ NoSpace(written[a]) /\ Shows(written[a], FsAreas(job[a]), VolumeAreas(job[a]))
      /\ GoodJob(job[a]) /\ SteeringTypeOK /\ AllMaps /\ ~Fault /\ ~StopAll(a)
  BY <1>1, BeforeSurvey DEF Surveyed
<1>3. AreasWith(a, "fs") = FsAreas(job[a])
  BY <1>2, AreasWithAre DEF Before, Shows
<1>4. /\ at'[a] = "next fs" /\ "next fs" \in Spaces /\ area'[a] = 0
      /\ track' = [track EXCEPT ![a].numFs = Cardinality(FsAreas(job[a]))]
  BY <1>2, <1>3 DEF FsSpace, Goto, SteeringTypeOK, AllMaps, IsMap, Spaces
<1>5. track'[a].numFs = Cardinality(FsAreas(job[a]))
  BY <1>4 DEF Before, TracksOK, IsMap, IsTrack, Members
<1>6. OnlyFree(written[a]) /\ \A k : FreeRows(written[a], k) = {}
  BY <1>2 DEF NoSpace, SpaceKinds, OnlyFree, FreeRows
<1>7. \A k \in FsAreas(job[a]) : ~(k <= 0)
  BY <1>2, AreasAre
<1>8. SpaceAt("next fs", job[a], 0, count'[a], track'[a], written[a])
  BY <1>2, <1>5, <1>6, <1>7 DEF SpaceAt, FreeUpTo, NoneAfter
<1> QED
  BY <1>1, <1>4, <1>8, AfterSpace

LEMMA FsSpaceEnds ==
  ASSUME NEW a \in Additions, Before(a), NoMoreFs(a)
  PROVE  Stands(a)'
<1>1. at[a] = "next fs" /\ at[a] \in Spaces /\ UNCHANGED <<area, count, track, written>>
  BY DEF NoMoreFs, Spaces
<1>2. /\ SpaceAt("next fs", job[a], area[a], count[a], track[a], written[a])
      /\ GoodJob(job[a]) /\ SteeringTypeOK /\ ~StopAll(a)
      /\ AreasWith(a, "fs") = AreasOf(written[a], "fs")
  BY <1>1, BeforeSpace
<1>3. /\ area[a] \in Nat /\ Shows(written[a], FsAreas(job[a]), VolumeAreas(job[a]))
      /\ track[a].numFs = Cardinality(FsAreas(job[a])) /\ OnlyFree(written[a])
      /\ FreeUpTo(job[a], area[a], written[a])
  BY <1>2 DEF SpaceAt
<1>4. at'[a] = "vs space" /\ "vs space" \in Spaces
  BY <1>2 DEF NoMoreFs, Goto, SteeringTypeOK, Spaces
<1>5. \A k \in FsAreas(job[a]) : k <= area[a]
  <2>1. \A k \in FsAreas(job[a]) : ~(k > area[a])
    BY <1>2, <1>3 DEF NoMoreFs, LaterFs, Shows
  <2>2. \A k \in FsAreas(job[a]) : k \in Int
    <3>1. FsAreas(job[a]) \subseteq 1 .. Len(job[a].areas)
      BY <1>2, AreasAre
    <3> QED
      BY <3>1
  <2> QED
    BY <1>3, <2>1, <2>2
<1>6. FreeUpTo(job[a], Len(job[a].areas), written[a])
  BY <1>3, <1>5 DEF FreeUpTo
<1>7. SpaceAt("vs space", job[a], area[a], count[a], track[a], written[a])
  BY <1>3, <1>6 DEF SpaceAt
<1> QED
  BY <1>1, <1>4, <1>7, AfterSpace

LEMMA FsOpened ==
  ASSUME NEW a \in Additions, Before(a), OpenFs(a)
  PROVE  Stands(a)'
<1> DEFINE i == Min(LaterFs(a))
           w == written[a]
           F == FsAreas(job[a])
<1>1. at[a] = "next fs" /\ at[a] \in Spaces
  BY DEF OpenFs, Spaces
<1>2. /\ SpaceAt("next fs", job[a], area[a], count[a], track[a], w)
      /\ GoodJob(job[a]) /\ SteeringTypeOK /\ AllMaps /\ ~Fault
      /\ AreasWith(a, "fs") = AreasOf(w, "fs") /\ Rooted(a)
  BY <1>1, BeforeSpace DEF Before
<1>3. /\ area[a] \in Nat /\ Shows(w, F, VolumeAreas(job[a]))
      /\ track[a].numFs = Cardinality(F) /\ OnlyFree(w)
      /\ FreeUpTo(job[a], area[a], w) /\ NoneAfter(job[a], area[a], w)
  BY <1>2 DEF SpaceAt
<1>4. LaterFs(a) = {k \in F : k > area[a]}
  BY <1>2, <1>3 DEF LaterFs, Shows
<1>5. F \subseteq Nat
  <2>1. F \subseteq 1 .. Len(job[a].areas)
    BY <1>2, AreasAre
  <2> QED
    BY <2>1
<1>6. i \in F /\ i > area[a] /\ \A k \in F : k > area[a] => i <= k
  <2>1. LaterFs(a) \subseteq Nat /\ LaterFs(a) # {}
    BY <1>4, <1>5 DEF OpenFs
  <2>2. i \in LaterFs(a) /\ \A k \in LaterFs(a) : i <= k
    BY <2>1, MinIs
  <2> QED
    BY <1>4, <2>2
<1>7. area' = [area EXCEPT ![a] = i]
  BY DEF OpenFs
<1> HIDE DEF i
<1>8. area'[a] = i /\ HasRoot(a, i)
  <2>1. area'[a] = i
    BY <1>2, <1>7 DEF AllMaps, IsMap
  <2>2. RootIn(a, i)
    BY <1>2, <1>3, <1>6 DEF Rooted, FsOf, Shows
  <2>3. HasRoot(a, i)
    BY <2>2 DEF Before, RootIn, RowsOf, HasRoot
  <2> QED
    BY <2>1, <2>3
<1>9. /\ at'[a] = "blocks" /\ "blocks" \in Spaces /\ count'[a] = -1
      /\ IsMore(written'[a], w, "free dir", i)
      /\ track'[a] = [NoTrack EXCEPT !.numFs = track[a].numFs, !.err = track[a].err]
  <2>1. Insert(a, Row(a, "free dir", area'[a], 0)) /\ count' = [count EXCEPT ![a] = -1]
        /\ Goto(a, "blocks")
        /\ track' = [track EXCEPT ![a] =
             [NoTrack EXCEPT !.numFs = track[a].numFs, !.err = track[a].err]]
    BY <1>2, <1>8 DEF OpenFs
  <2>2. IsMore(written'[a], w, "free dir", i)
    BY <1>2, <1>8, <2>1, InsertMore
  <2> QED
    BY <1>2, <2>1, <2>2 DEF Goto, SteeringTypeOK, AllMaps, IsMap, Spaces, Before, TracksOK
<1>10. /\ track'[a].isStart /\ track'[a].ranges = <<>> /\ track'[a].size = 0
       /\ track'[a].numFs = Cardinality(F)
  BY <1>3, <1>9 DEF NoTrack
<1>11. (\A k : FreeRows(written'[a], k) = FreeRows(w, k)) /\ OnlyFree(written'[a])
  <2>1. \A k : FreeRows(written'[a], k) = FreeRows(w, k)
    BY <1>9, RowFree
  <2>2. OnlyFree(written'[a])
    BY <1>3, <1>9, DirRow
  <2> QED
    BY <2>1, <2>2
<1>12. Shows(written'[a], F, VolumeAreas(job[a]))
  BY <1>3, <1>9, DirRow
<1>13. FreeUpTo(job[a], i - 1, written'[a])
  <2>1. \A k \in F : k <= i - 1 => k <= area[a]
    BY <1>3, <1>5, <1>6
  <2> QED
    BY <1>3, <1>11, <2>1 DEF FreeUpTo
<1>14. NoneAfter(job[a], i, written'[a]) /\ FreeRows(written'[a], i) = {}
  <2>1. \A k \in F : k > i => k > area[a]
    BY <1>3, <1>5, <1>6
  <2> QED
    BY <1>3, <1>6, <1>11, <2>1 DEF NoneAfter
<1>15. Collecting(job[a].areas[i].fs.free, job[a].chunk, FreeRows(written'[a], i), track'[a], -1)
  BY <1>10, <1>14 DEF Collecting
<1>16. SpaceAt("blocks", job[a], i, -1, track'[a], written'[a])
  BY <1>5, <1>6, <1>10, <1>11, <1>12, <1>13, <1>14, <1>15 DEF SpaceAt
<1> QED
  BY <1>8, <1>9, <1>16, AfterSpace

(* Only the rows of the free blocks of area i are others. *)
OnlyRowsOf(x, w, i) ==
  /\ \A k : k # "free blocks" => AreasOf(x, k) = AreasOf(w, k)
  /\ \A k : k # i => FreeRows(x, k) = FreeRows(w, k)
  /\ OnlyFree(w) => OnlyFree(x)

(* Rows x are rows w and one of free blocks. *)
IsFreeMore(x, w, a, i, ranges) == x = w \union {FreeRow(a, i, ranges)}

LEMMA FreeRowOnly ==
  ASSUME NEW w, NEW a, NEW i, NEW ranges, NEW x, IsFreeMore(x, w, a, i, ranges)
  PROVE  /\ OnlyRowsOf(x, w, i)
         /\ FreeRows(x, i) = FreeRows(w, i) \union {FreeRow(a, i, ranges)}
         /\ FreeRow(a, i, ranges).ranges = ranges
<1> DEFINE r == FreeRow(a, i, ranges)
<1>1. r.what = "free blocks" /\ r.area = i /\ r.ranges = ranges /\ x = w \union {r}
  BY DEF FreeRow, Row, IsFreeMore
<1> HIDE DEF r
<1>2. ASSUME NEW k, k # "free blocks" PROVE AreasOf(x, k) = AreasOf(w, k)
  BY <1>1, <1>2 DEF AreasOf
<1>3. FreeRows(x, i) = FreeRows(w, i) \union {r}
  BY <1>1 DEF FreeRows
<1>4. ASSUME NEW k, k # i PROVE FreeRows(x, k) = FreeRows(w, k)
  BY <1>1, <1>4 DEF FreeRows
<1>5. OnlyFree(w) => OnlyFree(x)
  BY <1>1 DEF OnlyFree
<1>6. OnlyRowsOf(x, w, i)
  BY <1>2, <1>4, <1>5 DEF OnlyRowsOf
<1> QED
  BY <1>1, <1>3, <1>6 DEF r

(* What stays, as long as the walk is in the file system of area i. *)
InFs(j, i, t, w) ==
  /\ i \in Nat /\ Shows(w, FsAreas(j), VolumeAreas(j))
  /\ t.numFs = Cardinality(FsAreas(j)) /\ OnlyFree(w)
  /\ i \in FsAreas(j) /\ FreeUpTo(j, i - 1, w) /\ NoneAfter(j, i, w)

LEMMA StaysInFs ==
  ASSUME NEW j, NEW i, NEW t, NEW w, InFs(j, i, t, w), GoodJob(j),
         NEW s, s.numFs = t.numFs, NEW x, OnlyRowsOf(x, w, i)
  PROVE  InFs(j, i, s, x)
<1>1. Shows(x, FsAreas(j), VolumeAreas(j))
  BY "fs" # "free blocks", "volume" # "free blocks" DEF OnlyRowsOf, InFs, Shows
<1>2. FsAreas(j) \subseteq 1 .. Len(j.areas)
  BY AreasAre
<1>3. i \in Nat /\ \A k \in FsAreas(j) : (k <= i - 1 \/ k > i) => k # i
  BY <1>2 DEF InFs
<1>4. FreeUpTo(j, i - 1, x)
  BY <1>3 DEF OnlyRowsOf, InFs, FreeUpTo
<1>5. NoneAfter(j, i, x)
  BY <1>3 DEF OnlyRowsOf, InFs, NoneAfter
<1> QED
  BY <1>1, <1>4, <1>5 DEF OnlyRowsOf, InFs

LEMMA InFsIs ==
  ASSUME NEW a \in Additions, Before(a), at[a] = "blocks"
  PROVE  /\ InFs(job[a], area[a], track[a], written[a])
         /\ Collecting(Area(a).fs.free, job[a].chunk, FreeRows(written[a], area[a]),
                       track[a], count[a])
         /\ Area(a).fs.free \subseteq Nat /\ job[a].chunk \in Int
<1>1. at[a] \in Spaces
  BY DEF Spaces
<1>2. SpaceAt("blocks", job[a], area[a], count[a], track[a], written[a]) /\ GoodJob(job[a])
  BY <1>1, BeforeSpace
<1> QED
  BY <1>2, AreasAre DEF SpaceAt, InFs, Area

LEMMA BlocksGoOn ==
  ASSUME NEW a \in Additions, Before(a), at'[a] = "blocks", area'[a] = area[a],
         InFs(job[a], area[a], track'[a], written'[a]),
         Collecting(Area(a).fs.free, job[a].chunk, FreeRows(written'[a], area[a]),
                    track'[a], count'[a])
  PROVE  Stands(a)'
<1>1. SpaceAt("blocks", job[a], area[a], count'[a], track'[a], written'[a])
  BY DEF SpaceAt, InFs, Area
<1>2. "blocks" \in Spaces
  BY DEF Spaces
<1> QED
  BY <1>1, <1>2, AfterSpace

(* The walk has come to block b: range first .. prev, the full ones s. *)
IsAt(t, b, s, size, first) ==
  /\ ~t.isStart /\ t.start = first /\ t.prev = b /\ t.ranges = s /\ t.size = size

LEMMA CollectingAt ==
  ASSUME NEW free, NEW chunk, NEW rows, NEW t, NEW b, NEW s, NEW size, NEW first,
         IsAt(t, b, s, size, first), Collected(free, chunk, rows, s, size, first, b)
  PROVE  Collecting(free, chunk, rows, t, b)
  BY DEF IsAt, Collecting

(* What becomes of the track at the next block *)
Starts(t, b) == [NextRangeAt(t, b) EXCEPT !.isStart = FALSE]
Continues(t, b) == [t EXCEPT !.prev = b]
Another(t, b) == [NextRangeAt(t, b) EXCEPT !.ranges = WithRange(t), !.size = SizeOf(t)]
Afresh(t, b) == [Another(t, b) EXCEPT !.ranges = <<>>, !.size = 0]

LEMMA TracksAt ==
  ASSUME NEW t, IsTrack(t), NEW b
  PROVE  /\ IsAt(Starts(t, b), b, t.ranges, t.size, b) /\ Starts(t, b).numFs = t.numFs
         /\ ~t.isStart => IsAt(Continues(t, b), b, t.ranges, t.size, t.start)
         /\ Continues(t, b).numFs = t.numFs
         /\ Another(t, b).ranges = WithRange(t) /\ Another(t, b).size = SizeOf(t)
         /\ ~t.isStart => IsAt(Another(t, b), b, WithRange(t), SizeOf(t), b)
         /\ Another(t, b).numFs = t.numFs
         /\ ~t.isStart => IsAt(Afresh(t, b), b, <<>>, 0, b)
         /\ Afresh(t, b).numFs = t.numFs
<1> DEFINE ranges == WithRange(t)
           size == SizeOf(t)
<1>1. t = [m \in Members |-> t[m]]
  BY DEF IsTrack
<1> HIDE DEF ranges, size
<1>2. IsAt(Starts(t, b), b, t.ranges, t.size, b) /\ Starts(t, b).numFs = t.numFs
  BY <1>1 DEF Starts, NextRangeAt, Members, IsAt
<1>3. /\ ~t.isStart => IsAt(Continues(t, b), b, t.ranges, t.size, t.start)
      /\ Continues(t, b).numFs = t.numFs
  BY <1>1 DEF Continues, Members, IsAt
<1>4. Another(t, b) = [NextRangeAt(t, b) EXCEPT !.ranges = ranges, !.size = size]
  BY DEF Another, ranges, size
<1>5. /\ Another(t, b).ranges = ranges /\ Another(t, b).size = size
      /\ ~t.isStart => IsAt(Another(t, b), b, ranges, size, b)
      /\ Another(t, b).numFs = t.numFs
  BY <1>1, <1>4 DEF NextRangeAt, Members, IsAt
<1>6. /\ ~t.isStart => IsAt(Afresh(t, b), b, <<>>, 0, b)
      /\ Afresh(t, b).numFs = t.numFs
  BY <1>1, <1>4 DEF Afresh, NextRangeAt, Members, IsAt
<1> QED
  BY <1>2, <1>3, <1>5, <1>6 DEF ranges, size

LEMMA WithRangeIs ==
  ASSUME NEW t, t.ranges \in Seq(FreeRange), t.size \in Int, t.start \in Int, t.prev \in Int
  PROVE  WithLast(WithRange(t), t.ranges, t.start, t.prev)
         /\ SizeOf(t) = SizeUpTo(t.size, t.start, t.prev)
<1>1. Len(t.ranges) \in Nat
  OBVIOUS
<1>2. WithRange(t) = Append(t.ranges, RangeOf(t.start, t.prev, Len(t.ranges)))
  BY DEF WithRange, RangeOf
<1>3. WithLast(WithRange(t), t.ranges, t.start, t.prev)
  BY <1>1, <1>2 DEF WithLast
<1>4. SizeOf(t) = SizeUpTo(t.size, t.start, t.prev)
  BY DEF SizeOf, SizeUpTo
<1> QED
  BY <1>3, <1>4

(* What a step of the walk does *)
LEMMA BlockIs ==
  ASSUME SteeringTypeOK, AllMaps, TracksOK, NEW a \in Additions, Block(a), ~Fault
  PROVE  LET t == track[a]
             b == Min(LaterFree(a))
             w == written[a]
         IN /\ count'[a] = b
            /\ \/ t.isStart /\ track'[a] = Starts(t, b) /\ written'[a] = w
               \/ ~t.isStart /\ b = t.prev + 1 /\ track'[a] = Continues(t, b) /\ written'[a] = w
               \/ ~t.isStart /\ b # t.prev + 1 /\ Collects(a, SizeOf(t))
                  /\ track'[a] = Another(t, b) /\ written'[a] = w
               \/ ~t.isStart /\ b # t.prev + 1 /\ ~Collects(a, SizeOf(t))
                  /\ track'[a] = Afresh(t, b)
                  /\ written'[a] = w \union {FreeRow(a, area[a], WithRange(t))}
<1> DEFINE t == track[a]
           b == Min(LaterFree(a))
           next == Another(t, b)
           w == written[a]
<1>1. IsMap(track) /\ IsMap(count) /\ next.ranges = WithRange(t) /\ next.size = SizeOf(t)
  BY TracksAt DEF TracksOK, AllMaps
<1>2. /\ count' = [count EXCEPT ![a] = b]
      /\ \/ /\ t.isStart
            /\ track' = [track EXCEPT ![a] = Starts(t, b)]
            /\ NoInsert
         \/ /\ ~t.isStart /\ b = t.prev + 1
            /\ track' = [track EXCEPT ![a].prev = b]
            /\ NoInsert
         \/ /\ ~t.isStart /\ b # t.prev + 1 /\ Collects(a, next.size)
            /\ track' = [track EXCEPT ![a] = next]
            /\ NoInsert
         \/ /\ ~t.isStart /\ b # t.prev + 1 /\ ~Collects(a, next.size)
            /\ track' = [track EXCEPT ![a] = Afresh(t, b)]
            /\ Insert(a, FreeRow(a, area[a], next.ranges))
  BY DEF Block, Starts, Another, Afresh
<1> HIDE DEF b, next
<1>3. count'[a] = b
  BY <1>1, <1>2 DEF IsMap
<1>4. ASSUME NEW s, track' = [track EXCEPT ![a] = s] PROVE track'[a] = s
  BY <1>1, <1>4 DEF IsMap
<1>5. track' = [track EXCEPT ![a].prev = b] => track'[a] = Continues(t, b)
  BY <1>1 DEF IsMap, Continues
<1>6. NoInsert => written'[a] = w
  BY InsertWrites
<1>7. Insert(a, FreeRow(a, area[a], next.ranges))
      => written'[a] = w \union {FreeRow(a, area[a], WithRange(t))}
  BY <1>1, InsertFree
<1>8. CASE t.isStart
  BY <1>2, <1>3, <1>4, <1>6, <1>8 DEF b
<1>9. CASE ~t.isStart
  BY <1>1, <1>2, <1>3, <1>4, <1>5, <1>6, <1>7, <1>9 DEF b, next
<1> QED
  BY <1>8, <1>9

(* What is known while the walk is at its blocks *)
LEMMA AtBlocks ==
  ASSUME NEW a \in Additions, Before(a), at[a] = "blocks"
  PROVE  /\ Area(a).fs.free \subseteq Nat /\ job[a].chunk \in Int
         /\ IsTrack(track[a]) /\ count[a] \in Int
         /\ track[a].isStart => count[a] = -1 /\ FreeRows(written[a], area[a]) = {}
                                /\ track[a].ranges = <<>> /\ track[a].size = 0
         /\ ~track[a].isStart =>
              /\ count[a] = track[a].prev
              /\ Collected(Area(a).fs.free, job[a].chunk, FreeRows(written[a], area[a]),
                           track[a].ranges, track[a].size, track[a].start, track[a].prev)
              /\ WithLast(WithRange(track[a]), track[a].ranges, track[a].start, track[a].prev)
              /\ SizeOf(track[a]) = SizeUpTo(track[a].size, track[a].start, track[a].prev)
<1> DEFINE t == track[a]
           rows == FreeRows(written[a], area[a])
           free == Area(a).fs.free
           chunk == job[a].chunk
<1>1. free \subseteq Nat /\ chunk \in Int /\ Collecting(free, chunk, rows, t, count[a])
  BY InFsIs
<1>2. IsTrack(t)
  BY DEF Before, TracksOK
<1> HIDE DEF t, rows, free, chunk
<1>3. CASE t.isStart
  <2>1. count[a] = -1 /\ rows = {} /\ t.ranges = <<>> /\ t.size = 0
    BY <1>1, <1>3 DEF Collecting
  <2> QED
    BY <1>1, <1>2, <1>3, <2>1 DEF t, rows, free, chunk
<1>4. CASE ~t.isStart
  <2>1. count[a] = t.prev /\ Collected(free, chunk, rows, t.ranges, t.size, t.start, t.prev)
    BY <1>1, <1>4 DEF Collecting
  <2>2. /\ t.start \in Nat /\ t.prev \in Nat
        /\ Ascends(t.ranges) /\ t.size = SizeIs(t.ranges)
    BY <2>1 DEF Collected
  <2>3. t.ranges \in Seq(FreeRange) /\ t.size \in Int
    <3>1. SizeIs(t.ranges) \in Nat
      BY <2>2, RangesAre
    <3>2. t.ranges \in Seq(FreeRange)
      BY <2>2 DEF Ascends
    <3> QED
      BY <2>2, <3>1, <3>2
  <2>4. /\ WithLast(WithRange(t), t.ranges, t.start, t.prev)
        /\ SizeOf(t) = SizeUpTo(t.size, t.start, t.prev)
    BY <2>2, <2>3, WithRangeIs
  <2>5. count[a] \in Int
    BY <2>1, <2>2
  <2> QED
    BY <1>1, <1>2, <1>4, <2>1, <2>4, <2>5 DEF t, rows, free, chunk
<1> QED
  BY <1>3, <1>4

LEMMA BlockShown ==
  ASSUME NEW a \in Additions, Before(a), Block(a)
  PROVE  Stands(a)'
<1> DEFINE t == track[a]
           w == written[a]
           i == area[a]
           rows == FreeRows(w, i)
           free == Area(a).fs.free
           chunk == job[a].chunk
           b == Min(LaterFree(a))
           n == count[a]
<1>1. at[a] = "blocks" /\ at'[a] = "blocks" /\ area'[a] = i
  BY DEF Block, ended
<1>2. /\ free \subseteq Nat /\ chunk \in Int /\ IsTrack(t) /\ n \in Int
      /\ t.isStart => n = -1 /\ rows = {} /\ t.ranges = <<>> /\ t.size = 0
      /\ ~t.isStart =>
           /\ n = t.prev
           /\ Collected(free, chunk, rows, t.ranges, t.size, t.start, t.prev)
           /\ WithLast(WithRange(t), t.ranges, t.start, t.prev)
           /\ SizeOf(t) = SizeUpTo(t.size, t.start, t.prev)
  BY <1>1, AtBlocks
<1>3. IsNext(free, n, b)
  <2>1. LaterFree(a) = {c \in free : c > n} /\ LaterFree(a) # {}
    BY DEF LaterFree, Block
  <2> QED
    BY <1>2, <2>1, NextFree
<1>4. InFs(job[a], i, t, w) /\ GoodJob(job[a])
  BY <1>1, InFsIs DEF Before
<1>5. /\ count'[a] = b
      /\ \/ t.isStart /\ track'[a] = Starts(t, b) /\ written'[a] = w
         \/ ~t.isStart /\ b = t.prev + 1 /\ track'[a] = Continues(t, b) /\ written'[a] = w
         \/ ~t.isStart /\ b # t.prev + 1 /\ Collects(a, SizeOf(t))
            /\ track'[a] = Another(t, b) /\ written'[a] = w
         \/ ~t.isStart /\ b # t.prev + 1 /\ ~Collects(a, SizeOf(t))
            /\ track'[a] = Afresh(t, b)
            /\ written'[a] = w \union {FreeRow(a, i, WithRange(t))}
  BY BlockIs DEF Before
<1>6. b \in Nat
  BY <1>2, <1>3 DEF IsNext
<1>7. /\ IsAt(Starts(t, b), b, t.ranges, t.size, b) /\ Starts(t, b).numFs = t.numFs
      /\ ~t.isStart => IsAt(Continues(t, b), b, t.ranges, t.size, t.start)
      /\ Continues(t, b).numFs = t.numFs
      /\ ~t.isStart => IsAt(Another(t, b), b, WithRange(t), SizeOf(t), b)
      /\ Another(t, b).numFs = t.numFs
      /\ ~t.isStart => IsAt(Afresh(t, b), b, <<>>, 0, b)
      /\ Afresh(t, b).numFs = t.numFs
  BY <1>2, TracksAt
<1>8. SUFFICES /\ InFs(job[a], i, track'[a], written'[a])
               /\ Collecting(free, chunk, FreeRows(written'[a], i), track'[a], b)
  BY <1>1, <1>5, BlocksGoOn
<1>9. ASSUME NEW s, s.numFs = t.numFs PROVE InFs(job[a], i, s, w)
  <2>1. OnlyRowsOf(w, w, i)
    BY DEF OnlyRowsOf
  <2> QED
    BY <1>4, <1>9, <2>1, StaysInFs
<1> HIDE DEF b, t, w, i, rows, free, chunk, n
<1>10. CASE t.isStart
  <2>1. track'[a] = Starts(t, b) /\ written'[a] = w
    BY <1>5, <1>10
  <2>2. Collected(free, chunk, {}, <<>>, 0, b, b)
    BY <1>2, <1>3, <1>10, FirstBlock
  <2>3. Collecting(free, chunk, rows, Starts(t, b), b)
    BY <1>2, <1>7, <1>10, <2>2, CollectingAt
  <2> QED
    BY <1>7, <1>9, <2>1, <2>3 DEF rows
<1>11. CASE ~t.isStart /\ b = t.prev + 1
  <2>1. track'[a] = Continues(t, b) /\ written'[a] = w
    BY <1>5, <1>11
  <2>2. Collected(free, chunk, rows, t.ranges, t.size, t.start, b)
    BY <1>2, <1>3, <1>11, SameRange
  <2>3. Collecting(free, chunk, rows, Continues(t, b), b)
    BY <1>7, <1>11, <2>2, CollectingAt
  <2> QED
    BY <1>7, <1>9, <2>1, <2>3 DEF rows
<1>12. CASE ~t.isStart /\ b # t.prev + 1 /\ Collects(a, SizeOf(t))
  <2>1. track'[a] = Another(t, b) /\ written'[a] = w
    BY <1>5, <1>12
  <2>2. chunk = 0 \/ (chunk > 0 /\ SizeUpTo(t.size, t.start, t.prev) < chunk)
    BY <1>2, <1>12 DEF Collects, chunk
  <2>3. Collected(free, chunk, rows, WithRange(t), SizeOf(t), b, b)
    BY <1>2, <1>3, <1>12, <2>2, NextRange
  <2>4. Collecting(free, chunk, rows, Another(t, b), b)
    BY <1>7, <1>12, <2>3, CollectingAt
  <2> QED
    BY <1>7, <1>9, <2>1, <2>4 DEF rows
<1>13. CASE ~t.isStart /\ b # t.prev + 1 /\ ~Collects(a, SizeOf(t))
  <2> DEFINE row == FreeRow(a, i, WithRange(t))
  <2>1. track'[a] = Afresh(t, b) /\ written'[a] = w \union {row}
    BY <1>5, <1>13
  <2>2. /\ OnlyRowsOf(written'[a], w, i) /\ FreeRows(written'[a], i) = rows \union {row}
        /\ row.ranges = WithRange(t)
    <3>1. IsFreeMore(written'[a], w, a, i, WithRange(t))
      BY <2>1 DEF IsFreeMore
    <3> QED
      BY <3>1, FreeRowOnly DEF rows
  <2>3. ~(chunk = 0 \/ (chunk > 0 /\ SizeUpTo(t.size, t.start, t.prev) < chunk))
    BY <1>2, <1>13 DEF Collects, chunk
  <2> HIDE DEF row
  <2>4. Collected(free, chunk, rows \union {row}, <<>>, 0, b, b)
    BY <1>2, <1>3, <1>13, <2>2, <2>3, NextRow
  <2>5. Collecting(free, chunk, FreeRows(written'[a], i), Afresh(t, b), b)
    BY <1>7, <1>13, <2>2, <2>4, CollectingAt
  <2>6. InFs(job[a], i, Afresh(t, b), written'[a])
    BY <1>4, <1>7, <2>2, StaysInFs
  <2> QED
    BY <2>1, <2>5, <2>6
<1> QED
  BY <1>10, <1>11, <1>12, <1>13

LEMMA BlocksEnded ==
  ASSUME NEW a \in Additions, Before(a), BlocksEnd(a)
  PROVE  Stands(a)'
<1> DEFINE t == track[a]
           w == written[a]
           i == area[a]
           j == job[a]
           rows == FreeRows(w, i)
           free == Area(a).fs.free
           row == FreeRow(a, i, WithRange(t))
<1>1. at[a] = "blocks" /\ UNCHANGED <<area, count>> /\ LaterFree(a) = {}
  BY DEF BlocksEnd
<1>2. /\ free \subseteq Nat /\ j.chunk \in Int /\ IsTrack(t) /\ count[a] \in Int
      /\ t.isStart => count[a] = -1
      /\ ~t.isStart =>
           /\ count[a] = t.prev
           /\ Collected(free, j.chunk, rows, t.ranges, t.size, t.start, t.prev)
           /\ WithLast(WithRange(t), t.ranges, t.start, t.prev)
  BY <1>1, AtBlocks
<1>3. InFs(j, i, t, w) /\ GoodJob(j) /\ SteeringTypeOK /\ ~Fault
  BY <1>1, InFsIs DEF Before
<1>4. /\ Insert(a, FreeRow(a, i, WithRange(t))) /\ UNCHANGED track
      /\ at'[a] = "next fs" /\ "next fs" \in Spaces
  BY <1>3 DEF BlocksEnd, Goto, SteeringTypeOK, Spaces
<1>5. /\ OnlyRowsOf(written'[a], w, i) /\ FreeRows(written'[a], i) = rows \union {row}
      /\ row.ranges = WithRange(t)
  <2>1. IsFreeMore(written'[a], w, a, i, WithRange(t))
    BY <1>3, <1>4, InsertFree DEF IsFreeMore
  <2> QED
    BY <2>1, FreeRowOnly
<1>6. InFs(j, i, t, written'[a])
  BY <1>3, <1>5, StaysInFs
<1>7. \A c \in free : ~(c > count[a])
  BY <1>1 DEF LaterFree
<1>8. free # {} => FreeExact(free, j.chunk, FreeRows(written'[a], i))
  <2> HIDE DEF t, rows, free, row, w, i, j
  <2>1. CASE t.isStart
    <3>1. \A c \in free : c > -1
      BY <1>2
    <3> QED
      BY <1>2, <1>7, <2>1, <3>1
  <2>2. CASE ~t.isStart
    <3>1. \A c \in free : ~(c > t.prev)
      BY <1>2, <1>7, <2>2
    <3>2. /\ Collected(free, j.chunk, rows, t.ranges, t.size, t.start, t.prev)
          /\ WithLast(row.ranges, t.ranges, t.start, t.prev)
      BY <1>2, <1>5, <2>2
    <3>3. FreeExact(free, j.chunk, rows \union {row})
      BY ONLY <3>1, <3>2, LastRow
    <3> QED
      BY <1>5, <3>3
  <2> QED
    BY <2>1, <2>2
<1>9. FreeUpTo(j, i, written'[a])
  <2>1. \A k \in FsAreas(j) : k <= i => k <= i - 1 \/ k = i
    <3>1. FsAreas(j) \subseteq 1 .. Len(j.areas)
      BY <1>3, AreasAre
    <3> QED
      BY <1>3, <3>1 DEF InFs
  <2>2. FreeUpTo(j, i - 1, written'[a])
    BY <1>6 DEF InFs
  <2>3. free = j.areas[i].fs.free
    BY DEF Area
  <2> QED
    BY <1>8, <2>1, <2>2, <2>3 DEF FreeUpTo
<1> HIDE DEF j, i, t
<1>10. SpaceAt("next fs", j, i, count'[a], t, written'[a])
  BY <1>6, <1>9 DEF SpaceAt, InFs
<1> QED
  BY <1>1, <1>4, <1>10, AfterSpace DEF j, i, t

LEMMA VsSpaceBegun ==
  ASSUME NEW a \in Additions, Before(a), VsSpace(a)
  PROVE  Stands(a)'
<1> DEFINE w == written[a]
           j == job[a]
<1>1. at[a] = "vs space" /\ at[a] \in Spaces /\ UNCHANGED <<area, written>>
  BY DEF VsSpace, Spaces
<1>2. /\ SpaceAt("vs space", j, area[a], count[a], track[a], w)
      /\ GoodJob(j) /\ SteeringTypeOK /\ AllMaps /\ TracksOK /\ ~Fault
      /\ AreasWith(a, "volume") = AreasOf(w, "volume")
  BY <1>1, BeforeSpace
<1>3. /\ area[a] \in Nat /\ Shows(w, FsAreas(j), VolumeAreas(j))
      /\ track[a].numFs = Cardinality(FsAreas(j)) /\ OnlyFree(w)
      /\ FreeUpTo(j, Len(j.areas), w)
  BY <1>2 DEF SpaceAt
<1>4. /\ at'[a] = "volumes" /\ "volumes" \in Spaces /\ count'[a] = 0
      /\ track'[a] = [track[a] EXCEPT !.numVs = Cardinality(VolumeAreas(j))]
  <2>1. Volumes(a) = VolumeAreas(j)
    BY <1>2, <1>3 DEF Volumes, Shows
  <2>2. /\ Goto(a, "volumes") /\ count' = [count EXCEPT ![a] = 0]
        /\ track' = [track EXCEPT ![a].numVs = Cardinality(VolumeAreas(j))]
    BY <1>2, <2>1 DEF VsSpace
  <2> QED
    BY <1>2, <2>2 DEF Goto, SteeringTypeOK, AllMaps, TracksOK, IsMap, Spaces
<1>5. track'[a].numVs = Cardinality(VolumeAreas(j)) /\ track'[a].numFs = track[a].numFs
  BY <1>2, <1>4 DEF TracksOK, IsTrack, Members
<1>6. AreasOf(w, "image space") = {} /\ AreasOf(w, "volume space") = {}
  BY <1>3 DEF OnlyFree, AreasOf
<1>7. UpTo(FreeVolumes(j), 0) = {} /\ 0 \in Nat
  BY <1>2, AreasAre
<1> HIDE DEF j
<1>8. SpaceAt("volumes", j, area[a], 0, track'[a], w)
  BY <1>3, <1>5, <1>6, <1>7 DEF SpaceAt
<1> QED
  BY <1>1, <1>4, <1>8, AfterSpace DEF j

LEMMA AtVolumes ==
  ASSUME NEW a \in Additions, Before(a), at[a] = "volumes"
  PROVE  /\ area[a] \in Nat /\ Shows(written[a], FsAreas(job[a]), VolumeAreas(job[a]))
         /\ track[a].numFs = Cardinality(FsAreas(job[a]))
         /\ FreeUpTo(job[a], Len(job[a].areas), written[a])
         /\ track[a].numVs = Cardinality(VolumeAreas(job[a]))
         /\ AreasOf(written[a], "image space") = {}
         /\ count[a] \in Nat
         /\ AreasOf(written[a], "volume space") = UpTo(FreeVolumes(job[a]), count[a])
         /\ LaterVolumes(a) = {k \in VolumeAreas(job[a]) : k > count[a]}
         /\ AreasWith(a, "fs") = FsAreas(job[a])
         /\ GoodJob(job[a]) /\ SteeringTypeOK /\ AllMaps /\ ~Fault /\ ~StopAll(a)
<1>1. at[a] \in Spaces
  BY DEF Spaces
<1>2. /\ SpaceAt("volumes", job[a], area[a], count[a], track[a], written[a])
      /\ GoodJob(job[a]) /\ SteeringTypeOK /\ AllMaps /\ ~Fault /\ ~StopAll(a)
      /\ AreasWith(a, "volume") = AreasOf(written[a], "volume")
      /\ AreasWith(a, "fs") = AreasOf(written[a], "fs")
  BY <1>1, BeforeSpace
<1>3. Shows(written[a], FsAreas(job[a]), VolumeAreas(job[a]))
  BY <1>2 DEF SpaceAt
<1>4. /\ LaterVolumes(a) = {k \in VolumeAreas(job[a]) : k > count[a]}
      /\ AreasWith(a, "fs") = FsAreas(job[a])
  BY <1>2, <1>3 DEF LaterVolumes, Volumes, Shows
<1> QED
  BY <1>2, <1>4 DEF SpaceAt

LEMMA VolumesEnded ==
  ASSUME NEW a \in Additions, Before(a), NoMoreVolumes(a)
  PROVE  Stands(a)'
<1> DEFINE w == written[a]
           j == job[a]
<1>1. at[a] = "volumes" /\ UNCHANGED <<area, count, track, written>>
  BY DEF NoMoreVolumes
<1>2. /\ area[a] \in Nat /\ Shows(w, FsAreas(j), VolumeAreas(j))
      /\ track[a].numFs = Cardinality(FsAreas(j))
      /\ FreeUpTo(j, Len(j.areas), w)
      /\ track[a].numVs = Cardinality(VolumeAreas(j))
      /\ AreasOf(w, "image space") = {}
  BY <1>1, AtVolumes
<1>3. /\ AreasOf(w, "volume space") = UpTo(FreeVolumes(j), count[a])
      /\ LaterVolumes(a) = {k \in VolumeAreas(j) : k > count[a]} /\ count[a] \in Nat
      /\ GoodJob(j) /\ SteeringTypeOK /\ ~StopAll(a)
  BY <1>1, AtVolumes
<1>4. at'[a] = "image space" /\ "image space" \in Spaces /\ LaterVolumes(a) = {}
  BY <1>3 DEF NoMoreVolumes, Goto, SteeringTypeOK, Spaces
<1>5. AreasOf(w, "volume space") = FreeVolumes(j)
  <2>1. FreeVolumes(j) \subseteq VolumeAreas(j)
    BY <1>3, AreasAre
  <2>2. VolumeAreas(j) \subseteq 1 .. Len(j.areas)
    BY <1>3, AreasAre
  <2>3. ASSUME NEW k \in FreeVolumes(j) PROVE k <= count[a]
    <3>1. k \in VolumeAreas(j)
      BY <2>1
    <3>2. k \in Int
      BY <2>2, <3>1
    <3>3. ~(k > count[a])
      BY <1>3, <1>4, <3>1
    <3>4. count[a] \in Int
      <4>1. count[a] \in Nat
        BY <1>1, AtVolumes
      <4> QED
        BY ONLY <4>1
    <3> QED
      BY ONLY <3>2, <3>3, <3>4
  <2> QED
    BY <1>3, <2>3 DEF UpTo
<1> HIDE DEF j
<1>6. SpaceAt("image space", j, area[a], count[a], track[a], w)
  BY <1>2, <1>5 DEF SpaceAt
<1> QED
  BY <1>1, <1>4, <1>6, AfterSpace DEF j

(* Rows x are in the areas of rows w, but for those of one kind. *)
KeepsAreas(x, w, what) == \A k : k # what => AreasOf(x, k) = AreasOf(w, k)

LEMMA RowKeepsAreas ==
  ASSUME NEW w, NEW x, NEW what, NEW i, IsMore(x, w, what, i)
  PROVE  KeepsAreas(x, w, what)
  BY RowAreas DEF KeepsAreas

LEMMA VolumeSpaceRow ==
  ASSUME NEW w, NEW x, NEW i, IsMore(x, w, "volume space", i)
  PROVE  /\ AreasOf(x, "volume space") = AreasOf(w, "volume space") \union {i}
         /\ KeepsAreas(x, w, "volume space")
         /\ \A k : FreeRows(x, k) = FreeRows(w, k)
<1>1. "volume space" # "free blocks"
  OBVIOUS
<1>2. AreasOf(x, "volume space") = AreasOf(w, "volume space") \union {i}
  <2>1. ASSUME NEW what, IsMore(x, w, what, i)
        PROVE  AreasOf(x, what) = AreasOf(w, what) \union {i}
    BY ONLY <2>1, RowAreas
  <2> QED
    BY <2>1
<1>3. KeepsAreas(x, w, "volume space")
  BY RowKeepsAreas
<1>4. \A k : FreeRows(x, k) = FreeRows(w, k)
  BY <1>1, RowFree
<1> QED
  BY <1>2, <1>3, <1>4

LEMMA VolumeSpaceShown ==
  ASSUME NEW a \in Additions, Before(a), VolumeSpace(a)
  PROVE  Stands(a)'
<1> DEFINE w == written[a]
           x == written'[a]
           j == job[a]
           i == Min(LaterVolumes(a))
           n == count[a]
           V == VolumeAreas(j)
<1>1. at[a] = "volumes" /\ UNCHANGED area
  BY DEF VolumeSpace, ended
<1>2. /\ area[a] \in Nat /\ Shows(w, FsAreas(j), V)
      /\ track[a].numFs = Cardinality(FsAreas(j))
      /\ FreeUpTo(j, Len(j.areas), w)
      /\ track[a].numVs = Cardinality(V)
      /\ AreasOf(w, "image space") = {}
  BY <1>1, AtVolumes
<1>3. /\ AreasOf(w, "volume space") = UpTo(FreeVolumes(j), n)
      /\ LaterVolumes(a) = {k \in V : k > n} /\ n \in Nat
      /\ AreasWith(a, "fs") = FsAreas(j)
  BY <1>1, AtVolumes
<1>4. GoodJob(j) /\ SteeringTypeOK /\ AllMaps /\ ~Fault /\ ~StopAll(a)
  BY <1>1, AtVolumes
<1>5. V \subseteq Nat /\ FreeVolumes(j) \subseteq V
  <2>1. V \subseteq 1 .. Len(j.areas) /\ FreeVolumes(j) \subseteq V
    BY <1>4, AreasAre
  <2> QED
    BY <2>1
<1>6. i \in V /\ i > n /\ \A k \in V : k > n => i <= k
  <2>1. LaterVolumes(a) \subseteq Nat /\ LaterVolumes(a) # {}
    BY <1>3, <1>5 DEF VolumeSpace
  <2>2. i \in LaterVolumes(a) /\ \A k \in LaterVolumes(a) : i <= k
    BY <2>1, MinIs
  <2> QED
    BY <1>3, <2>2
<1>7. /\ IF IsFree(a, i) THEN Insert(a, Row(a, "volume space", i, 0)) ELSE NoInsert
      /\ count' = [count EXCEPT ![a] = i] /\ UNCHANGED <<at, track>>
  BY <1>4 DEF VolumeSpace
<1>8. IsFree(a, i) <=> i \in FreeVolumes(j)
  BY <1>3, <1>6 DEF IsFree, FreeVolumes
<1> HIDE DEF i
<1>9. count'[a] = i
  BY <1>4, <1>7 DEF AllMaps, IsMap
<1>10. UpTo(FreeVolumes(j), i) =
         IF i \in FreeVolumes(j) THEN UpTo(FreeVolumes(j), n) \union {i} ELSE UpTo(FreeVolumes(j), n)
  <2>1. ASSUME NEW k \in FreeVolumes(j) PROVE k <= i <=> k <= n \/ k = i
    <3>1. k \in Nat /\ (k > n => i <= k) /\ i \in Nat /\ i > n /\ n \in Nat
      BY <1>3, <1>5, <1>6
    <3> QED
      BY ONLY <3>1
  <2> QED
    BY <2>1 DEF UpTo
<1>11. /\ AreasOf(x, "volume space") = UpTo(FreeVolumes(j), i)
       /\ AreasOf(x, "image space") = {} /\ Shows(x, FsAreas(j), V)
       /\ FreeUpTo(j, Len(j.areas), x)
  <2>1. CASE i \in FreeVolumes(j)
    <3>1. IsMore(x, w, "volume space", i)
      BY <1>4, <1>7, <1>8, <2>1, InsertMore
    <3>2. /\ AreasOf(x, "volume space") = AreasOf(w, "volume space") \union {i}
          /\ KeepsAreas(x, w, "volume space")
          /\ \A k : FreeRows(x, k) = FreeRows(w, k)
      BY <3>1, VolumeSpaceRow
    <3> HIDE DEF x, w
    <3>3. AreasOf(x, "fs") = AreasOf(w, "fs") /\ AreasOf(x, "volume") = AreasOf(w, "volume")
          /\ AreasOf(x, "image space") = AreasOf(w, "image space")
      BY <3>2, "fs" # "volume space", "volume" # "volume space", "image space" # "volume space"
         DEF KeepsAreas
    <3>4. FreeUpTo(j, Len(j.areas), x)
      BY <1>2, <3>2 DEF FreeUpTo
    <3> QED
      BY <1>2, <1>3, <1>10, <2>1, <3>2, <3>3, <3>4 DEF Shows
  <2>2. CASE i \notin FreeVolumes(j)
    <3>1. x = w
      BY <1>4, <1>7, <1>8, <2>2, InsertWrites
    <3> QED
      BY <1>2, <1>3, <1>10, <2>2, <3>1
  <2> QED
    BY <2>1, <2>2
<1>12. at'[a] = "volumes" /\ "volumes" \in Spaces /\ i \in Nat /\ track'[a] = track[a]
       /\ area'[a] = area[a]
  BY <1>1, <1>5, <1>6, <1>7 DEF Spaces
<1> HIDE DEF j, x, V
<1>13. SpaceAt("volumes", j, area[a], i, track[a], x)
  BY <1>2, <1>11, <1>12 DEF SpaceAt, V
<1> QED
  BY <1>9, <1>12, <1>13, AfterSpace DEF j, x

LEMMA NothingIs ==
  ASSUME NEW j, GoodJob(j), NEW S, S \subseteq 1 .. Len(j.areas)
  PROVE  Cardinality(S) = 0 <=> S = {}
<1>1. Len(j.areas) \in Nat
  BY DEF GoodJob
<1>2. IsFiniteSet(1 .. Len(j.areas))
  BY <1>1, FS_Interval
<1>3. IsFiniteSet(S)
  BY <1>2, FS_Subset
<1> QED
  BY <1>3, FS_EmptySet

LEMMA ImageSpaceShown ==
  ASSUME NEW a \in Additions, Before(a), ImageSpace(a)
  PROVE  Stands(a)'
<1> DEFINE w == written[a]
           x == written'[a]
           j == job[a]
           r == Row(a, "image space", 0, 0)
<1>1. at[a] = "image space" /\ at[a] \in Spaces
  BY DEF ImageSpace, Spaces
<1>2. /\ SpaceAt("image space", j, area[a], count[a], track[a], w)
      /\ GoodJob(j) /\ SteeringTypeOK /\ ~Fault
  BY <1>1, BeforeSpace
<1>3. /\ track[a].numFs = Cardinality(FsAreas(j)) /\ track[a].numVs = Cardinality(VolumeAreas(j))
      /\ FreeUpTo(j, Len(j.areas), w)
      /\ AreasOf(w, "image space") = {} /\ AreasOf(w, "volume space") = FreeVolumes(j)
  BY <1>2 DEF SpaceAt
<1>4. NothingFound(a) <=> VolumeAreas(j) = {} /\ FsAreas(j) = {}
  <2>1. FsAreas(j) \subseteq 1 .. Len(j.areas) /\ VolumeAreas(j) \subseteq 1 .. Len(j.areas)
    BY <1>2, AreasAre
  <2>2. Cardinality(FsAreas(j)) = 0 <=> FsAreas(j) = {}
    BY <1>2, <2>1, NothingIs
  <2>3. Cardinality(VolumeAreas(j)) = 0 <=> VolumeAreas(j) = {}
    BY <1>2, <2>1, NothingIs
  <2> QED
    BY <1>3, <2>2, <2>3 DEF NothingFound
<1>5. /\ at'[a] = "returned"
      /\ IF NothingFound(a) THEN Insert(a, r) ELSE NoInsert
  BY <1>2 DEF ImageSpace, Answer, Return, Goto, SteeringTypeOK
<1>6. r \notin w
  <2>1. r.what = "image space" /\ r.area = 0
    BY DEF Row
  <2> HIDE DEF r
  <2>2. ASSUME r \in w PROVE r.area \in AreasOf(w, "image space")
    BY <2>1, <2>2 DEF AreasOf
  <2> QED
    BY <1>3, <2>2
<1>7. SpaceExact(a, j, x)
  <2>1. CASE NothingFound(a)
    <3>1. x = w \union {r} /\ IsMore(x, w, "image space", 0)
      BY <1>2, <1>5, <2>1, InsertWrites, InsertMore
    <3>2. KeepsAreas(x, w, "image space")
      BY <3>1, RowKeepsAreas
    <3>3. AreasOf(x, "volume space") = AreasOf(w, "volume space")
      BY <3>2, "volume space" # "image space" DEF KeepsAreas
    <3>4. \A k : FreeRows(x, k) = FreeRows(w, k)
      BY ONLY <3>1, RowFree, "image space" # "free blocks"
    <3> HIDE DEF x
    <3>5. FreeUpTo(j, Len(j.areas), x)
      BY <1>3, <3>4 DEF FreeUpTo
    <3> QED
      BY <1>3, <1>4, <2>1, <3>1, <3>3, <3>5 DEF SpaceExact
  <2>2. CASE ~NothingFound(a)
    <3>1. x = w
      BY <1>2, <1>5, <2>2, InsertWrites
    <3> QED
      BY <1>3, <1>4, <1>6, <2>2, <3>1 DEF SpaceExact
  <2> QED
    BY <2>1, <2>2
<1> QED
  BY <1>5, <1>7 DEF Before, Stands, Surveys, Spaces

LEMMA InnerStands ==
  ASSUME NEW a \in Additions, Before(a), InnerStep(a), Clean(a)'
  PROVE  Stands(a)'
<1>1. ~StopAddImage(a) /\ ~BlocksStop(a) /\ ~BlocksFail(a)
  <2>1. ~StopAll(a) /\ ~Fault /\ SteeringTypeOK
    BY DEF Before, Clean, StopAll
  <2>2. ASSUME StopAddImage(a) PROVE FALSE
    BY <2>1, <2>2 DEF StopAddImage, Clean, SteeringTypeOK, Autos
  <2> QED
    BY <2>1, <2>2 DEF BlocksStop, BlocksFail
<1> QED
  BY <1>1, ImageSurveyed, VolumeSystemSurveyed, AreasSurveyed, FileSystemSurveyed, FilesSurveyed,
     FsDoneSurveyed, FoundSurveyed, FsSpaceStarts, FsSpaceEnds, FsOpened, BlockShown,
     BlocksEnded, VsSpaceBegun, VolumesEnded, VolumeSpaceShown, ImageSpaceShown
     DEF InnerStep

LEMMA FaultsCount ==
  ASSUME faults \in Nat, NoFault \/ Fault
  PROVE  faults' \in Nat /\ (faults' = 0 => faults = 0 /\ ~Fault)
  BY DEF NoFault, Fault

(* What is known of an addition stays if nobody touches it. *)
LEMMA SpaceKept ==
  ASSUME NEW a, SpaceOf(a), faults' = 0 => faults = 0,
         at'[a] = at[a], job'[a] = job[a], area'[a] = area[a], count'[a] = count[a],
         track'[a] = track[a], written'[a] = written[a],
         auto'[a].stop = "no" => auto[a].stop = "no",
         at[a] \in Surveys \union Spaces =>
           RowsOf(a, Visible(db)') = RowsOf(a, Visible(db))
  PROVE  SpaceOf(a)'
<1>1. Clean(a)' => Clean(a)
  BY DEF Clean
<1>2. Stands(a) => Stands(a)'
  BY DEF Stands
<1>3. /\ at'[a] = "new" => area'[a] = 1 /\ job'[a] = NoJob
      /\ at'[a] \in Surveys \union Spaces =>
           GoodJob(job'[a]) /\ RowsOf(a, Visible(db)') = written'[a]
  BY DEF SpaceOf
<1> QED
  BY <1>1, <1>2, <1>3 DEF SpaceOf

(* Only the addition that may insert rows is at one of these places. *)
LEMMA OneAtWork ==
  ASSUME CaseInv, NEW a \in Additions, Active(a), NEW b \in Additions,
         at[b] \in Surveys \union Spaces
  PROVE  b = a
<1>1. Running(b)
  BY DEF Running, Surveys, Spaces
<1> QED
  BY <1>1 DEF CaseInv, RunningIsActive, OneActive

LEMMA InnerKeepsSpaceInv ==
  ASSUME CaseInv, AllMaps, SpaceInv, RootInv, NEW a \in Additions, InnerStep(a)
  PROVE  SpaceInv'
<1>1. SteeringTypeOK /\ IsCase(db) /\ TracksOK /\ faults \in Nat
  BY DEF CaseInv, SpaceInv
<1>2. Onward(a) /\ Apart(a) /\ Inner(a) /\ TracksOK'
  BY <1>1, StepOnward, StepApart, InnerSteps, TracksStay DEF TracksOK
<1>3. faults' \in Nat /\ (faults' = 0 => faults = 0 /\ ~Fault)
  BY <1>1, <1>2, FaultsCount DEF Onward
<1>4. Active(a)
  BY <1>2 DEF Inner, CaseInv, RunningIsActive
<1>5. ASSUME NEW b \in Additions \ {a} PROVE SpaceOf(b)'
  <2>1. at[b] \notin Surveys \union Spaces
    BY <1>4, OneAtWork
  <2>2. /\ at'[b] = at[b] /\ job'[b] = job[b] /\ area'[b] = area[b] /\ count'[b] = count[b]
        /\ track'[b] = track[b] /\ written'[b] = written[b] /\ auto'[b] = auto[b]
    BY <1>2 DEF Onward, Apart
  <2>3. SpaceOf(b)
    BY DEF SpaceInv
  <2> QED
    BY <1>3, <2>1, <2>2, <2>3, SpaceKept
<1>6. SpaceOf(a)'
  <2>1. CASE StopAddImage(a)
    <3>1. /\ UNCHANGED <<db, job, at, area, written>>
          /\ auto'[a].stop # "no"
      BY <1>1, <2>1 DEF StopAddImage, SteeringTypeOK, Autos
    <3>2. SpaceOf(a)
      BY DEF SpaceInv
    <3> QED
      BY <3>1, <3>2 DEF SpaceOf, Clean
  <2>2. CASE ~StopAddImage(a)
    <3>1. at[a] \in Surveys \union Spaces
      BY <2>2
         DEF InnerStep, OpenImage, VolumeSystem, NoMoreAreas, SkipMeta, Volume, NoFileSystem,
             FileSystem, File, FilesEnd, WalkFails, FsDone, Found, FsSpace, NoMoreFs, OpenFs,
             Block, BlocksEnd, BlocksStop, BlocksFail, VsSpace, NoMoreVolumes, VolumeSpace,
             ImageSpace, Surveys, Spaces
    <3>2. /\ GoodJob(job[a]) /\ RowsOf(a, Visible(db)) = written[a]
          /\ Clean(a) => Stands(a)
      BY <3>1 DEF SpaceInv, SpaceOf
    <3>3. RowsOf(a, Visible(db)') = written'[a]
      BY <1>1, <1>2, <3>2, SeesItsRows DEF Inner
    <3>4. UNCHANGED job /\ at'[a] # "new"
      BY <1>2 DEF Onward
    <3>5. ASSUME Clean(a)' PROVE Stands(a)'
      <4>1. Clean(a) /\ ~Fault
        BY <1>2, <1>3, <3>5 DEF Clean, Onward
      <4>2. at[a] = "next fs" => Rooted(a)
        <5>1. CleanRoots(a)
          BY DEF RootInv, RootsOf
        <5> QED
          BY <4>1, <5>1 DEF CleanRoots, RootOrNext, Rooted
      <4>3. Before(a)
        BY <1>1, <3>2, <3>4, <4>1, <4>2 DEF Before
      <4> QED
        BY <3>5, <4>3, InnerStands
    <3> QED
      BY <3>2, <3>3, <3>4, <3>5 DEF SpaceOf
  <2> QED
    BY <2>1, <2>2
<1> QED
  BY <1>2, <1>3, <1>5, <1>6 DEF SpaceInv

(* The rows that others see stay the same. *)
LEMMA StartKeepsSpaceInv ==
  ASSUME AllJobsGood, CaseInv, AllMaps, SpaceInv, NEW a \in Additions, Start(a)
  PROVE  SpaceInv'
<1>1. SteeringTypeOK /\ IsCase(db) /\ TracksOK /\ faults \in Nat /\ IsMap(job) /\ ~db.open
  BY DEF CaseInv, SpaceInv, AllMaps, Start
<1>2. /\ at[a] = "new" /\ job'[a] \in Jobs[a] /\ UNCHANGED <<area, count, track, written>>
      /\ \A b \in Additions \ {a} :
           at'[b] = at[b] /\ job'[b] = job[b] /\ auto'[b] = auto[b]
      /\ NoFault \/ Fault
  BY <1>1 DEF Start, MayStart, IsMap, SteeringTypeOK, Goto, Return
<1>3. faults' \in Nat /\ (faults' = 0 => faults = 0 /\ ~Fault)
  BY <1>1, <1>2, FaultsCount
<1>4. Visible(db)' = Visible(db)
  <2>1. db' = db \/ db' = Created(db)
    BY DEF Start
  <2>2. Created(db).open /\ Created(db).tx = db.committed
    BY <1>1, CreatedCase
  <2> QED
    BY <1>1, <2>1, <2>2 DEF Visible
<1>5. ASSUME NEW b \in Additions \ {a} PROVE SpaceOf(b)'
  <2>1. SpaceOf(b)
    BY DEF SpaceInv
  <2> QED
    BY <1>2, <1>3, <1>4, <2>1, SpaceKept
<1>6. /\ area[a] = 1 /\ written[a] = {} /\ RowsOf(a, Visible(db)) = {} /\ GoodJob(job'[a])
  <2>1. RowsOf(a, db.committed \union db.tx) = {} /\ written[a] = {}
    BY <1>2 DEF CaseInv, NewIsClean
  <2>2. Visible(db) \subseteq db.committed \union db.tx
    BY DEF Visible
  <2>3. RowsOf(a, Visible(db)) = {}
    BY <2>1, <2>2 DEF RowsOf
  <2> QED
    BY <1>2, <2>1, <2>3 DEF SpaceInv, SpaceOf, AllJobsGood
<1>7. \/ at'[a] = "open"
      \/ at'[a] = "returned" /\ Fault
  BY <1>1 DEF Start, Goto, Return, SteeringTypeOK
<1>8. SpaceOf(a)'
  <2>1. CASE at'[a] = "open"
    <3>1. Surveyed("open", job'[a], 1, {})
      BY DEF Surveyed, NoSpace, Shows, AreasOf
    <3>2. Stands(a)'
      BY <1>2, <1>6, <2>1, <3>1 DEF Stands, Spaces
    <3> QED
      BY <1>2, <1>4, <1>6, <2>1, <3>2 DEF SpaceOf
  <2>2. CASE at'[a] = "returned" /\ Fault
    <3>1. ~Clean(a)'
      BY <1>3, <2>2 DEF Clean
    <3> QED
      BY <2>2, <3>1 DEF SpaceOf, Surveys, Spaces
  <2> QED
    BY <1>7, <2>1, <2>2
<1>9. TracksOK'
  BY <1>1, <1>2 DEF TracksOK, IsMap
<1> QED
  BY <1>3, <1>5, <1>8, <1>9 DEF SpaceInv

LEMMA RefusedKeepsSpaceInv ==
  ASSUME CaseInv, AllMaps, SpaceInv, NEW a \in Additions, StartRefused(a)
  PROVE  SpaceInv'
<1>1. SteeringTypeOK /\ IsCase(db) /\ TracksOK /\ faults \in Nat /\ db.open
  BY DEF CaseInv, SpaceInv, StartRefused
<1>2. /\ at[a] = "new" /\ at'[a] = "returned"
      /\ UNCHANGED <<job, auto, area, count, track, written>>
      /\ \A b \in Additions \ {a} : at'[b] = at[b]
      /\ NoFault \/ Fault
  BY <1>1 DEF StartRefused, MayStart, SteeringTypeOK, Goto, Return
<1>3. faults' \in Nat /\ (faults' = 0 => faults = 0)
  BY <1>1, <1>2, FaultsCount
<1>4. Visible(db)' = Visible(db)
  <2>1. db' = db \/ db' = Released(db)
    BY DEF StartRefused
  <2>2. ~Released(db).open /\ Released(db).committed = db.tx
    BY <1>1, ReleasedCase
  <2> QED
    BY <1>1, <2>1, <2>2 DEF Visible
<1>5. ASSUME NEW b \in Additions \ {a} PROVE SpaceOf(b)'
  <2>1. SpaceOf(b)
    BY DEF SpaceInv
  <2> QED
    BY <1>2, <1>3, <1>4, <2>1, SpaceKept
<1>6. SpaceOf(a)'
  <2>1. job'[a] = NoJob
    BY <1>2 DEF SpaceInv, SpaceOf
  <2> QED
    BY <1>2, <2>1 DEF SpaceOf, Stands, Surveys, Spaces
<1>7. TracksOK'
  BY <1>1, <1>2 DEF TracksOK, IsMap
<1> QED
  BY <1>3, <1>5, <1>6, <1>7 DEF SpaceInv

LEMMA EndKeepsSpaceInv ==
  ASSUME CaseInv, AllMaps, SpaceInv, NEW a \in Additions,
         OpenFailed(a) \/ RevertAddImage(a) \/ CommitAddImage(a) \/ NothingToEnd(a)
  PROVE  SpaceInv'
<1>1. SteeringTypeOK /\ TracksOK /\ faults \in Nat
  BY DEF CaseInv, SpaceInv
<1>2. /\ UNCHANGED <<job, area, count, track, written>>
      /\ UNCHANGED auto \/ Closed(a)
      /\ UNCHANGED db \/ auto[a].open \/ OpenFailed(a)
      /\ NoFault \/ Fault
  BY DEF OpenFailed, RevertAddImage, CommitAddImage, NothingToEnd, RevertWorks, RevertFails, NoFault
<1>3. faults' \in Nat /\ (faults' = 0 => faults = 0)
  BY <1>1, <1>2, FaultsCount
<1>4. \A b \in Additions : auto'[b].stop = auto[b].stop
  BY <1>1, <1>2 DEF Closed, SteeringTypeOK, Autos
<1>5. /\ \A b \in Additions \ {a} : at'[b] = at[b]
      /\ at'[a] = "returned" /\ at[a] \in {"returned", "not opened"}
      /\ OpenFailed(a) => at[a] = "not opened"
      /\ ~OpenFailed(a) => at[a] = "returned" /\ outcome[a] = "none"
  BY <1>1 DEF OpenFailed, RevertAddImage, CommitAddImage, NothingToEnd, MayEnd,
              Return, Goto, SteeringTypeOK
<1>6. UNCHANGED db \/ Active(a)
  <2>1. CASE OpenFailed(a)
    <3>1. Running(a)
      BY <1>5, <2>1 DEF Running
    <3> QED
      BY <3>1 DEF CaseInv, RunningIsActive
  <2>2. CASE ~OpenFailed(a)
    BY <1>2, <1>5, <2>2 DEF Active, Unfinished
  <2> QED
    BY <2>1, <2>2
<1>7. ASSUME NEW b \in Additions, b # a \/ ~OpenFailed(a) PROVE SpaceOf(b)'
  <2>1. at[a] \notin Surveys \union Spaces
    BY <1>5 DEF Surveys, Spaces
  <2>2. at[b] \in Surveys \union Spaces => UNCHANGED db
    BY <1>6, <2>1, OneAtWork
  <2>3. SpaceOf(b) /\ at'[b] = at[b]
    BY <1>5, <1>7 DEF SpaceInv
  <2> QED
    BY <1>2, <1>3, <1>4, <2>2, <2>3, SpaceKept
<1>8. ASSUME OpenFailed(a) PROVE SpaceOf(a)'
  <2>1. at[a] = "not opened" /\ SpaceOf(a)
    BY <1>5, <1>8 DEF SpaceInv
  <2>2. ~Clean(a)
    BY <2>1 DEF SpaceOf, Stands
  <2>3. ~Clean(a)'
    BY <1>3, <1>4, <2>2 DEF Clean
  <2> QED
    BY <1>5, <2>3 DEF SpaceOf, Surveys, Spaces
<1>9. TracksOK'
  BY <1>1, <1>2 DEF TracksOK, IsMap
<1> QED
  BY <1>3, <1>7, <1>8, <1>9 DEF SpaceInv

LEMMA CrashKeepsSpaceInv ==
  ASSUME CaseInv, SpaceInv, Crash
  PROVE  SpaceInv'
<1>1. /\ UNCHANGED <<job, auto, area, count, track, written, faults>>
      /\ \A b \in Additions : at'[b] = IF Unfinished(b) THEN "gone" ELSE at[b]
  BY DEF Crash
<1>2. ASSUME NEW b \in Additions PROVE SpaceOf(b)'
  <2>1. SpaceOf(b)
    BY DEF SpaceInv
  <2>2. CASE Unfinished(b)
    <3>1. at'[b] = "gone"
      BY <1>1, <2>2
    <3> QED
      BY <3>1 DEF SpaceOf, Stands, Surveys, Spaces
  <2>3. CASE ~Unfinished(b)
    <3>1. at[b] \notin Surveys \union Spaces
      <4>1. at[b] \in Surveys \union Spaces => Running(b)
        BY DEF Running, Surveys, Spaces
      <4> QED
        BY <2>3, <4>1 DEF CaseInv, RunningIsActive, Active
    <3> QED
      BY <1>1, <2>1, <2>3, <3>1, SpaceKept
  <2> QED
    BY <2>2, <2>3
<1>3. TracksOK'
  BY <1>1 DEF SpaceInv, TracksOK, IsMap
<1> QED
  BY <1>1, <1>2, <1>3 DEF SpaceInv

LEMMA StepKeepsSpaceInv ==
  ASSUME AllJobsGood, CaseInv, ProgressInv, SpaceInv, RootInv, [Next]_vars
  PROVE  SpaceInv'
<1>1. AllMaps
  BY DEF ProgressInv
<1>2. CASE UNCHANGED vars
  <2>1. UNCHANGED <<db, job, at, auto, area, count, track, written, faults>>
    BY <1>2 DEF vars
  <2> QED
    BY <2>1 DEF SpaceInv, TracksOK, IsMap, SpaceOf, Clean, Stands
<1> QED
  BY <1>1, <1>2, InnerKeepsSpaceInv, StartKeepsSpaceInv, RefusedKeepsSpaceInv, EndKeepsSpaceInv,
     CrashKeepsSpaceInv DEF Next, Step, InnerStep

-----------------------------------------------------------------------------
(* What is known before a step about the root directories *)
InStep(a) ==
  /\ SteeringTypeOK /\ AllMaps /\ TracksOK
  /\ GoodJob(job[a]) /\ RowsOf(a, Visible(db)) = written[a] /\ RootsOf(a)
  /\ UNCHANGED job /\ (Clean(a)' => Clean(a) /\ ~Fault)
  /\ auto'[a].stop = "no" => auto[a].stop = "no"

LEMMA InStepHas ==
  ASSUME NEW a \in Additions, InStep(a)
  PROVE  /\ SteeringTypeOK /\ AllMaps /\ TracksOK /\ UNCHANGED job
         /\ GoodJob(job[a]) /\ Len(job[a].areas) \in Nat
         /\ LocatedAt(at[a], job[a], area[a], count[a]) /\ FsOf(a) \subseteq Nat \ {0}
         /\ CleanRoots(a) /\ SeenRoots(a)
         /\ (Clean(a)' => Clean(a) /\ ~Fault)
         /\ (auto'[a].stop = "no" => auto[a].stop = "no")
         /\ AreasWith(a, "fs") = FsOf(a)
<1>1. AreasWith(a, "fs") = FsOf(a)
  BY AreasWithAre DEF InStep, FsOf
<1>2. Len(job[a].areas) \in Nat
  BY DEF InStep, GoodJob
<1> QED
  BY <1>1, <1>2 DEF InStep, RootsOf, Located

(* Where nothing is said of the answer *)
LEMMA NotSeen ==
  ASSUME NEW a, at'[a] \in OnTheWay \union {"not opened", "fs space"}
  PROVE  SeenRoots(a)'
BY DEF SeenRoots, OnTheWay, WalkPlaces, LatePlaces

LEMMA RootsStay ==
  ASSUME NEW a, written[a] \subseteq written'[a], FsOf(a)' = FsOf(a)
  PROVE  /\ \A i : RootIn(a, i) => RootIn(a, i)'
         /\ Rooted(a) => Rooted(a)'
         /\ \A n : RootedUpTo(a, n) => RootedUpTo(a, n)'
BY DEF RootIn, Rooted, RootedUpTo

LEMMA CleanStays ==
  ASSUME NEW a, CleanRoots(a), Clean(a)' => Clean(a), at[a] # "files", at[a] # "gone",
         written[a] \subseteq written'[a], FsOf(a)' = FsOf(a)
  PROVE  CleanRoots(a)'
<1>1. \A i : RootIn(a, i) => RootIn(a, i)'
  BY RootsStay
<1> QED
  BY <1>1 DEF CleanRoots, RootOrNext

(* A row leaves the file systems as they are, unless it is of one. *)
LEMMA InsertFs ==
  ASSUME SteeringTypeOK, NEW a \in Additions, NEW what, NEW i, NEW n, Insert(a, Row(a, what, i, n))
  PROVE  /\ written[a] \subseteq written'[a] /\ Row(a, what, i, n) \in written'[a]
         /\ what # "fs" => FsOf(a)' = FsOf(a)
         /\ what = "fs" => FsOf(a)' = FsOf(a) \union {i}
<1>1. written'[a] = written[a] \union {Row(a, what, i, n)}
  BY InsertWrites
<1>2. IsMore(written'[a], written[a], what, i)
  BY InsertMore
<1>3. /\ AreasOf(written'[a], what) = AreasOf(written[a], what) \union {i}
      /\ \A k : k # what => AreasOf(written'[a], k) = AreasOf(written[a], k)
  BY <1>2, RowAreas
<1> QED
  BY <1>1, <1>3 DEF FsOf

LEMMA NoInsertFs ==
  ASSUME NEW a, written'[a] = written[a]
  PROVE  written[a] \subseteq written'[a] /\ FsOf(a)' = FsOf(a)
BY DEF FsOf

LEMMA InsertFreeFs ==
  ASSUME SteeringTypeOK, NEW a \in Additions, NEW i, NEW ranges, Insert(a, FreeRow(a, i, ranges))
  PROVE  written[a] \subseteq written'[a] /\ FsOf(a)' = FsOf(a)
<1>1. written'[a] = written[a] \union {FreeRow(a, i, ranges)}
  BY InsertWrites
<1>2. FreeRow(a, i, ranges).what # "fs"
  BY DEF FreeRow, Row
<1> QED
  BY <1>1, <1>2 DEF FsOf, AreasOf

(* Up to the first area *)
LEMMA ImageRoots ==
  ASSUME NEW a \in Additions, InStep(a), OpenImage(a)
  PROVE  RootsOf(a)'
<1>1. /\ at[a] = "open" /\ UNCHANGED <<auto, area, count>>
      /\ NoInsert \/ Insert(a, Row(a, "image", 0, 0))
      /\ \/ IF job[a].vs THEN Goto(a, "vs") ELSE Goto(a, "fs")
         \/ Goto(a, "not opened")
         \/ Return(a, 1)
  BY DEF OpenImage
<1>2. /\ SteeringTypeOK /\ AllMaps /\ UNCHANGED job /\ GoodJob(job[a])
      /\ LocatedAt("open", job[a], area[a], count[a]) /\ FsOf(a) \subseteq Nat \ {0}
      /\ CleanRoots(a) /\ (Clean(a)' => Clean(a))
  BY <1>1, InStepHas
<1>3. written[a] \subseteq written'[a] /\ FsOf(a)' = FsOf(a)
  <2>1. CASE NoInsert
    <3>1. written'[a] = written[a]
      BY <2>1 DEF NoInsert
    <3> QED
      BY <3>1, NoInsertFs
  <2>2. CASE Insert(a, Row(a, "image", 0, 0))
    <3>1. "image" # "fs"
      OBVIOUS
    <3> QED
      BY <1>2, <2>2, <3>1, InsertFs
  <2> QED
    BY <1>1, <2>1, <2>2
<1>4. area[a] = 1 /\ count[a] = 0
  BY <1>2 DEF LocatedAt, FirstPlaces, EarlyPlaces
<1>5. \/ at'[a] = "vs"
      \/ at'[a] = "fs" /\ ~job[a].vs
      \/ at'[a] = "not opened"
      \/ at'[a] = "returned" /\ ret'[a] = 1
  BY <1>1, <1>2 DEF Goto, Return, SteeringTypeOK, AllMaps, IsMap
<1>6. CleanRoots(a)'
  BY <1>1, <1>2, <1>3, CleanStays
<1>7. SeenRoots(a)'
  <2>1. CASE at'[a] = "returned" /\ ret'[a] = 1
    <3>1. "returned" \notin WalkPlaces /\ "returned" \notin LatePlaces
      BY DEF WalkPlaces, LatePlaces
    <3> QED
      BY <2>1, <3>1 DEF SeenRoots
  <2> QED
    BY <1>5, <2>1, NotSeen, Ways
<1>8. LocatedAt(at'[a], job[a], 1, 0)
  <2>1. ~job[a].vs => 1 <= Len(job[a].areas)
    BY <1>2 DEF GoodJob
  <2>2. 1 \in Nat \ {0}
    OBVIOUS
  <2> QED
    BY <1>5, <2>1, <2>2 DEF LocatedAt, FirstPlaces, EarlyPlaces, FsPlaces, WalkPlaces, OnTheWay
<1> QED
  BY <1>1, <1>2, <1>3, <1>4, <1>6, <1>7, <1>8 DEF RootsOf, Located

(* From area to area *)
LEMMA AreaRoots ==
  ASSUME NEW a \in Additions, InStep(a),
         VolumeSystem(a) \/ NoMoreAreas(a) \/ SkipMeta(a) \/ Volume(a) \/ NoFileSystem(a) \/ FsDone(a)
  PROVE  RootsOf(a)'
<1> DEFINE i == area[a]
<1>1. /\ SteeringTypeOK /\ AllMaps /\ UNCHANGED job
      /\ LocatedAt(at[a], job[a], i, count[a]) /\ FsOf(a) \subseteq Nat \ {0}
      /\ CleanRoots(a) /\ (Clean(a)' => Clean(a))
  BY InStepHas
<1>2. written[a] \subseteq written'[a] /\ FsOf(a)' = FsOf(a)
  <2>1. \/ NoInsert \/ UNCHANGED written
        \/ Insert(a, Row(a, "vs", 0, 0)) \/ Insert(a, Row(a, "volume", i, 0))
    BY DEF VolumeSystem, NoMoreAreas, SkipMeta, Volume, NoFileSystem, FsDone
  <2> QED
    BY <1>1, <2>1, InsertFs, NoInsertFs, InsertWrites
<1>3. at[a] # "files" /\ at[a] # "gone" /\ at[a] \in OnTheWay
  BY DEF VolumeSystem, NoMoreAreas, SkipMeta, Volume, NoFileSystem, FsDone, OnTheWay
<1>4. CleanRoots(a)'
  BY <1>1, <1>2, <1>3, CleanStays
<1>5. i \in Nat \ {0} /\ i + 1 \in Nat \ {0}
  <2>1. i \in Nat \ {0}
    BY <1>1, <1>3 DEF LocatedAt
  <2> QED
    BY <2>1
<1>6. \/ at'[a] \in {"area", "found"} /\ area'[a] \in {i, i + 1} /\ (at'[a] = "area" => count'[a] = 0)
      \/ at'[a] = "fs" /\ area'[a] = i /\ count'[a] = 0 /\ i <= Len(job[a].areas)
      \/ at'[a] = "fs done" /\ area'[a] = i /\ i <= Len(job[a].areas)
  <2> USE DEF Goto, SteeringTypeOK, AllMaps, IsMap
  <2>1. CASE VolumeSystem(a)
    BY <1>1, <2>1 DEF VolumeSystem, LocatedAt, EarlyPlaces
  <2>2. CASE NoMoreAreas(a)
    BY <1>1, <2>2 DEF NoMoreAreas, GiveUp
  <2>3. CASE SkipMeta(a)
    BY <1>1, <2>3 DEF SkipMeta, NextArea
  <2>4. CASE Volume(a)
    BY <1>1, <2>4 DEF Volume, LocatedAt, EarlyPlaces
  <2>5. CASE NoFileSystem(a)
    BY <1>1, <2>5 DEF NoFileSystem, LeaveFs, LocatedAt, FsPlaces
  <2>6. CASE FsDone(a)
    BY <1>1, <2>6 DEF FsDone, AfterFs, NextArea, GiveUp
  <2> QED
    BY <2>1, <2>2, <2>3, <2>4, <2>5, <2>6
<1>7. at'[a] \in OnTheWay /\ area'[a] \in Nat \ {0}
  <2>1. area'[a] \in {i, i + 1}
    BY <1>6
  <2>2. at'[a] \in OnTheWay
    BY <1>6 DEF OnTheWay
  <2> QED
    BY <1>5, <2>1, <2>2
<1>8. LocatedAt(at'[a], job[a], area'[a], count'[a])
  BY <1>6, <1>7 DEF LocatedAt, FirstPlaces, EarlyPlaces, FsPlaces, WalkPlaces
<1>9. SeenRoots(a)'
  BY <1>7, NotSeen
<1> QED
  BY <1>1, <1>2, <1>4, <1>8, <1>9 DEF RootsOf, Located

(* The root of a file system that was just found is added next. *)
LEMMA FileSystemRoots ==
  ASSUME NEW a \in Additions, InStep(a), FileSystem(a)
  PROVE  RootsOf(a)'
<1> DEFINE i == area[a]
<1>1. /\ SteeringTypeOK /\ AllMaps /\ UNCHANGED job
      /\ LocatedAt("fs", job[a], i, count[a]) /\ FsOf(a) \subseteq Nat \ {0}
      /\ CleanRoots(a) /\ (Clean(a)' => Clean(a) /\ ~Fault)
      /\ at[a] = "fs" /\ UNCHANGED area /\ job[a].areas[i].fs # NoFs
  BY InStepHas DEF FileSystem, Area
<1>2. count[a] = 0 /\ i \in Nat \ {0} /\ i <= Len(job[a].areas)
  BY <1>1 DEF LocatedAt, EarlyPlaces, OnTheWay, FsPlaces
<1>3. CASE Insert(a, Row(a, "fs", i, 0)) /\ Goto(a, "files") /\ (UNCHANGED count \/ Fault)
  <2>1. at'[a] = "files" /\ written[a] \subseteq written'[a] /\ FsOf(a)' = FsOf(a) \union {i}
    BY <1>1, <1>3, InsertFs DEF Goto, SteeringTypeOK
  <2>2. ASSUME Clean(a)', NEW k \in FsOf(a)' PROVE RootOrNext(a, k)'
    <3>1. UNCHANGED count /\ Clean(a)
      BY <1>1, <1>3, <2>2
    <3>2. CASE k = i
      BY <1>1, <1>2, <2>1, <3>1, <3>2 DEF RootOrNext
    <3>3. CASE k \in FsOf(a)
      <4>1. RootIn(a, k)
        BY <1>1, <3>1, <3>3 DEF CleanRoots, RootOrNext
      <4> QED
        BY <2>1, <4>1 DEF RootOrNext, RootIn
    <3> QED
      BY <2>1, <2>2, <3>2, <3>3
  <2>3. LocatedAt("files", job[a], i, count'[a])
    BY <1>1, <1>2 DEF LocatedAt, FirstPlaces, EarlyPlaces, WalkPlaces
  <2>4. SeenRoots(a)'
    BY <2>1, NotSeen, Ways
  <2>5. FsOf(a)' \subseteq Nat \ {0}
    BY <1>1, <1>2, <2>1
  <2> QED
    BY <1>1, <2>1, <2>2, <2>3, <2>4, <2>5 DEF RootsOf, Located, CleanRoots
<1>4. CASE NoInsert /\ Goto(a, "fs done")
  <2>1. at'[a] = "fs done" /\ written'[a] = written[a]
    BY <1>1, <1>4, InsertWrites DEF Goto, SteeringTypeOK
  <2>2. FsOf(a)' = FsOf(a) /\ CleanRoots(a)'
    BY <1>1, <2>1, NoInsertFs, CleanStays
  <2>3. LocatedAt("fs done", job[a], i, count'[a])
    BY <1>2 DEF LocatedAt, FirstPlaces, EarlyPlaces, WalkPlaces
  <2>4. SeenRoots(a)'
    BY <2>1, NotSeen, Ways
  <2> QED
    BY <1>1, <2>1, <2>2, <2>3, <2>4 DEF RootsOf, Located
<1> QED
  BY <1>3, <1>4 DEF FileSystem

LEMMA FileRoots ==
  ASSUME NEW a \in Additions, InStep(a), File(a) \/ FilesEnd(a) \/ WalkFails(a)
  PROVE  RootsOf(a)'
<1> DEFINE i == area[a]
           fs == job[a].areas[i].fs
<1>1. /\ SteeringTypeOK /\ AllMaps /\ UNCHANGED job /\ GoodJob(job[a])
      /\ LocatedAt("files", job[a], i, count[a]) /\ FsOf(a) \subseteq Nat \ {0}
      /\ CleanRoots(a) /\ (Clean(a)' => Clean(a) /\ ~Fault)
      /\ at[a] = "files" /\ UNCHANGED area /\ Len(job[a].areas) \in Nat
  BY InStepHas DEF File, FilesEnd, WalkFails, LeaveFs
<1>2. i \in Nat \ {0} /\ i <= Len(job[a].areas) /\ fs # NoFs
  BY <1>1 DEF LocatedAt, OnTheWay, FsPlaces
<1>3. fs.files \in Nat
  BY <1>1, <1>2 DEF GoodJob
<1>4. CASE File(a)
  <2>1. at'[a] = "files" /\ (Insert(a, Row(a, "file", i, count[a])) \/ (NoInsert /\ Fault))
    BY <1>1, <1>4 DEF File
  <2>2. written[a] \subseteq written'[a] /\ FsOf(a)' = FsOf(a)
    BY <1>1, <2>1, InsertFs, NoInsertFs, InsertWrites
  <2>3. ASSUME Clean(a)', NEW k \in FsOf(a)' PROVE RootOrNext(a, k)'
    <3>1. Clean(a) /\ Insert(a, Row(a, "file", i, count[a])) /\ RootOrNext(a, k)
      BY <1>1, <2>1, <2>2, <2>3 DEF CleanRoots
    <3>2. Row(a, "file", i, count[a]) \in written'[a]
      BY <1>1, <3>1, InsertFs
    <3>3. RootIn(a, k)'
      BY <2>2, <3>1, <3>2 DEF RootOrNext, RootIn
    <3> QED
      BY <3>3 DEF RootOrNext
  <2>4. LocatedAt("files", job[a], i, count'[a])
    BY <1>2 DEF LocatedAt, FirstPlaces, EarlyPlaces, WalkPlaces
  <2>5. SeenRoots(a)'
    BY <2>1, NotSeen, Ways
  <2> QED
    BY <1>1, <2>1, <2>2, <2>3, <2>4, <2>5 DEF RootsOf, Located, CleanRoots
<1>5. CASE FilesEnd(a) \/ WalkFails(a)
  <2>1. /\ at'[a] = "fs done" /\ written'[a] = written[a]
        /\ (UNCHANGED auto /\ (count[a] > fs.files \/ auto[a].stop # "no")) \/ Fault
    <3>1. CASE FilesEnd(a)
      BY <1>1, <3>1 DEF FilesEnd, LeaveFs, Goto, SteeringTypeOK, Area
    <3>2. CASE WalkFails(a)
      BY <1>1, <3>2, InsertWrites DEF WalkFails, LeaveFs, Goto, SteeringTypeOK
    <3> QED
      BY <1>5, <3>1, <3>2
  <2>2. written[a] \subseteq written'[a] /\ FsOf(a)' = FsOf(a)
    BY <2>1, NoInsertFs
  <2>3. Clean(a)' => Clean(a) /\ count[a] > fs.files
    BY <1>1, <2>1 DEF Clean
  <2>4. count[a] > fs.files => count[a] # 0
    BY <1>3
  <2>5. ASSUME Clean(a)', NEW k \in FsOf(a)' PROVE RootOrNext(a, k)'
    <3>1. RootOrNext(a, k) /\ count[a] # 0
      BY <1>1, <2>2, <2>3, <2>4, <2>5 DEF CleanRoots
    <3> QED
      BY <2>2, <3>1 DEF RootOrNext, RootIn
  <2>6. LocatedAt("fs done", job[a], i, count'[a])
    BY <1>2 DEF LocatedAt, FirstPlaces, EarlyPlaces, WalkPlaces
  <2>7. SeenRoots(a)'
    BY <2>1, NotSeen, Ways
  <2> QED
    BY <1>1, <2>1, <2>2, <2>5, <2>6, <2>7 DEF RootsOf, Located, CleanRoots
<1> QED
  BY <1>4, <1>5

LEMMA FoundRoots ==
  ASSUME NEW a \in Additions, InStep(a), Found(a)
  PROVE  RootsOf(a)'
<1>1. /\ SteeringTypeOK /\ AllMaps /\ UNCHANGED job /\ FsOf(a) \subseteq Nat \ {0}
      /\ CleanRoots(a) /\ (Clean(a)' => Clean(a))
  BY InStepHas
<1>2. /\ at[a] = "found" /\ UNCHANGED auto /\ written'[a] = written[a]
      /\ at'[a] = "fs space" \/ (at'[a] = "returned" /\ auto'[a].stop # "no")
  BY <1>1 DEF Found, Goto, SteeringTypeOK, StopAll
<1>3. FsOf(a)' = FsOf(a) /\ CleanRoots(a)'
  BY <1>1, <1>2, NoInsertFs, CleanStays
<1>4. SeenRoots(a)'
  <2>1. CASE at'[a] = "fs space"
    BY <2>1, NotSeen
  <2>2. CASE auto'[a].stop # "no"
    BY <2>2 DEF SeenRoots
  <2> QED
    BY <1>2, <2>1, <2>2
<1>5. LocatedAt(at'[a], job[a], area'[a], count'[a])
  BY <1>2 DEF LocatedAt, FirstPlaces, EarlyPlaces, OnTheWay, FsPlaces, WalkPlaces
<1> QED
  BY <1>1, <1>3, <1>4, <1>5 DEF RootsOf, Located

(* Once the files are added, nothing moves the file systems and the roots. *)
LEMMA LaterStays ==
  ASSUME NEW a \in Additions, InStep(a),
         \/ FsSpace(a) \/ NoMoreFs(a) \/ OpenFs(a)
         \/ Block(a) \/ BlocksEnd(a) \/ BlocksStop(a) \/ BlocksFail(a)
         \/ VsSpace(a) \/ NoMoreVolumes(a) \/ VolumeSpace(a) \/ ImageSpace(a)
  PROVE  /\ written[a] \subseteq written'[a] /\ FsOf(a)' = FsOf(a) /\ CleanRoots(a)'
         /\ FsOf(a)' \subseteq Nat \ {0} /\ UNCHANGED job
<1>1. /\ SteeringTypeOK /\ UNCHANGED job /\ FsOf(a) \subseteq Nat \ {0}
      /\ CleanRoots(a) /\ (Clean(a)' => Clean(a))
  BY InStepHas
<1>2. \/ NoInsert \/ UNCHANGED written
      \/ \E what, i : what # "fs" /\ Insert(a, Row(a, what, i, 0))
      \/ \E i, ranges : Insert(a, FreeRow(a, i, ranges))
  <2>1. "free dir" # "fs" /\ "volume space" # "fs" /\ "image space" # "fs"
    OBVIOUS
  <2> QED
    BY <2>1 DEF FsSpace, NoMoreFs, OpenFs, Block, BlocksEnd, BlocksStop, BlocksFail,
         VsSpace, NoMoreVolumes, VolumeSpace, ImageSpace
<1>3. written[a] \subseteq written'[a] /\ FsOf(a)' = FsOf(a)
  BY <1>1, <1>2, InsertFs, InsertFreeFs, NoInsertFs, InsertWrites
<1>4. at[a] # "files" /\ at[a] # "gone"
  BY DEF FsSpace, NoMoreFs, OpenFs, Block, BlocksEnd, BlocksStop, BlocksFail,
         VsSpace, NoMoreVolumes, VolumeSpace, ImageSpace
<1> QED
  BY <1>1, <1>3, <1>4, CleanStays

LEMMA ProblemMarks ==
  ASSUME TracksOK, NEW a \in Additions, Problem(a)
  PROVE  track'[a].err
<1>1. track'[a] = [track[a] EXCEPT !.err = TRUE] /\ IsTrack(track[a])
  BY DEF TracksOK, IsMap, Problem
<1> QED
  BY <1>1 DEF IsTrack, Members

LEMMA BlockKeepsErr ==
  ASSUME TracksOK, NEW a \in Additions, Block(a)
  PROVE  track'[a].err = track[a].err
<1> DEFINE t == track[a]
           b == Min(LaterFree(a))
           next == [NextRangeAt(t, b) EXCEPT !.ranges = WithRange(t), !.size = SizeOf(t)]
<1>1. IsMap(track) /\ IsTrack(t)
  BY DEF TracksOK
<1>2. \/ track'[a] = [NextRangeAt(t, b) EXCEPT !.isStart = FALSE]
      \/ track'[a] = [t EXCEPT !.prev = b]
      \/ track'[a] = next
      \/ track'[a] = [next EXCEPT !.ranges = <<>>, !.size = 0]
  BY <1>1 DEF Block, IsMap
<1>3. next.err = t.err
  BY <1>1 DEF NextRangeAt, IsTrack, Members
<1>4. [next EXCEPT !.ranges = <<>>, !.size = 0].err = t.err
  BY <1>1 DEF NextRangeAt, IsTrack, Members
<1>5. /\ [NextRangeAt(t, b) EXCEPT !.isStart = FALSE].err = t.err
      /\ [t EXCEPT !.prev = b].err = t.err
  BY <1>1 DEF NextRangeAt, IsTrack, Members
<1> HIDE DEF next, b
<1> QED
  BY <1>2, <1>3, <1>4, <1>5

(* The roots up to the next file system *)
LEMMA NextRoot ==
  ASSUME NEW S, S \subseteq Nat \ {0}, NEW n \in Nat, NEW L, L = {i \in S : i > n}, L # {},
         NEW m, m = Min(L)
  PROVE  m \in S /\ \A i \in S : i <= m => i <= n \/ i = m
<1>1. L \subseteq Nat
  OBVIOUS
<1>2. m \in L /\ \A c \in L : m <= c
  BY <1>1, MinIs
<1>3. \A i \in S : i \in Nat /\ (i > n <=> i \in L)
  OBVIOUS
<1> QED
  BY <1>1, <1>2, <1>3

LEMMA OpenFsSeen ==
  ASSUME NEW a \in Additions, InStep(a), OpenFs(a)
  PROVE  SeenRoots(a)' /\ area'[a] \in Nat
<1> DEFINE m == Min(LaterFs(a))
<1>1. /\ SteeringTypeOK /\ AllMaps /\ TracksOK
      /\ LocatedAt("next fs", job[a], area[a], count[a]) /\ FsOf(a) \subseteq Nat \ {0}
      /\ SeenRoots(a) /\ (auto'[a].stop = "no" => auto[a].stop = "no")
      /\ AreasWith(a, "fs") = FsOf(a) /\ at[a] = "next fs"
      /\ area' = [area EXCEPT ![a] = m]
  BY InStepHas DEF OpenFs
<1>2. area[a] \in Nat
  BY <1>1 DEF LocatedAt, WalkPlaces
<1>3. LaterFs(a) = {i \in FsOf(a) : i > area[a]} /\ LaterFs(a) # {}
  BY <1>1 DEF LaterFs, OpenFs
<1>4. m \in FsOf(a) /\ \A i \in FsOf(a) : i <= m => i <= area[a] \/ i = m
  BY <1>1, <1>2, <1>3, NextRoot
<1> HIDE DEF m
<1>5. area'[a] = m /\ m \in Nat
  BY <1>1, <1>4 DEF AllMaps, IsMap
<1>6. written[a] \subseteq written'[a] /\ FsOf(a)' = FsOf(a)
  BY LaterStays
<1>7. CASE Problem(a)
  <2>1. track'[a].err /\ at'[a] # "returned"
    BY <1>1, <1>7, ProblemMarks DEF OpenFs, Goto, SteeringTypeOK
  <2> QED
    BY <1>5, <2>1 DEF SeenRoots
<1>8. CASE ~Problem(a)
  <2>1. /\ HasRoot(a, m) /\ at'[a] = "blocks"
        /\ track'[a] = [NoTrack EXCEPT !.numFs = track[a].numFs, !.err = track[a].err]
    BY <1>1, <1>5, <1>8 DEF OpenFs, Goto, SteeringTypeOK, TracksOK, IsMap
  <2>2. track'[a].err = track[a].err
    BY <2>1 DEF NoTrack
  <2>3. RootIn(a, m)
    BY <2>1 DEF HasRoot, InStep, RowsOf, RootIn, Row
  <2>4. ASSUME RootedUpTo(a, area[a]) PROVE RootedUpTo(a, area[a])'
    <3>1. \A i \in FsOf(a) : i <= m => RootIn(a, i)
      BY <1>4, <2>3, <2>4 DEF RootedUpTo
    <3>2. \A i \in FsOf(a)' : i <= area'[a] => RootIn(a, i)
      BY <1>5, <1>6, <3>1
    <3>3. \A i : RootIn(a, i) => RootIn(a, i)'
      BY <1>6, RootsStay
    <3> QED
      BY <3>2, <3>3 DEF RootedUpTo
  <2>5. "next fs" \in WalkPlaces /\ "blocks" \notin LatePlaces /\ "blocks" # "returned"
    BY DEF WalkPlaces, LatePlaces
  <2>6. auto'[a].stop = "no" /\ ~track'[a].err => RootedUpTo(a, area[a])'
    BY <1>1, <2>2, <2>4, <2>5 DEF SeenRoots
  <2>7. SeenRoots(a)'
    BY <2>1, <2>5, <2>6 DEF SeenRoots
  <2> QED
    BY <1>5, <2>7
<1> QED
  BY <1>7, <1>8

LEMMA FsSpaceSeen ==
  ASSUME NEW a \in Additions, InStep(a), FsSpace(a)
  PROVE  SeenRoots(a)' /\ (at'[a] = "next fs" => area'[a] \in Nat)
<1>1. /\ SteeringTypeOK /\ AllMaps /\ TracksOK /\ FsOf(a) \subseteq Nat \ {0}
      /\ (auto'[a].stop = "no" => auto[a].stop = "no")
  BY InStepHas
<1>2. FsOf(a)' = FsOf(a)
  BY LaterStays
<1>3. \/ at'[a] = "vs space" /\ StopAll(a)
      \/ at'[a] = "vs space" /\ Problem(a)
      \/ at'[a] = "next fs" /\ area'[a] = 0
  BY <1>1 DEF FsSpace, Goto, SteeringTypeOK, AllMaps, IsMap
<1>4. CASE at'[a] = "vs space" /\ StopAll(a)
  BY <1>1, <1>4 DEF SeenRoots, StopAll
<1>5. CASE at'[a] = "vs space" /\ Problem(a)
  <2>1. track'[a].err
    BY <1>1, <1>5, ProblemMarks
  <2> QED
    BY <1>5, <2>1 DEF SeenRoots
<1>6. CASE at'[a] = "next fs" /\ area'[a] = 0
  <2>1. \A i \in FsOf(a) : ~(i <= 0)
    BY <1>1
  <2>2. RootedUpTo(a, area[a])'
    BY <1>2, <1>6, <2>1 DEF RootedUpTo
  <2>3. "next fs" \notin LatePlaces /\ "next fs" # "returned"
    BY DEF LatePlaces
  <2>4. SeenRoots(a)'
    BY <1>6, <2>2, <2>3 DEF SeenRoots
  <2>5. 0 \in Nat
    OBVIOUS
  <2>6. area'[a] \in Nat
    BY <1>6, <2>5, Zenon
  <2> QED
    BY <2>4, <2>6, Zenon
<1> QED
  BY <1>3, <1>4, <1>5, <1>6

LEMMA NoMoreFsSeen ==
  ASSUME NEW a \in Additions, InStep(a), NoMoreFs(a)
  PROVE  SeenRoots(a)'
<1>1. /\ SteeringTypeOK /\ AllMaps /\ TracksOK
      /\ LocatedAt("next fs", job[a], area[a], count[a]) /\ FsOf(a) \subseteq Nat \ {0}
      /\ SeenRoots(a) /\ (auto'[a].stop = "no" => auto[a].stop = "no")
      /\ AreasWith(a, "fs") = FsOf(a) /\ at[a] = "next fs"
      /\ UNCHANGED <<area, track>> /\ (StopAll(a) \/ LaterFs(a) = {})
  BY InStepHas DEF NoMoreFs
<1>2. area[a] \in Nat /\ "next fs" \in WalkPlaces
  BY <1>1 DEF LocatedAt, WalkPlaces
<1>3. written[a] \subseteq written'[a] /\ FsOf(a)' = FsOf(a)
  BY LaterStays
<1>4. at'[a] = "vs space"
  BY <1>1 DEF NoMoreFs, Goto, SteeringTypeOK
<1>5. "vs space" \notin WalkPlaces /\ "vs space" # "returned"
  BY DEF WalkPlaces
<1>6. ASSUME auto'[a].stop = "no", ~track'[a].err PROVE Rooted(a)'
  <2>1. LaterFs(a) = {} /\ RootedUpTo(a, area[a])
    BY <1>1, <1>2, <1>6 DEF SeenRoots, StopAll
  <2>2. \A i \in FsOf(a) : ~(i > area[a])
    BY <1>1, <2>1 DEF LaterFs
  <2>3. \A i \in FsOf(a) : i <= area[a]
    <3> TAKE i \in FsOf(a)
    <3>1. i \in Nat /\ ~(i > area[a])
      BY <1>1, <2>2
    <3>2. area[a] \in Nat
      BY <1>2
    <3> QED
      BY ONLY <3>1, <3>2
  <2>4. Rooted(a)
    BY <2>1, <2>3 DEF RootedUpTo, Rooted
  <2> QED
    BY <1>3, <2>4, RootsStay
<1> QED
  BY <1>4, <1>5, <1>6 DEF SeenRoots

(* The blocks of a file system *)
LEMMA BlocksSeen ==
  ASSUME NEW a \in Additions, InStep(a), Block(a) \/ BlocksEnd(a) \/ BlocksStop(a) \/ BlocksFail(a)
  PROVE  SeenRoots(a)' /\ area'[a] \in Nat
<1>1. /\ SteeringTypeOK /\ TracksOK
      /\ LocatedAt("blocks", job[a], area[a], count[a])
      /\ SeenRoots(a) /\ (auto'[a].stop = "no" => auto[a].stop = "no")
      /\ at[a] = "blocks" /\ UNCHANGED area
  BY InStepHas DEF Block, BlocksEnd, BlocksStop, BlocksFail
<1>2. area[a] \in Nat /\ "blocks" \in WalkPlaces
  BY <1>1 DEF LocatedAt, WalkPlaces
<1>3. written[a] \subseteq written'[a] /\ FsOf(a)' = FsOf(a)
  BY LaterStays
<1>4. at'[a] = "blocks" \/ at'[a] = "next fs"
  BY <1>1 DEF Block, BlocksEnd, BlocksStop, BlocksFail, Goto, SteeringTypeOK
<1>5. at'[a] \notin LatePlaces /\ at'[a] # "returned"
  BY <1>4 DEF LatePlaces
<1>6. track'[a].err \/ track'[a].err = track[a].err
  <2>1. UNCHANGED track \/ Problem(a) \/ Block(a)
    BY DEF BlocksEnd, BlocksStop, BlocksFail
  <2> QED
    BY <1>1, <2>1, ProblemMarks, BlockKeepsErr
<1>7. RootedUpTo(a, area[a]) => RootedUpTo(a, area[a])'
  BY <1>1, <1>3, RootsStay
<1> QED
  BY <1>1, <1>2, <1>5, <1>6, <1>7 DEF SeenRoots

(* The volumes and the answer *)
LEMMA VolumesSeen ==
  ASSUME NEW a \in Additions, InStep(a),
         VsSpace(a) \/ NoMoreVolumes(a) \/ VolumeSpace(a) \/ ImageSpace(a)
  PROVE  SeenRoots(a)' /\ at'[a] \in LatePlaces \union {"returned"}
<1>1. /\ SteeringTypeOK /\ AllMaps /\ TracksOK
      /\ SeenRoots(a) /\ (auto'[a].stop = "no" => auto[a].stop = "no")
  BY InStepHas
<1>2. at[a] \in LatePlaces
  BY DEF VsSpace, NoMoreVolumes, VolumeSpace, ImageSpace, LatePlaces
<1>3. written[a] \subseteq written'[a] /\ FsOf(a)' = FsOf(a)
  BY LaterStays
<1>4. Rooted(a) => Rooted(a)'
  BY <1>3, RootsStay
<1>5. CASE VsSpace(a) \/ NoMoreVolumes(a) \/ VolumeSpace(a)
  <2>1. at'[a] \in LatePlaces
    BY <1>1, <1>5 DEF VsSpace, NoMoreVolumes, VolumeSpace, Goto, SteeringTypeOK, LatePlaces
  <2>2. at'[a] \notin WalkPlaces /\ at'[a] # "returned"
    BY <2>1 DEF LatePlaces, WalkPlaces
  <2>3. track'[a].err \/ track'[a].err = track[a].err
    <3>1. UNCHANGED track \/ Problem(a)
          \/ \E n : track' = [track EXCEPT ![a].numVs = n]
                    \/ track' = [track EXCEPT ![a].numVs = n, ![a].err = TRUE]
      BY <1>5 DEF VsSpace, NoMoreVolumes, VolumeSpace
    <3>2. IsTrack(track[a]) /\ IsMap(track)
      BY <1>1 DEF TracksOK
    <3>3. \A n : [track[a] EXCEPT !.numVs = n].err = track[a].err
                 /\ [track[a] EXCEPT !.numVs = n, !.err = TRUE].err = TRUE
      BY <3>2 DEF IsTrack, Members
    <3>4. ASSUME NEW n,
                 \/ track' = [track EXCEPT ![a].numVs = n]
                 \/ track' = [track EXCEPT ![a].numVs = n, ![a].err = TRUE]
          PROVE  track'[a].err \/ track'[a].err = track[a].err
      <4>1. \/ track'[a] = [track[a] EXCEPT !.numVs = n]
            \/ track'[a] = [track[a] EXCEPT !.numVs = n, !.err = TRUE]
        BY <3>2, <3>4 DEF IsMap
      <4> QED
        BY <3>3, <4>1
    <3> QED
      BY <1>1, <3>1, <3>4, ProblemMarks
  <2> QED
    BY <1>1, <1>2, <1>4, <2>1, <2>2, <2>3 DEF SeenRoots
<1>6. CASE ImageSpace(a)
  <2>1. /\ at'[a] = "returned" /\ UNCHANGED <<track, auto>>
        /\ ret'[a] = 0 => ~track[a].err
    <3>1. \E err \in {TRUE, track[a].err} : Answer(a, err)
      BY <1>6 DEF ImageSpace
    <3>2. PICK err \in {TRUE, track[a].err} : Answer(a, err)
      BY <3>1
    <3>3. /\ at'[a] = "returned"
          /\ ret'[a] = IF ret[a] # 0 THEN ret[a] ELSE IF err THEN 2 ELSE 0
      BY <1>1, <3>2 DEF Answer, Return, Goto, SteeringTypeOK, AllMaps, IsMap
    <3>4. ret'[a] = 0 => ~err
      BY <3>3
    <3>5. UNCHANGED <<track, auto>>
      BY <1>6 DEF ImageSpace
    <3> QED
      BY <3>2, <3>3, <3>4, <3>5
  <2>2. "returned" \notin WalkPlaces /\ "returned" \notin LatePlaces
    BY DEF WalkPlaces, LatePlaces
  <2> QED
    BY <1>1, <1>2, <1>4, <2>1, <2>2 DEF SeenRoots
<1> QED
  BY <1>5, <1>6

LEMMA LaterRoots ==
  ASSUME NEW a \in Additions, InStep(a),
         \/ FsSpace(a) \/ NoMoreFs(a) \/ OpenFs(a)
         \/ Block(a) \/ BlocksEnd(a) \/ BlocksStop(a) \/ BlocksFail(a)
         \/ VsSpace(a) \/ NoMoreVolumes(a) \/ VolumeSpace(a) \/ ImageSpace(a)
  PROVE  RootsOf(a)'
<1>1. SteeringTypeOK /\ AllMaps
  BY InStepHas
<1>2. SeenRoots(a)'
  BY OpenFsSeen, FsSpaceSeen, NoMoreFsSeen, BlocksSeen, VolumesSeen
<1>3. /\ at'[a] \in WalkPlaces \union LatePlaces \union {"returned"}
      /\ at'[a] \in WalkPlaces => area'[a] \in Nat
  <2>1. CASE FsSpace(a)
    <3>1. at'[a] = "vs space" \/ at'[a] = "next fs"
      BY <1>1, <2>1 DEF FsSpace, Goto, SteeringTypeOK
    <3> QED
      BY <2>1, <3>1, FsSpaceSeen DEF WalkPlaces, LatePlaces
  <2>2. CASE NoMoreFs(a)
    <3>1. at'[a] = "vs space"
      BY <1>1, <2>2 DEF NoMoreFs, Goto, SteeringTypeOK
    <3> QED
      BY <3>1 DEF WalkPlaces, LatePlaces
  <2>3. CASE OpenFs(a)
    <3>1. at'[a] = "blocks" \/ at'[a] = "next fs"
      BY <1>1, <2>3 DEF OpenFs, Goto, SteeringTypeOK
    <3> QED
      BY <2>3, <3>1, OpenFsSeen DEF WalkPlaces
  <2>4. CASE Block(a) \/ BlocksEnd(a) \/ BlocksStop(a) \/ BlocksFail(a)
    <3>1. at'[a] = "blocks" \/ at'[a] = "next fs"
      BY <1>1, <2>4 DEF Block, BlocksEnd, BlocksStop, BlocksFail, Goto, SteeringTypeOK
    <3> QED
      BY <2>4, <3>1, BlocksSeen DEF WalkPlaces
  <2>5. CASE VsSpace(a) \/ NoMoreVolumes(a) \/ VolumeSpace(a) \/ ImageSpace(a)
    <3>1. at'[a] \in LatePlaces \union {"returned"}
      BY <2>5, VolumesSeen
    <3>2. at'[a] \notin WalkPlaces
      BY <3>1 DEF WalkPlaces, LatePlaces
    <3> QED
      BY <3>1, <3>2
  <2> QED
    BY <2>1, <2>2, <2>3, <2>4, <2>5
<1>4. LocatedAt(at'[a], job[a], area'[a], count'[a])
  <2>1. /\ at'[a] \notin FirstPlaces /\ at'[a] \notin EarlyPlaces /\ at'[a] \notin OnTheWay
        /\ at'[a] \notin FsPlaces /\ at'[a] # "files"
    BY <1>3 DEF FirstPlaces, EarlyPlaces, OnTheWay, FsPlaces, WalkPlaces, LatePlaces
  <2> QED
    BY <1>3, <2>1 DEF LocatedAt
<1> QED
  BY <1>2, <1>4, LaterStays DEF RootsOf, Located

LEMMA StopRoots ==
  ASSUME NEW a \in Additions, SteeringTypeOK, RootsOf(a), StopAddImage(a)
  PROVE  RootsOf(a)'
<1>1. auto'[a].stop # "no" /\ UNCHANGED <<job, at, area, count, written>>
  BY DEF StopAddImage, SteeringTypeOK, Autos
<1> QED
  BY <1>1 DEF RootsOf, Located, FsOf, CleanRoots, SeenRoots, Clean

(* The roots of whom nobody touches, or who only ends *)
LEMMA RootsKept ==
  ASSUME NEW a, RootsOf(a), faults' = 0 => faults = 0,
         at'[a] = at[a], job'[a] = job[a], area'[a] = area[a], count'[a] = count[a],
         track'[a] = track[a], written'[a] = written[a], ret'[a] = ret[a],
         auto'[a].stop = "no" => auto[a].stop = "no"
  PROVE  RootsOf(a)'
<1>1. /\ Located(a)' /\ (Rooted(a) => Rooted(a)')
      /\ \A n : RootedUpTo(a, n) => RootedUpTo(a, n)'
  BY DEF RootsOf, Located, FsOf, Rooted, RootedUpTo, RootIn
<1>2. CleanRoots(a)'
  BY DEF RootsOf, CleanRoots, Clean, FsOf, RootOrNext, RootIn
<1>3. SeenRoots(a)'
  BY <1>1 DEF RootsOf, SeenRoots
<1> QED
  BY <1>1, <1>2, <1>3 DEF RootsOf

(* The roots of one who leaves without an answer of 0 *)
LEMMA RootsOut ==
  ASSUME NEW a, RootsOf(a), at'[a] \in {"returned", "gone"},
         at'[a] = "returned" => at[a] # "files" /\ at[a] # "gone",
         at'[a] = "returned" => ret'[a] # 0,
         faults' = 0 => faults = 0, auto'[a].stop = "no" => auto[a].stop = "no",
         written'[a] = written[a]
  PROVE  RootsOf(a)'
<1>1. FsOf(a)' = FsOf(a) /\ (Clean(a)' => Clean(a))
  BY DEF FsOf, Clean
<1>2. CleanRoots(a)'
  <2>1. CASE at'[a] = "gone"
    BY <2>1 DEF CleanRoots
  <2>2. CASE at'[a] = "returned"
    BY <1>1, <2>2, CleanStays DEF RootsOf
  <2> QED
    BY <2>1, <2>2
<1>3. LocatedAt(at'[a], job'[a], area'[a], count'[a])
  BY DEF LocatedAt, FirstPlaces, EarlyPlaces, OnTheWay, FsPlaces, WalkPlaces
<1>4. SeenRoots(a)'
  BY DEF SeenRoots, WalkPlaces, LatePlaces
<1> QED
  BY <1>1, <1>2, <1>3, <1>4 DEF RootsOf, Located

LEMMA StepKeepsRootInv ==
  ASSUME AllJobsGood, CaseInv, ProgressInv, SpaceInv, RootInv, [Next]_vars
  PROVE  RootInv'
<1>1. /\ SteeringTypeOK /\ AllMaps /\ TracksOK /\ faults \in Nat
      /\ \A b \in Additions : RootsOf(b)
  BY DEF CaseInv, ProgressInv, SpaceInv, RootInv
<1>2. ASSUME NEW a \in Additions, InnerStep(a), NEW b \in Additions PROVE RootsOf(b)'
  <2>1. Onward(a) /\ Apart(a) /\ Inner(a)
    BY <1>1, <1>2, StepOnward, StepApart, InnerSteps DEF TracksOK
  <2>2. faults' = 0 => faults = 0 /\ ~Fault
    BY <1>1, <2>1, FaultsCount DEF Onward
  <2>3. CASE b # a
    <3>1. /\ at'[b] = at[b] /\ job'[b] = job[b] /\ area'[b] = area[b] /\ count'[b] = count[b]
          /\ track'[b] = track[b] /\ written'[b] = written[b] /\ ret'[b] = ret[b]
          /\ auto'[b] = auto[b]
      BY <1>2, <2>1, <2>3 DEF Onward, Apart
    <3> QED
      BY <1>1, <1>2, <2>2, <3>1, RootsKept
  <2>4. CASE b = a /\ StopAddImage(a)
    BY <1>1, <1>2, <2>4, StopRoots
  <2>5. CASE b = a /\ ~StopAddImage(a)
    <3>1. at[a] \in Surveys \union Spaces
      BY <1>2, <2>5
         DEF InnerStep, OpenImage, VolumeSystem, NoMoreAreas, SkipMeta, Volume, NoFileSystem,
             FileSystem, File, FilesEnd, WalkFails, FsDone, Found, FsSpace, NoMoreFs, OpenFs,
             Block, BlocksEnd, BlocksStop, BlocksFail, VsSpace, NoMoreVolumes, VolumeSpace,
             ImageSpace, Surveys, Spaces
    <3>2. GoodJob(job[a]) /\ RowsOf(a, Visible(db)) = written[a]
      BY <1>2, <3>1 DEF SpaceInv, SpaceOf
    <3>3. InStep(a)
      BY <1>1, <1>2, <2>1, <2>2, <3>2 DEF InStep, Onward, Clean
    <3> QED
      BY <1>2, <2>5, <3>3, ImageRoots, AreaRoots, FileSystemRoots, FileRoots, FoundRoots, LaterRoots
         DEF InnerStep
  <2> QED
    BY <2>3, <2>4, <2>5
<1>3. ASSUME NEW a \in Additions, Start(a) \/ StartRefused(a), NEW b \in Additions
      PROVE  RootsOf(b)'
  <2>1. /\ at[a] = "new" /\ UNCHANGED <<area, count, track, written>>
        /\ \A c \in Additions \ {a} :
             at'[c] = at[c] /\ job'[c] = job[c] /\ auto'[c] = auto[c] /\ ret'[c] = ret[c]
        /\ NoFault \/ Fault
        /\ at'[a] = "open" \/ (at'[a] = "returned" /\ ret'[a] = 1 /\ UNCHANGED auto)
    BY <1>1, <1>3 DEF Start, StartRefused, MayStart, SteeringTypeOK, AllMaps, IsMap, Goto, Return
  <2>2. faults' = 0 => faults = 0
    BY <1>1, <2>1, FaultsCount
  <2>3. CASE b # a
    BY <1>1, <1>3, <2>1, <2>2, <2>3, RootsKept
  <2>4. CASE b = a /\ at'[a] = "returned" /\ ret'[a] = 1 /\ UNCHANGED auto
    BY <1>1, <1>3, <2>1, <2>2, <2>4, RootsOut
  <2>5. CASE b = a /\ at'[a] = "open"
    <3>1. written[a] = {} /\ area[a] = 1 /\ count[a] = 0
      BY <2>1, <1>3 DEF CaseInv, NewIsClean, ProgressInv, Progress
    <3>2. FsOf(a)' = {}
      BY <2>1, <3>1 DEF FsOf, AreasOf
    <3>3. LocatedAt("open", job'[a], 1, 0)
      <4>1. 1 \in Nat \ {0}
        OBVIOUS
      <4> QED
        BY <4>1 DEF LocatedAt, FsPlaces, WalkPlaces
    <3>4. SeenRoots(a)'
      BY <2>5, NotSeen DEF OnTheWay
    <3> QED
      BY <2>1, <2>5, <3>1, <3>2, <3>3, <3>4 DEF RootsOf, Located, CleanRoots
  <2> QED
    BY <2>1, <2>3, <2>4, <2>5
<1>4. ASSUME NEW a \in Additions,
             OpenFailed(a) \/ RevertAddImage(a) \/ CommitAddImage(a) \/ NothingToEnd(a),
             NEW b \in Additions
      PROVE  RootsOf(b)'
  <2>1. /\ UNCHANGED <<job, area, count, track, written>>
        /\ UNCHANGED auto \/ Closed(a)
        /\ NoFault \/ Fault
    BY <1>4 DEF OpenFailed, RevertAddImage, CommitAddImage, NothingToEnd, RevertWorks, RevertFails,
                NoFault
  <2>2. (faults' = 0 => faults = 0) /\ auto'[b].stop = auto[b].stop
    BY <1>1, <1>4, <2>1, FaultsCount DEF Closed, SteeringTypeOK, Autos
  <2>3. CASE b = a /\ OpenFailed(a)
    <3>1. at[a] = "not opened" /\ at'[a] = "returned" /\ ret'[a] = 1
      BY <1>1, <2>3 DEF OpenFailed, Return, Goto, SteeringTypeOK, AllMaps, IsMap
    <3>2. 1 # 0
      OBVIOUS
    <3>3. ret'[a] # 0
      BY <3>1, <3>2, Zenon
    <3>4. at[a] # "files" /\ at[a] # "gone" /\ at'[a] \in {"returned", "gone"}
      BY <3>1, Zenon
    <3> QED
      BY <1>1, <2>1, <2>2, <2>3, <3>3, <3>4, RootsOut
  <2>4. CASE ~(b = a /\ OpenFailed(a))
    <3>1. at'[b] = at[b] /\ ret'[b] = ret[b]
      BY <1>1, <1>4, <2>4 DEF OpenFailed, RevertAddImage, CommitAddImage, NothingToEnd, Return, Goto,
                              SteeringTypeOK, AllMaps, IsMap
    <3> QED
      BY <1>1, <1>4, <2>1, <2>2, <3>1, RootsKept
  <2> QED
    BY <2>3, <2>4
<1>5. ASSUME Crash, NEW b \in Additions PROVE RootsOf(b)'
  <2>1. /\ UNCHANGED <<job, auto, area, count, track, ret, written, faults>>
        /\ at'[b] = at[b] \/ at'[b] = "gone"
    BY <1>5 DEF Crash
  <2>2. CASE at'[b] = at[b]
    BY <1>1, <1>5, <2>1, <2>2, RootsKept
  <2>3. CASE at'[b] = "gone"
    BY <1>1, <1>5, <2>1, <2>3, RootsOut
  <2> QED
    BY <2>1, <2>2, <2>3
<1>6. ASSUME UNCHANGED vars, NEW b \in Additions PROVE RootsOf(b)'
  BY <1>1, <1>6, RootsKept DEF vars
<1> QED
  BY <1>2, <1>3, <1>4, <1>5, <1>6 DEF RootInv, Next, Step, InnerStep

-----------------------------------------------------------------------------
(* The invariant says of the rows what is promised. *)
LEMMA SpaceIsExact ==
  ASSUME SpaceInv
  PROVE  UnallocExact
<1> SUFFICES ASSUME NEW a \in Additions, at[a] = "returned", faults = 0, auto[a].stop = "no",
                    job[a] # NoJob
             PROVE  LET areas == job[a].areas
                        has(i) == areas[i].fs # NoFs /\ areas[i].kind # "meta"
                        volumes == {i \in 1 .. Len(areas) : job[a].vs /\ areas[i].kind # "meta"}
                    IN  /\ \A i \in 1 .. Len(areas) :
                             has(i) /\ areas[i].fs.free # {} => FreeAreExact(a, i)
                        /\ {row.area : row \in {r \in written[a] : r.what = "volume space"}}
                             = {i \in volumes : areas[i].kind = "unalloc" \/ ~has(i)}
                        /\ Row(a, "image space", 0, 0) \in written[a]
                             <=> volumes = {} /\ \A i \in 1 .. Len(areas) : ~has(i)
  BY DEF UnallocExact
<1> DEFINE j == job[a]
           w == written[a]
<1>1. SpaceExact(a, j, w)
  BY DEF SpaceInv, SpaceOf, Clean, Stands
<1>2. ASSUME NEW i \in 1 .. Len(j.areas), j.areas[i].fs # NoFs, j.areas[i].kind # "meta",
             j.areas[i].fs.free # {}
      PROVE  FreeAreExact(a, i)
  <2>1. i \in FsAreas(j)
    BY <1>2 DEF FsAreas
  <2>2. i <= Len(j.areas)
    OBVIOUS
  <2>3. FreeExact(j.areas[i].fs.free, j.chunk, FreeRows(w, i))
    BY <1>1, <1>2, <2>1, <2>2 DEF SpaceExact, FreeUpTo
  <2> QED
    BY <2>3 DEF FreeAreExact, FreeRows
<1>3. AreasOf(w, "volume space") = FreeVolumes(j)
  BY <1>1 DEF SpaceExact
<1>4. FreeVolumes(j) = {i \in VolumeAreas(j) : j.areas[i].kind = "unalloc"
                          \/ ~(j.areas[i].fs # NoFs /\ j.areas[i].kind # "meta")}
  BY DEF FreeVolumes, VolumeAreas, FsAreas
<1>5. FsAreas(j) = {} <=> \A i \in 1 .. Len(j.areas) : ~(j.areas[i].fs # NoFs /\ j.areas[i].kind # "meta")
  BY DEF FsAreas
<1>6. Row(a, "image space", 0, 0) \in w <=> VolumeAreas(j) = {} /\ FsAreas(j) = {}
  BY <1>1 DEF SpaceExact
<1> QED
  BY <1>2, <1>3, <1>4, <1>5, <1>6 DEF AreasOf, VolumeAreas

(* At every place, the rows of an addition are what SpaceOf and RootsOf say. *)
THEOREM SpaceInvariance ==
  ASSUME AllJobsGood
  PROVE  Spec => [](SpaceInv /\ RootInv)
<1>1. Init => SpaceInv /\ RootInv
  <2> SUFFICES ASSUME Init PROVE SpaceInv /\ RootInv
    OBVIOUS
  <2>1. TracksOK
    BY DEF Init, TracksOK, IsMap, IsTrack, NoTrack, Members
  <2>2. \A a \in Additions : at[a] = "new" /\ area[a] = 1 /\ job[a] = NoJob /\ written[a] = {}
    BY DEF Init
  <2>3. faults \in Nat
    BY DEF Init
  <2>4. SpaceInv
    BY <2>1, <2>2, <2>3 DEF SpaceInv, SpaceOf, Stands, Surveys, Spaces
  <2>5. ASSUME NEW a \in Additions PROVE RootsOf(a)
    <3>1. FsOf(a) = {}
      BY <2>2 DEF FsOf, AreasOf
    <3>2. LocatedAt(at[a], job[a], area[a], count[a])
      BY <2>2 DEF LocatedAt, FirstPlaces, EarlyPlaces, OnTheWay, FsPlaces, WalkPlaces
    <3>3. SeenRoots(a)
      BY <2>2 DEF SeenRoots, WalkPlaces, LatePlaces
    <3> QED
      BY <3>1, <3>2, <3>3 DEF RootsOf, Located, CleanRoots
  <2> QED
    BY <2>4, <2>5 DEF RootInv
<1>2. CaseInv /\ ProgressInv /\ SpaceInv /\ RootInv /\ [Next]_vars => SpaceInv' /\ RootInv'
  BY StepKeepsSpaceInv, StepKeepsRootInv
<1>3. Spec => []ProgressInv
  BY ProgressInvariance
<1> QED
  BY <1>1, <1>2, <1>3, CaseInvariance, PTL DEF Spec

(* All rows of the areas, and the roots, are the rows that an image has.    *)
LEMMA AllAddedIs ==
  ASSUME NEW a, GoodJob(job[a]), AllAdded(a, job[a], written[a]), Rooted(a)
  PROVE  /\ FoundRows(a) \subseteq written[a]
         /\ \A i \in 1 .. Len(job[a].areas) :
              job[a].areas[i].kind \in {"alloc", "image"} => job[a].areas[i].fs # NoFs
<1>1. /\ Row(a, "image", 0, 0) \in written[a]
      /\ job[a].vs => Row(a, "vs", 0, 0) \in written[a]
      /\ \A i \in 1 .. Len(job[a].areas) : AreaAdded(a, job[a], i, written[a])
  BY DEF AllAdded, AddedUpTo, GoodJob
<1>2. ASSUME NEW i \in 1 .. Len(job[a].areas), job[a].areas[i].fs # NoFs,
             job[a].areas[i].kind # "meta", NEW n \in 0 .. job[a].areas[i].fs.files
      PROVE  Row(a, "file", i, n) \in written[a]
  <2>1. CASE n = 0
    <3>1. Row(a, "fs", i, 0) \in written[a]
      BY <1>1, <1>2 DEF AreaAdded
    <3>2. Row(a, "fs", i, 0).what = "fs" /\ Row(a, "fs", i, 0).area = i
      BY DEF Row
    <3>3. i \in FsOf(a)
      BY <3>1, <3>2 DEF FsOf, AreasOf
    <3> QED
      BY <2>1, <3>3 DEF Rooted, RootIn
  <2>2. CASE n # 0
    <3>1. n \in 1 .. job[a].areas[i].fs.files
      BY <1>2, <2>2
    <3> QED
      BY <1>1, <1>2, <3>1 DEF AreaAdded
  <2> QED
    BY <2>1, <2>2
<1>3. FoundRows(a) \subseteq written[a]
  BY <1>1, <1>2 DEF FoundRows, AreaAdded
<1> QED
  BY <1>1, <1>3 DEF AreaAdded

(* Whatever image is added, and wherever it fails: an addition that answers *)
(* 0 and was not asked to stop has added every volume, file system and file *)
(* (TskAutoDb::addFilesInImgToDb, which the errors of every callback of     *)
(* TskAuto::findFilesInImg reach through registerError, and a root that was *)
(* passed over through addUnallocFsBlockFilesParent).                       *)
THEOREM AdditionsComplete ==
  ASSUME AllJobsGood
  PROVE  Spec => []CompleteIfOk
<1>1. ASSUME ProgressInv, RootInv PROVE CompleteIfOk
  <2>1. "returned" \in FoundAll
    BY DEF FoundAll
  <2>2. ASSUME NEW a \in Additions, at[a] = "returned", ret[a] = 0, auto[a].stop = "no"
        PROVE  GoodJob(job[a]) /\ AllAdded(a, job[a], written[a]) /\ Rooted(a)
    BY <1>1, <2>1, <2>2 DEF ProgressInv, Progress, RootInv, RootsOf, SeenRoots
  <2> QED
    BY <2>2, AllAddedIs DEF CompleteIfOk
<1> QED
  BY <1>1, ProgressInvariance, SpaceInvariance, PTL

(* Whatever images are added to a case, and whatever m_chunkSize is: an     *)
(* addition in which nothing failed and that was not asked to stop shows    *)
(* each free block of each file system in one range of its virtual files,   *)
(* no range next to another free block, in files that end with the range    *)
(* that fills them; the volumes without a file system; and the image itself *)
(* only if nothing was found in it (TskAutoDb::addUnallocSpaceToDb with     *)
(* fsWalkUnallocBlocksCb).                                                  *)
THEOREM FreeSpaceIsExact ==
  ASSUME AllJobsGood
  PROVE  Spec => []UnallocExact
<1>1. SpaceInv => UnallocExact
  BY SpaceIsExact
<1> QED
  BY <1>1, SpaceInvariance, PTL
=============================================================================
