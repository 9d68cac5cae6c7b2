----------------------------- MODULE Savepoint -----------------------------
(***************************************************************************)
(* The case database as TskAutoDb uses it (createSavepoint, revertSavepoint *)
(* and releaseSavepoint of tsk/auto/db_sqlite.cpp): rows, and at most one  *)
(* savepoint, which is set outside of a transaction and begins one.        *)
(***************************************************************************)

NoRows == {}

Case(committed, open, tx) == [committed |-> committed, open |-> open, tx |-> tx]

Empty == Case(NoRows, FALSE, NoRows)

Visible(d) == IF d.open THEN d.tx ELSE d.committed

(* A row that is inserted outside of a transaction is committed at once. *)
Inserted(d, row) ==
  IF d.open THEN Case(d.committed, TRUE, d.tx \union {row})
  ELSE Case(d.committed \union {row}, FALSE, d.tx)

(* SAVEPOINT *)
Created(d) == Case(d.committed, TRUE, d.committed)

(* ROLLBACK TO SAVEPOINT: the savepoint stays. *)
RolledBack(d) == Case(d.committed, d.open, d.committed)

(* RELEASE SAVEPOINT: of the outermost savepoint it is a commit. *)
Released(d) == Case(d.tx, FALSE, NoRows)

(* The process ends: SQLite rolls the journal back. *)
Recovered(d) == Case(d.committed, FALSE, NoRows)
=============================================================================
