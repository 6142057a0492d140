-------------------------------- MODULE Store -------------------------------
(***************************************************************************)
(* One row of an aggregate's table, as the generic repository reads and    *)
(* writes it (backend/internal/repository/base.go, model/base.go).  A row  *)
(* is "absent" until it is inserted and "deleted" once deleted_at is set:  *)
(* the unique index on code still covers a soft-deleted row, so a code is  *)
(* never used twice and stands for the row's id.                           *)
(***************************************************************************)

RowStates == {"absent", "live", "deleted"}

(* Every query of GORM on a model with DeletedAt adds deleted_at IS NULL. *)
Live(row) == row.state = "live"

(* Mutation: the conditional update forgets the version column. *)
MatchesAnyVersion(row, expected) == Live(row)

(* Mutation: the conditional update is Unscoped and sees deleted rows. *)
MatchesDeletedToo(row, expected) == row.state # "absent" /\ row.version = expected

(* WHERE id = ? AND version = ?, the condition of the optimistic update.   *)
(* The version is the one the client sent, not the one the service read.   *)
Matches(row, expected) == Live(row) /\ row.version = expected

(* Mutation: the delete removes the row instead of marking it. *)
HardDeleted(row) == [row EXCEPT !.state = "absent"]

(* DELETE on such a model is UPDATE ... SET deleted_at: nothing else moves. *)
SoftDeleted(row) == [row EXCEPT !.state = "deleted"]
=============================================================================
