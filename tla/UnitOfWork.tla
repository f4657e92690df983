------------------------------ MODULE UnitOfWork ------------------------------
(***************************************************************************)
(* What a handler's SQLAlchemy session does to a row it loaded and edited. *)
(*                                                                         *)
(* Every HTTP request owns one AsyncSession (dependencies.get_db), hence   *)
(* one PostgreSQL transaction at READ COMMITTED.  A handler loads a row in *)
(* one await and commits in a later one; other requests run in between.    *)
(* The commit flushes an UPDATE whose SET clause names only the columns    *)
(* whose value differs from the loaded one, and no mapped class declares a *)
(* version_id_col, so nothing detects that the row changed meanwhile.      *)
(***************************************************************************)

\* What an UPDATE leaves in one column of the stored row.
Written(stored, loaded, edited) == IF edited = loaded THEN stored ELSE edited
=============================================================================
