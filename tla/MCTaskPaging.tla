---------------------------- MODULE MCTaskPaging ----------------------------
(***************************************************************************)
(* A small instance of TaskPaging for TLC.                                 *)
(***************************************************************************)
EXTENDS TaskPaging
=============================================================================
