---------------------------- MODULE MCJobTable ----------------------------
(* Small instances of JobTable: constants are numbers, given in the .cfg. *)
EXTENDS JobTable
=============================================================================
