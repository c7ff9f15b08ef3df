---------------------------- MODULE MCTaskQueue ----------------------------
(***************************************************************************)
(* Small instances of TaskQueue.                                           *)
(***************************************************************************)
EXTENDS TaskQueue

CONSTANTS r1, r2, r3
=============================================================================
