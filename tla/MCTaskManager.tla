--------------------------- MODULE MCTaskManager ---------------------------
(* A small instance of TaskManager for TLC: one session and its restarts. *)
EXTENDS TaskManager

CONSTANT a
=============================================================================
