----------------------------- MODULE MCFileLock -----------------------------
(* Two processes, one with two calls. *)
EXTENDS FileLock

TwoCallsInP == <<"p", "p", "q">>
=============================================================================
