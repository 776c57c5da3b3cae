------------------------------- MODULE MCRewind -----------------------------
(* An instance of Rewind for TLC: one terminal and one file. *)
EXTENDS Rewind, TLC

CONSTANTS terminal, source
=============================================================================
