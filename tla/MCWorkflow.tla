----------------------------- MODULE MCWorkflow -----------------------------
(* Small scripts for TLC. *)
EXTENDS Workflow

(* Two calls in a row beside two others. *)
Script == <<2, 2>>
(* The second call may be edited. *)
Edits == {{}, {<<1, 2>>}}
=============================================================================
