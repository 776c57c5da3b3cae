-------------------------- MODULE MCWorkspaceQueue --------------------------
(* A small instance of WorkspaceQueue for TLC. *)
EXTENDS WorkspaceQueue, TLC

CONSTANTS edit1, edit2, shell

(* Edits are allowed in one mode, asked for in the other; the shell command *)
(* is denied in plan mode.                                                  *)
MCModes == {"acceptEdits", "default", "plan"}
MCEffect ==
  [c \in Calls |->
     CASE c = shell -> [acceptEdits |-> "ask", default |-> "ask", plan |-> "deny"]
       [] OTHER -> [acceptEdits |-> "allow", default |-> "ask", plan |-> "deny"]]
MCSignalOf == [c \in Calls |-> IF c \in {edit1} THEN 1 ELSE 2]
=============================================================================
