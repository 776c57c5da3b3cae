--------------------------- MODULE MCShellCommand ---------------------------
(* Every kind of command. *)
EXTENDS ShellCommand

MCAll ==
  [manager : BOOLEAN, explicit : BOOLEAN, timeouts : BOOLEAN,
   spawn : {"ok", "error", "throws"}, group : {{"shell"}, {"shell", "child"}},
   ignores : SUBSET {"shell", "child"}, records : BOOLEAN]
=============================================================================
