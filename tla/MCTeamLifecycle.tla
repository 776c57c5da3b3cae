--------------------------- MODULE MCTeamLifecycle ---------------------------
(* Two names of teammates, one task of the board. *)
EXTENDS TeamLifecycle

CONSTANTS a, b, t

MCNames == {a, b}
MCTasks == {t}
=============================================================================
