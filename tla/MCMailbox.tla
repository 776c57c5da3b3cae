------------------------------ MODULE MCMailbox -----------------------------
(* A small instance of Mailbox for TLC. *)
EXTENDS Mailbox, TLC

CONSTANTS a, b, c, m1, m2

AllOrOne == {{m1, m2}, {m2}}
Symmetry == Permutations({b, c})
=============================================================================
