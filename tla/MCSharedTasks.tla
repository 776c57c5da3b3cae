---------------------------- MODULE MCSharedTasks ---------------------------
(* A small instance of SharedTasks for TLC. *)
EXTENDS SharedTasks, TLC

CONSTANTS s1, s2, alice, bob

Edit(todo) == [deletes |-> {}, edits |-> <<todo>>]
Pair(todo1, todo2) == [deletes |-> {}, edits |-> <<todo1, todo2>>]

Creations == {Edit(<<>>), Pair([blockedBy |-> {1}], [status |-> "pending"])}
StatusEdits ==
  {Edit([id |-> id, status |-> status]) :
     id \in 1..3, status \in {"pending", "in_progress", "completed"}}
Assignments ==
  {Edit([id |-> 1, owner |-> owner]) : owner \in {alice, bob}}
Dependencies ==
  {Edit([id |-> id, blocks |-> deps]) : id \in 1..2, deps \in {{}, {1}, {2}}}
  \cup {Edit([id |-> 3, blockedBy |-> deps]) : deps \in {{}, {2}}}
Deletions == {[deletes |-> {id}, edits |-> <<>>] : id \in 1..2}
Swaps ==
  {Pair([id |-> 1, blocks |-> {2}], [id |-> 2, blocks |-> {}, blockedBy |-> deps]) :
     deps \in {{}, {1}}}
Symmetry == Permutations({alice, bob}) \cup Permutations({s1, s2})
MCInputs == Creations \cup StatusEdits \cup Assignments \cup Dependencies
              \cup Deletions \cup Swaps
=============================================================================
