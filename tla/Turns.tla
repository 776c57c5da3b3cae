-------------------------------- MODULE Turns -------------------------------
(***************************************************************************)
(* What tools/execution-coordinator.ts promises of one workspace: callers  *)
(* take turns in the order they asked, one at a time, and may leave the    *)
(* line while they wait.                                                   *)
(***************************************************************************)
EXTENDS Sequences, SequencesExt, Subsequences

CONSTANT Calls

VARIABLE line  \* the calls that have asked, the first one at its turn

Init == line = <<>>

Join(c) == ~Contains(line, c) /\ line' = Append(line, c)

(* Who waits may leave: the others keep their places, the first its turn.  *)
Leave(gone) ==
  /\ line # <<>>
  /\ LET waiting == Tail(line)
     IN  line' = <<Head(line)>>
                   \o Selected(waiting, {i \in DOMAIN waiting : waiting[i] \notin gone})

Finish == line # <<>> /\ line' = Tail(line)

Next ==
  \/ Finish
  \/ \E c \in Calls : Join(c)
  \/ \E gone \in SUBSET Calls : Leave(gone)

Spec == Init /\ [][Next]_line
=============================================================================
