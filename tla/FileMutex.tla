------------------------------ MODULE FileMutex -----------------------------
(***************************************************************************)
(* What teams/file-lock.ts promises its callers: a lock with at most one   *)
(* owner, given up by the owner or taken back once its process has died.   *)
(***************************************************************************)
CONSTANTS Contenders, Procs, ProcOf

VARIABLES
  owners,  \* the contender that owns the lock, if any
  dead     \* processes that were killed

Init == owners = {} /\ dead = {}

Acquire(c) ==
  /\ owners = {} /\ ProcOf[c] \notin dead
  /\ owners' = {c}
  /\ UNCHANGED dead

Release(c) ==
  /\ owners = {c} /\ ProcOf[c] \notin dead
  /\ owners' = {}
  /\ UNCHANGED dead

Die(p) ==
  /\ p \notin dead
  /\ dead' = dead \cup {p}
  /\ UNCHANGED owners

Reclaim(c) ==
  /\ owners = {c} /\ ProcOf[c] \in dead
  /\ owners' = {}
  /\ UNCHANGED dead

Next ==
  \/ \E c \in Contenders : Acquire(c) \/ Release(c) \/ Reclaim(c)
  \/ \E p \in Procs : Die(p)

Spec == Init /\ [][Next]_<<owners, dead>>
=============================================================================
