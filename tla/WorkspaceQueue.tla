--------------------------- MODULE WorkspaceQueue ---------------------------
(***************************************************************************)
(* Tool calls that mutate one workspace (tools/execution-coordinator.ts):  *)
(* each waits for its turn in the workspace's queue, has its permission    *)
(* checked again, and keeps the turn until its work is over or has moved   *)
(* to the background.  Calls of several agents of the process share the    *)
(* queue; the permission mode may change and a turn may be aborted at any  *)
(* moment.  A queue is an object that a map forgets when nobody needs it,  *)
(* so one workspace has many queues over time.                             *)
(***************************************************************************)
EXTENDS Naturals, FiniteSets, Sequences, SequencesExt, Subsequences

CONSTANTS
  Calls,
  Commands,    \* calls that may leave work behind when they return
  Modes,       \* permission modes
  Effect,      \* Effect[call][mode], the decision of the permission checker
  Signals,     \* abort signals, one per agent turn
  SignalOf

ASSUME CallsAssumption ==
  /\ Commands \subseteq Calls
  /\ SignalOf \in [Calls -> Signals]
  /\ Effect \in [Calls -> [Modes -> {"allow", "ask", "deny"}]]

VARIABLES
  safe,      \* the read-only commands, which take no turn: fixed with the calls
  queues,    \* every queue made so far: running, pending
  current,   \* the queue in the map, 0 when there is none
  pc,        \* where each call is
  queueOf,   \* the queue a call's closures refer to
  mode,      \* the permission mode
  approved,  \* the mode each call was submitted under
  answered,  \* calls the user has allowed
  aborted,   \* signals that were aborted
  work       \* calls whose work has begun and is not over

vars == <<safe, queues, current, pc, queueOf, mode, approved, answered, aborted, work>>

Steps == {"idle", "asked", "submitted", "waiting", "granted", "running", "returned",
          "done"}
Turnless(c) == c \in safe

(* The calls at their turn: their release has not been called. *)
Holders == {c \in Calls : ~Turnless(c) /\ pc[c] \in {"granted", "running", "returned"}}

TypeOK ==
  /\ safe \subseteq Commands
  /\ queues \in Seq([running : BOOLEAN, pending : Seq(Calls)])
  /\ current \in {0} \cup {q \in DOMAIN queues : queues[q].running}
  /\ pc \in [Calls -> Steps]
  /\ queueOf \in [Calls -> 0..Len(queues)]
  /\ mode \in Modes
  /\ approved \in [Calls -> Modes]
  /\ answered \subseteq Calls /\ aborted \subseteq Signals
  /\ work \subseteq Calls

Init ==
  /\ safe \in SUBSET Commands
  /\ queues = <<>> /\ current = 0
  /\ pc = [c \in Calls |-> "idle"]
  /\ queueOf = [c \in Calls |-> 0]
  /\ mode \in Modes
  /\ approved = [c \in Calls |-> mode]
  /\ answered = {} /\ aborted = {} /\ work = {}
-----------------------------------------------------------------------------
Aborted(c) == SignalOf[c] \in aborted
Goto(c, step) == pc' = [pc EXCEPT ![c] = step]

(* The agent lets a call through, or asks the user first. *)
Ask(c) ==
  /\ pc[c] = "idle" /\ ~Aborted(c) /\ Effect[c][mode] = "ask"
  /\ Goto(c, "asked")
  /\ UNCHANGED <<queues, current, queueOf, mode, approved, answered, aborted, work>>

Submit(c) ==
  /\ \/ pc[c] = "idle" /\ ~Aborted(c) /\ Effect[c][mode] = "allow" /\ UNCHANGED answered
     \/ pc[c] = "asked" /\ answered' = answered \cup {c}
  /\ approved' = [approved EXCEPT ![c] = mode]
  /\ Goto(c, "submitted")
  /\ UNCHANGED <<queues, current, queueOf, mode, aborted, work>>

(* signal.throwIfAborted before the call asks for its turn. *)
Interrupted(c) ==
  /\ pc[c] = "submitted" /\ Aborted(c)
  /\ Goto(c, "done")
  /\ UNCHANGED <<queues, current, queueOf, mode, approved, answered, aborted, work>>

Skip(c) ==
  /\ pc[c] = "submitted" /\ ~Aborted(c) /\ Turnless(c)
  /\ Goto(c, "granted")
  /\ UNCHANGED <<queues, current, queueOf, mode, approved, answered, aborted, work>>

(* acquireWorkspaceMutation on a workspace without a queue. *)
Open(c) ==
  /\ pc[c] = "submitted" /\ ~Aborted(c) /\ ~Turnless(c) /\ current = 0
  /\ queues' = Append(queues, [running |-> TRUE, pending |-> <<>>])
  /\ current' = Len(queues) + 1
  /\ queueOf' = [queueOf EXCEPT ![c] = Len(queues) + 1]
  /\ Goto(c, "granted")
  /\ UNCHANGED <<mode, approved, answered, aborted, work>>

(* acquireWorkspaceMutation behind a running call. *)
Wait(c) ==
  /\ pc[c] = "submitted" /\ ~Aborted(c) /\ ~Turnless(c) /\ current # 0
  /\ queues[current].running
  /\ queues' = [queues EXCEPT ![current].pending = Append(@, c)]
  /\ queueOf' = [queueOf EXCEPT ![c] = current]
  /\ Goto(c, "waiting")
  /\ UNCHANGED <<current, mode, approved, answered, aborted, work>>

(* An abort takes the waiting calls of its turn out of their queue. *)
Abort(sig) ==
  /\ sig \notin aborted
  /\ aborted' = aborted \cup {sig}
  /\ LET gone == {c \in Calls : pc[c] = "waiting" /\ SignalOf[c] = sig}
     IN  /\ pc' = [c \in Calls |-> IF c \in gone THEN "done" ELSE pc[c]]
         /\ queues' = [q \in DOMAIN queues |->
              [queues[q] EXCEPT !.pending =
                 Selected(@, {i \in DOMAIN @ : @[i] \notin gone})]]
  /\ UNCHANGED <<current, queueOf, mode, approved, answered, work>>

(* checkExecutionPermission, with the mode of now. *)
Blocked(c) ==
  \/ Effect[c][mode] = "deny"
  \/ Effect[c][mode] = "ask" /\ approved[c] # mode

(* A waiter's promise is resolved; one that was rejected stays so. *)
Granted(next, step) == [step EXCEPT ![next] = IF @ = "waiting" THEN "granted" ELSE @]

(* Mutant: the last waiter is served first. *)
HandOver_Last(q, step) ==
  IF queues[q].pending # <<>>
    THEN /\ pc' = Granted(Last(queues[q].pending), step)
         /\ queues' = [queues EXCEPT ![q].pending = Front(@)]
         /\ UNCHANGED current
    ELSE /\ pc' = step
         /\ queues' = [queues EXCEPT ![q].running = FALSE]
         /\ current' = 0

(* What release does to its queue: the next waiter starts, or the queue is *)
(* forgotten; step is where the releasing call goes.                       *)
HandOver(q, step) ==
  IF queues[q].pending # <<>>
    THEN /\ pc' = Granted(Head(queues[q].pending), step)
         /\ queues' = [queues EXCEPT ![q].pending = Tail(@)]
         /\ UNCHANGED current
    ELSE /\ pc' = step
         /\ queues' = [queues EXCEPT ![q].running = FALSE]
         /\ current' = 0

(* The release of a turn; a second call of it returns at once. *)
Release(c) ==
  LET step == [pc EXCEPT ![c] = "done"] IN
  IF Turnless(c) THEN pc' = step /\ UNCHANGED <<queues, current>>
                 ELSE HandOver(queueOf[c], step)

(* Mutant: the mode of the approval does not matter. *)
Start_AnyMode(c) ==
  /\ pc[c] = "granted" /\ Effect[c][mode] # "deny"
  /\ Goto(c, "running")
  /\ work' = work \cup {c}
  /\ UNCHANGED <<queues, current, queueOf, mode, approved, answered, aborted>>

Start(c) ==
  /\ pc[c] = "granted" /\ ~Blocked(c)
  /\ Goto(c, "running")
  /\ work' = work \cup {c}
  /\ UNCHANGED <<queues, current, queueOf, mode, approved, answered, aborted>>

Refuse(c) ==
  /\ pc[c] = "granted" /\ Blocked(c)
  /\ Release(c)
  /\ UNCHANGED <<queueOf, mode, approved, answered, aborted, work>>

(* The completion a command announced, or the end of a file tool's work. *)
WorkOver(c) ==
  /\ c \in work
  /\ work' = work \ {c}
  /\ UNCHANGED <<queues, current, pc, queueOf, mode, approved, answered, aborted>>

(* run returns; only a command may return before its work is over. *)
Return(c) ==
  /\ pc[c] = "running" /\ (c \in work => c \in Commands)
  /\ Goto(c, "returned")
  /\ UNCHANGED <<queues, current, queueOf, mode, approved, answered, aborted, work>>

(* Mutant: the turn is given up when the call returns. *)
Finish_OnReturn(c) ==
  /\ pc[c] = "returned"
  /\ Release(c)
  /\ UNCHANGED <<queueOf, mode, approved, answered, aborted, work>>

(* Mutant: nobody waits for the work a command has left behind. *)
Finish_NoBackground(c) ==
  /\ pc[c] = "returned" /\ c \notin Commands
  /\ Release(c)
  /\ UNCHANGED <<queueOf, mode, approved, answered, aborted, work>>

(* The finally of the call, once the work is over. *)
Finish(c) ==
  /\ pc[c] = "returned" /\ c \notin work
  /\ Release(c)
  /\ UNCHANGED <<queueOf, mode, approved, answered, aborted, work>>

SetMode(m) ==
  /\ m # mode /\ mode' = m
  /\ UNCHANGED <<queues, current, pc, queueOf, approved, answered, aborted, work>>

Step(c) ==
  /\ \/ Skip(c) \/ Open(c) \/ Wait(c) \/ Interrupted(c) \/ Start(c) \/ Refuse(c)
     \/ WorkOver(c) \/ Return(c) \/ Finish(c)
  /\ UNCHANGED safe

Next ==
  /\ \/ \E c \in Calls : Ask(c) \/ Submit(c) \/ Step(c)
     \/ \E sig \in Signals : Abort(sig)
     \/ \E m \in Modes : SetMode(m)
  /\ UNCHANGED safe

Spec == Init /\ [][Next]_vars

(* An agent goes on with its calls, and every command ends or moves to the *)
(* background: its timeout sees to that.  Nobody has to ask, abort or      *)
(* change the mode.                                                        *)
Fairness == \A c \in Calls : WF_vars(Step(c))
FairSpec == Spec /\ Fairness
-----------------------------------------------------------------------------
(* Two mutating calls are never at work in the workspace together, though  *)
(* calls return while their command still runs.                            *)
WorkExclusive == Cardinality(work \ safe) <= 1

(* A call starts in a mode that asks for permission only if the user gave  *)
(* it, and never in a mode that denies it, however often the mode changed  *)
(* while the call waited.                                                  *)
StartsWithConsent(c) ==
  pc[c] = "granted" /\ pc'[c] = "running" =>
    \/ Effect[c][mode] = "allow"
    \/ Effect[c][mode] = "ask" /\ c \in answered
Consent == [][\A c \in Calls : StartsWithConsent(c)]_vars

(* The line of the workspace: the call at its turn, then the waiting ones. *)
Pending == IF current = 0 THEN <<>> ELSE queues[current].pending
Line == SetToSeq(Holders) \o Pending
TurnsOfCalls == INSTANCE Turns WITH line <- Line

(* The queue objects are well formed and implement first-come-first-served  *)
(* turns (execution-coordinator.ts).                                        *)
TakesTurns == []TypeOK /\ TurnsOfCalls!Spec

(* Every call that has been let through ends. *)
CallsEnd == \A c \in Calls : pc[c] = "submitted" ~> pc[c] = "done"
=============================================================================
