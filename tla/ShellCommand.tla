---------------------------- MODULE ShellCommand ----------------------------
(***************************************************************************)
(* One shell command of the Bash tool (tools/bash.ts, startCommand): a     *)
(* process group of its own, a tool call that waits for it, and a race of  *)
(* its end with the user's abort, the timeout, the output cap, Ctrl+B, the *)
(* stop of its background task and the end of the program.                 *)
(***************************************************************************)
EXTENDS Naturals, FiniteSets

CONSTANTS
  Configs  \* what a command may be like, see CommandAssumption

ASSUME CommandAssumption ==
  Configs \subseteq
    [manager  : BOOLEAN,  \* background tasks are available
     explicit : BOOLEAN,  \* run_in_background
     timeouts : BOOLEAN,  \* not ctx.shellTimeoutDisabled
     spawn    : {"ok", "error", "throws"},
     group    : SUBSET {"shell", "child"},  \* the processes it is made of
     ignores  : SUBSET {"shell", "child"},  \* those that ignore SIGTERM
     records  : BOOLEAN]  \* the record of a background task can be written

VARIABLES
  config,
  call,      \* the tool call
  outcome,   \* its result promise
  result,    \* what the call reports
  flags,     \* the closure's flags that are TRUE
  armed,     \* timers, the abort listener, the Ctrl+B entry, the exit cleanup
  processDone, \* the promise that lets the workspace turn go
  alive,     \* processes of the group
  task,      \* the background task
  signalled, \* the call's abort signal
  host,      \* the program itself
  cleanups   \* history: how often the sandbox of the command was taken down

shellVars == <<config, call, outcome, result, flags, armed, processDone, alive, task, signalled,
          host, cleanups>>

Flags == {"spawned", "aborted", "timedOut", "sizeKilled", "terminating", "settled",
          "backgrounded", "exited"}
Timers == {"timeout", "watchdog", "escalate", "abort", "key", "sweep"}

ShellTypeOK ==
  /\ config \in Configs
  /\ call \in {"preparing", "running", "returned"}
  /\ outcome \in {"open", "finalizing", "resolved"}
  /\ result \in {"none", "error", "interrupted", "timedOut", "exit", "background"}
  /\ flags \subseteq Flags /\ armed \subseteq Timers
  /\ processDone \in BOOLEAN
  /\ alive \subseteq config.group
  /\ task \in {"none", "running", "stopped", "completed", "failed", "cancelled"}
  /\ signalled \in BOOLEAN /\ cleanups \in Nat
  /\ host \in {"up", "gone"}
  /\ outcome = "resolved" <=> result # "none" /\ outcome # "finalizing"
  /\ call = "returned" => outcome = "resolved" /\ armed \subseteq {"watchdog", "escalate", "sweep"}

ShellInit ==
  /\ config \in Configs
  /\ call = "preparing" /\ outcome = "open" /\ result = "none"
  /\ flags = {} /\ armed = {} /\ processDone = FALSE
  /\ alive = {} /\ task = "none" /\ signalled = FALSE
  /\ host = "up" /\ cleanups = 0
-----------------------------------------------------------------------------
Set(flag) == flag \in flags

(* killTree: no signal once the shell has been reaped, whose process id    *)
(* may be somebody else's by then.                                         *)
KillTree(signal) ==
  alive' = IF Set("exited") THEN alive
           ELSE IF signal = "SIGKILL" THEN {} ELSE alive \cap config.ignores

(* terminate, for one more reason; timers are those left armed.            *)
Terminate(reason, timers) ==
  /\ flags' = flags \cup {reason, "terminating"}
  /\ IF Set("terminating")
       THEN armed' = timers /\ UNCHANGED alive
       ELSE armed' = timers \cup {"escalate"} /\ KillTree("SIGTERM")

MayBackground ==
  config.manager /\ ~Set("backgrounded") /\ ~Set("settled") /\ ~Set("terminating")

(* backgroundExecution moves the command to a task of the manager.         *)
Background(timers) ==
  /\ flags' = flags \cup {"spawned", "backgrounded", "settled"}
  /\ armed' = (timers \ {"timeout", "abort", "key"}) \cup {"sweep"}
  /\ processDone' = TRUE
  /\ task' = "running" /\ outcome' = "resolved" /\ result' = "background"

(* The same when the task's record cannot be written and create throws:    *)
(* the task is there, but the call is not resolved.                        *)
BackgroundThrows(timers) ==
  /\ flags' = flags \cup {"spawned", "backgrounded", "settled"}
  /\ armed' = timers \ {"timeout", "abort", "key"}
  /\ processDone' = TRUE
  /\ task' = "running"
-----------------------------------------------------------------------------
(* executeCommand ends before there is a process: a bad argument, no       *)
(* output file, no sandbox, or an abort while the sandbox was prepared.    *)
NotStarted ==
  /\ host = "up" /\ call = "preparing"
  /\ \/ result' = "error" /\ UNCHANGED cleanups
     \/ signalled /\ result' = "interrupted" /\ cleanups' = cleanups + 1
  /\ outcome' = "resolved" /\ call' = "returned" /\ processDone' = TRUE
  /\ UNCHANGED <<config, flags, armed, alive, task, signalled, host>>

SpawnThrows ==
  /\ host = "up" /\ call = "preparing" /\ ~signalled /\ config.spawn = "throws"
  /\ call' = "running"
  /\ outcome' = "resolved" /\ result' = "error" /\ processDone' = TRUE
  /\ UNCHANGED <<config, flags, armed, alive, task, signalled, host, cleanups>>

(* startCommand, and backgrounding at once where the call asks for it.     *)
Spawn ==
  /\ host = "up" /\ call = "preparing" /\ ~signalled /\ config.spawn # "throws"
  /\ call' = "running"
  /\ alive' = IF config.spawn = "ok" THEN config.group ELSE {}
  /\ LET timers == {"watchdog", "abort"} \cup (IF config.timeouts THEN {"timeout"} ELSE {})
                   \cup (IF config.manager THEN {"key"} ELSE {})
     IN  IF config.explicit /\ config.manager
           THEN \/ config.records /\ Background(timers)
                \/ /\ ~config.records
                   /\ BackgroundThrows(timers)
                   /\ outcome' = "resolved" /\ result' = "error"
           ELSE /\ flags' = {"spawned"} /\ armed' = timers
                /\ UNCHANGED <<processDone, task, outcome, result>>
  /\ UNCHANGED <<config, signalled, host, cleanups>>

(* Mutant: an aborted call returns at once.                                *)
OnAbort_Returns ==
  /\ host = "up" /\ ~signalled
  /\ signalled' = TRUE
  /\ IF "abort" \in armed
       THEN /\ Terminate("aborted", armed \ {"abort", "timeout", "key"})
            /\ outcome' = "resolved" /\ result' = "interrupted" /\ processDone' = TRUE
       ELSE UNCHANGED <<flags, armed, alive, outcome, result, processDone>>
  /\ UNCHANGED <<config, call, task, host, cleanups>>

OnAbort ==
  /\ host = "up" /\ ~signalled
  /\ signalled' = TRUE
  /\ IF "abort" \in armed
       THEN Terminate("aborted", armed \ {"abort"})
       ELSE UNCHANGED <<flags, armed, alive>>
  /\ UNCHANGED <<config, call, outcome, result, processDone, task, host, cleanups>>

(* Mutant: a timeout that cannot move the command is forgotten.            *)
Timeout_Forgotten ==
  /\ host = "up" /\ "timeout" \in armed
  /\ \/ MayBackground /\ config.records /\ Background(armed)
     \/ /\ ~MayBackground
        /\ armed' = armed \ {"timeout"}
        /\ UNCHANGED <<flags, outcome, result, processDone, task>>
  /\ UNCHANGED <<config, call, signalled, alive, host, cleanups>>

(* The timeout moves the command to the background, or ends it.            *)
Timeout ==
  /\ host = "up" /\ "timeout" \in armed
  /\ \/ /\ MayBackground /\ config.records
        /\ Background(armed)
        /\ UNCHANGED <<alive, host>>
     \/ /\ MayBackground /\ ~config.records  \* nobody catches what a timer throws
        /\ BackgroundThrows(armed)
        /\ host' = "gone"
        /\ UNCHANGED <<outcome, result, alive>>
     \/ /\ ~MayBackground
        /\ Terminate("timedOut", armed \ {"timeout"})
        /\ UNCHANGED <<outcome, result, processDone, task, host>>
  /\ UNCHANGED <<config, call, signalled, cleanups>>

(* Ctrl+B.                                                                 *)
UserBackground ==
  /\ host = "up" /\ "key" \in armed /\ MayBackground
  /\ \/ config.records /\ Background(armed)
     \/ ~config.records /\ BackgroundThrows(armed) /\ UNCHANGED <<outcome, result>>
  /\ UNCHANGED <<config, call, alive, signalled, host, cleanups>>

(* The watchdog finds the output file beyond its cap.                      *)
SizeExceeded ==
  /\ host = "up" /\ "watchdog" \in armed /\ alive # {}
  /\ Terminate("sizeKilled", armed \ {"watchdog"})
  /\ UNCHANGED <<config, call, outcome, result, processDone, task, signalled, host,
                 cleanups>>

(* Mutant: the escalation repeats SIGTERM.                                 *)
Escalate_Term ==
  /\ host = "up" /\ "escalate" \in armed
  /\ armed' = armed \ {"escalate"}
  /\ KillTree("SIGTERM")
  /\ UNCHANGED <<config, call, outcome, result, flags, processDone, task, signalled, host,
                 cleanups>>

Escalate ==
  /\ host = "up" /\ "escalate" \in armed
  /\ armed' = armed \ {"escalate"}
  /\ KillTree("SIGKILL")
  /\ UNCHANGED <<config, call, outcome, result, flags, processDone, task, signalled, host,
                 cleanups>>

(* A process of the group ends by itself.                                  *)
ProcessEnds(process) ==
  /\ process \in alive
  /\ alive' = alive \ {process}
  /\ UNCHANGED <<config, call, outcome, result, flags, armed, processDone, task, signalled,
                 host, cleanups>>

(* The close event, or the error event of a command that did not start:    *)
(* both come to the call unless it was moved to the background.            *)
Close ==
  /\ host = "up" /\ Set("spawned") /\ "shell" \notin alive /\ ~Set("exited")
  /\ processDone' = TRUE
  /\ IF Set("backgrounded")
       THEN /\ flags' = flags \cup {"exited"}
            /\ armed' = armed \ {"watchdog", "escalate"}
            /\ UNCHANGED <<outcome, result>>
       ELSE /\ flags' = flags \cup {"exited", "settled"}
            /\ armed' = {}
            /\ outcome' = "finalizing"
            /\ result' = IF config.spawn = "error" THEN "error"
                         ELSE IF Set("aborted") THEN "interrupted"
                         ELSE IF Set("timedOut") THEN "timedOut" ELSE "exit"
  /\ UNCHANGED <<config, call, alive, task, signalled, host, cleanups>>

(* settle: the call is resolved when the sandbox has been taken down.      *)
Finalize ==
  /\ host = "up" /\ outcome = "finalizing"
  /\ outcome' = "resolved" /\ cleanups' = cleanups + 1
  /\ UNCHANGED <<config, call, result, flags, armed, processDone, alive, task, signalled,
                 host>>

CommandReturns ==
  /\ host = "up" /\ call = "running" /\ outcome = "resolved"
  /\ call' = "returned"
  /\ UNCHANGED <<config, outcome, result, flags, armed, processDone, alive, task, signalled,
                 host, cleanups>>

(* The stop of the background task kills at once.                          *)
TaskStop ==
  /\ host = "up" /\ task = "running"
  /\ task' = "stopped"
  /\ KillTree("SIGKILL")
  /\ UNCHANGED <<config, call, outcome, result, flags, armed, processDone, signalled, host,
                 cleanups>>

(* Mutant: the runner does not wait for the exit facts.                    *)
TaskEnds_Early ==
  /\ host = "up" /\ task \in {"running", "stopped"}
  /\ IF task = "stopped" THEN task' = "cancelled" ELSE task' \in {"completed", "failed"}
  /\ armed' = armed \ {"sweep"} /\ cleanups' = cleanups + 1
  /\ UNCHANGED <<config, call, outcome, result, flags, processDone, alive, signalled, host>>

(* The runner of the task has the exit facts, takes the sandbox down and   *)
(* formats the result.                                                     *)
TaskEnds ==
  /\ host = "up" /\ task \in {"running", "stopped"} /\ Set("exited")
  /\ IF task = "stopped" THEN task' = "cancelled" ELSE task' \in {"completed", "failed"}
  /\ armed' = armed \ {"sweep"} /\ cleanups' = cleanups + 1
  /\ UNCHANGED <<config, call, outcome, result, flags, processDone, alive, signalled, host>>

(* The program ends without unwinding: only the exit cleanups are run.     *)
ProgramDies ==
  /\ host = "up"
  /\ host' = "gone"
  /\ IF "sweep" \in armed THEN KillTree("SIGKILL") ELSE UNCHANGED alive
  /\ UNCHANGED <<config, call, outcome, result, flags, armed, processDone, task, signalled,
                 cleanups>>

ShellNext ==
  \/ NotStarted \/ SpawnThrows \/ Spawn
  \/ OnAbort \/ Timeout \/ UserBackground \/ SizeExceeded \/ Escalate
  \/ (\E process \in {"shell", "child"} : ProcessEnds(process))
  \/ Close \/ Finalize \/ CommandReturns
  \/ TaskStop \/ TaskEnds \/ ProgramDies

ShellSpec == ShellInit /\ [][ShellNext]_shellVars

(* Timers fire and events are handled.  No process has to end by itself,   *)
(* and nobody has to abort, stop or move the command.                      *)
ShellFairness ==
  /\ WF_shellVars(NotStarted \/ SpawnThrows \/ Spawn)
  /\ WF_shellVars(Timeout) /\ WF_shellVars(Escalate)
  /\ WF_shellVars(Close) /\ WF_shellVars(Finalize) /\ WF_shellVars(CommandReturns)
  /\ WF_shellVars(TaskEnds)
ShellFairSpec == ShellSpec /\ ShellFairness
-----------------------------------------------------------------------------
(* The workspace turn ends when the call has returned and the process is   *)
(* done (withCommandExecution).                                            *)
TurnOver == call = "returned" /\ processDone

(* The shell of a command is never left alone: a command told to end is    *)
(* not moved to the background, the workspace turn outlasts the shell of   *)
(* one in the foreground, and the end of the program takes along one that  *)
(* was moved.  (withCommandExecution, backgroundExecution, recover.ts.)    *)
ToldToEnd == Set("backgrounded") => ~Set("aborted") /\ ~Set("timedOut")
TurnCoversShell ==
  /\ ShellTypeOK /\ ToldToEnd
  /\ host = "up" /\ TurnOver /\ "shell" \in alive => Set("backgrounded")
  /\ host = "gone" /\ result = "background" => "shell" \notin alive

(* The sandbox of a command is taken down at most once and never under a   *)
(* running shell, by the call or by the background task, whichever has the *)
(* command when its shell ends, and before either is over.                 *)
SandboxOnce ==
  /\ cleanups \in 0..1
  /\ cleanups = 1 => "shell" \notin alive
  /\ call = "returned" /\ result \in {"exit", "interrupted", "timedOut"} => cleanups = 1
  /\ task \in {"completed", "failed", "cancelled"} => cleanups = 1

(* An aborted call returns, a stopped task ends, and with timeouts every   *)
(* command gives its workspace turn up, whatever it does about signals.    *)
(* (Where the record of a background task cannot be written, the switch to *)
(* the background throws half done and the call stays open:                *)
(* BackgroundThrows.)                                                      *)
EndsWhenTold ==
  /\ config.records /\ signalled /\ call = "running" ~> call = "returned" \/ host = "gone"
  /\ task = "stopped" ~> task = "cancelled" \/ host = "gone"
  /\ config.timeouts /\ config.records ~> TurnOver \/ host = "gone"
=============================================================================
