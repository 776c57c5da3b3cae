---------------------------- MODULE TaskManager ----------------------------
(***************************************************************************)
(* Background tasks of a session (subagent/task-manager.ts and             *)
(* subagent/task-store.ts): subagents, shell commands and workflows that   *)
(* run beside the conversation.  Every change of a task is written to its  *)
(* record on disk, so that a later process reports what the conversation   *)
(* has not been told.  Records may fail to be written, the process may be  *)
(* killed between any two steps, and stopAll and waitAll go on while tasks *)
(* are created and end.                                                    *)
(***************************************************************************)
EXTENDS Naturals, FiniteSets, FiniteSetsExt, Functions

CONSTANTS
  Sessions,
  NoSession,
  Callers,     \* of "stopAll", "waitAll"
  Kinds,       \* of "agent", "shell", "workflow"
  MaxTasks,    \* bound on task numbers
  MaxRetained, \* MAX_RETAINED_FINISHED_TASKS
  MaxFailures, \* bound on failing writes
  MaxCrashes   \* bound on killed processes

ASSUME TaskAssumption ==
  /\ NoSession \notin Sessions
  /\ Callers \subseteq {"stopAll", "waitAll"}
  /\ Kinds \subseteq {"agent", "shell", "workflow"}
  /\ MaxTasks \in Nat /\ MaxRetained \in Nat /\ MaxFailures \in Nat /\ MaxCrashes \in Nat

VARIABLES
  session,    \* the session of the manager's store
  nextTaskId,
  tasks,      \* the manager's map, in the order of the numbers
  notified,   \* notifiedTaskIds
  stage,      \* how far the promise of each pending task is
  calls,      \* the stopAll and the waitAll under way
  disk,       \* the records of each session
  failures, crashes,
  loaded,     \* history: the session's records were all loaded
  delivered   \* history: how often a task was reported to its conversation

hist == <<loaded, delivered>>
taskVars == <<session, nextTaskId, tasks, notified, stage, calls, disk, failures, crashes,
          loaded, delivered>>

Ids == 1..MaxTasks
Statuses == {"running", "completed", "failed", "cancelled"}
Task == [kind : Kinds, status : Statuses, ended : BOOLEAN]
Record == [task : Task, notified : BOOLEAN]
PartialFuns(S, T) == UNION {[D -> T] : D \in SUBSET S}
PendingIds == DOMAIN stage

Idle == [at |-> "idle", seen |-> {}, awaiting |-> {}]

TaskTypeOK ==
  /\ session \in Sessions \cup {NoSession}
  /\ nextTaskId \in 1..MaxTasks + 1
  /\ DOMAIN tasks \subseteq Ids /\ \A id \in DOMAIN tasks : tasks[id] \in Task
  /\ notified \subseteq DOMAIN tasks
  /\ PendingIds \subseteq DOMAIN tasks
  /\ \A id \in PendingIds : stage[id] \in {"created", "started", "settled"}
  /\ \A call \in Callers :
       calls[call] \in [at : {"idle", "pass", "await"}, seen : SUBSET Ids, awaiting : SUBSET Ids]
  /\ \A s \in Sessions : /\ DOMAIN disk[s] \subseteq Ids
                         /\ \A id \in DOMAIN disk[s] : disk[s][id] \in Record
  /\ failures \in 0..MaxFailures /\ crashes \in 0..MaxCrashes
  /\ loaded \in BOOLEAN
  /\ delivered \in [Sessions -> [Ids -> 0..2]]

NoTasks == [id \in {} |-> 0]

(* Entries put into a map, over those it has (TLC's @@, as a function that *)
(* can be reasoned about).                                                 *)
Over(new, old) ==
  [id \in DOMAIN new \cup DOMAIN old |-> IF id \in DOMAIN new THEN new[id] ELSE old[id]]
Put(id, entry, old) == Over([i \in {id} |-> entry], old)

TaskInit ==
  /\ session = NoSession /\ nextTaskId = 1
  /\ tasks = NoTasks /\ notified = {} /\ stage = NoTasks
  /\ calls = [call \in Callers |-> Idle]
  /\ disk = [s \in Sessions |-> NoTasks]
  /\ failures = 0 /\ crashes = 0
  /\ loaded = TRUE
  /\ delivered = [s \in Sessions |-> [id \in Ids |-> 0]]
-----------------------------------------------------------------------------
RecordOf(task, isNotified) == [task |-> task, notified |-> isNotified]

(* persist writes a task's record, or fails and throws.                    *)
Saves(records) == disk' = [disk EXCEPT ![session] = Over(records, @)] /\ UNCHANGED failures
SaveFails == failures < MaxFailures /\ failures' = failures + 1
Persist(id, task) ==
  \/ Saves([i \in {id} |-> RecordOf(task, id \in notified)])
  \/ SaveFails /\ UNCHANGED disk

(* Mutant: the oldest of all finished tasks go, reported or not.           *)
Finished_Unreported(map, pending, told) ==
  {id \in DOMAIN map \ pending : map[id].status # "running"}

(* The tasks pruneCompleted may drop: reported and over.                   *)
Finished(map, pending, told) ==
  {id \in DOMAIN map \ pending : map[id].status # "running" /\ id \in told}

(* pruneCompleted: the oldest beyond the retention cap go.                 *)
Excess(map, pending, told) ==
  LET finished == Finished(map, pending, told)
  IN  {id \in finished : Cardinality({later \in finished : later > id}) >= MaxRetained}

Pruned(map, pending, told) ==
  LET kept == DOMAIN map \ Excess(map, pending, told)
  IN  tasks' = Restrict(map, kept) /\ notified' = told \cap kept
-----------------------------------------------------------------------------
(* create: the runner starts in a later microtask, even when the record    *)
(* could not be written and create throws.                                 *)
Create(kind) ==
  /\ session # NoSession /\ nextTaskId <= MaxTasks
  /\ LET id == nextTaskId
         task == [kind |-> kind, status |-> "running", ended |-> FALSE]
     IN  /\ nextTaskId' = id + 1
         /\ tasks' = Put(id, task, tasks)
         /\ stage' = Put(id, "created", stage)
         /\ Persist(id, task)
         /\ delivered' = [delivered EXCEPT ![session][id] = 0]
  /\ UNCHANGED <<session, notified, calls, crashes, loaded>>

(* The runner begins, unless the task was cancelled before; a cancelled    *)
(* workflow's runner still has its journal to finish.                      *)
StartTask(id) ==
  /\ id \in PendingIds /\ stage[id] = "created"
  /\ stage' = [stage EXCEPT ![id] =
       IF tasks[id].status = "cancelled" /\ tasks[id].kind # "workflow"
         THEN "settled" ELSE "started"]
  /\ UNCHANGED <<session, nextTaskId, tasks, notified, calls, disk, failures, crashes, hist>>

(* The status a runner's result gives a task; a cancelled task keeps its   *)
(* own.                                                                    *)
Outcome(status, result) ==
  IF status # "running" THEN status
  ELSE IF result = "output" THEN "completed" ELSE "failed"

(* The then and catch of the runner's promise.  The late output of a       *)
(* cancelled task is dropped unless it is a TaskFailure.                   *)
Settle(id, result) ==
  /\ id \in PendingIds /\ stage[id] = "started"
  /\ LET task == [tasks[id] EXCEPT !.status = Outcome(@, result)]
     IN  /\ tasks' = [tasks EXCEPT ![id] = task]
         /\ IF tasks[id].status = "running" \/ result = "TaskFailure"
              THEN Persist(id, task) ELSE UNCHANGED <<disk, failures>>
  /\ stage' = [stage EXCEPT ![id] = "settled"]
  /\ UNCHANGED <<session, nextTaskId, notified, calls, crashes, hist>>

(* Mutant: only a task that was not stopped is taken off the pending ones. *)
Finally_NotStopped(id) ==
  /\ id \in PendingIds /\ stage[id] = "settled" /\ tasks[id].status # "cancelled"
  /\ LET task == [tasks[id] EXCEPT !.ended = TRUE]
     IN  tasks' = [tasks EXCEPT ![id] = task] /\ Persist(id, task)
  /\ stage' = Restrict(stage, PendingIds \ {id})
  /\ UNCHANGED <<session, nextTaskId, notified, calls, crashes, hist>>

(* The finally of the runner's promise.                                    *)
Finally(id) ==
  /\ id \in PendingIds /\ stage[id] = "settled"
  /\ LET task == [tasks[id] EXCEPT !.ended = TRUE]
     IN  tasks' = [tasks EXCEPT ![id] = task] /\ Persist(id, task)
  /\ stage' = Restrict(stage, PendingIds \ {id})
  /\ UNCHANGED <<session, nextTaskId, notified, calls, crashes, hist>>

Cancelled(id) == [tasks[id] EXCEPT !.status = "cancelled"]

Stop(id) ==
  /\ id \in DOMAIN tasks /\ tasks[id].status = "running"
  /\ tasks' = [tasks EXCEPT ![id] = Cancelled(id)]
  /\ Persist(id, Cancelled(id))
  /\ UNCHANGED <<session, nextTaskId, notified, stage, calls, crashes, hist>>
-----------------------------------------------------------------------------
CallBegins(call) ==
  /\ session # NoSession /\ calls[call].at = "idle"
  /\ calls' = [calls EXCEPT ![call].at = "pass"]
  /\ UNCHANGED <<session, nextTaskId, tasks, notified, stage, disk, failures, crashes, hist>>

(* What a pass of stopAll or waitAll finds to wait for.                    *)
ToStop == PendingIds \ calls["stopAll"].seen
ToAwait == {id \in PendingIds : tasks[id].kind # "shell"}

CancelAll(ids) ==
  Over([id \in {i \in ids : tasks[i].status = "running"} |-> Cancelled(id)], tasks)

(* A pass of stopAll stops what is pending and waits for it.  A record     *)
(* that cannot be written ends the call: the tasks after it go on.         *)
StopPass ==
  /\ "stopAll" \in Callers /\ calls["stopAll"].at = "pass" /\ ToStop # {}
  /\ LET running == {id \in ToStop : tasks[id].status = "running"} IN
     \/ /\ tasks' = CancelAll(ToStop)
        /\ Saves([id \in running |-> RecordOf(Cancelled(id), id \in notified)])
        /\ calls' = [calls EXCEPT !["stopAll"] =
             [at |-> "await", seen |-> @.seen \cup ToStop, awaiting |-> ToStop]]
     \/ \E bad \in running :
          /\ SaveFails
          /\ tasks' = CancelAll({id \in ToStop : id <= bad})
          /\ disk' = [disk EXCEPT ![session] =
               Over([id \in {i \in running : i < bad} |->
                       RecordOf(Cancelled(id), id \in notified)], @)]
          /\ calls' = [calls EXCEPT !["stopAll"] = Idle]
  /\ UNCHANGED <<session, nextTaskId, notified, stage, crashes, hist>>

WaitPass ==
  /\ "waitAll" \in Callers /\ calls["waitAll"].at = "pass" /\ ToAwait # {}
  /\ calls' = [calls EXCEPT !["waitAll"] = [@ EXCEPT !.at = "await", !.awaiting = ToAwait]]
  /\ UNCHANGED <<session, nextTaskId, tasks, notified, stage, disk, failures, crashes, hist>>

(* allSettled: every awaited promise is done, and the loop looks again.    *)
NextPass(call) ==
  /\ calls[call].at = "await" /\ calls[call].awaiting \cap PendingIds = {}
  /\ calls' = [calls EXCEPT ![call].at = "pass", ![call].awaiting = {}]
  /\ UNCHANGED <<session, nextTaskId, tasks, notified, stage, disk, failures, crashes, hist>>

CallReturns(call) ==
  /\ calls[call].at = "pass"
  /\ call = "stopAll" => ToStop = {}
  /\ call = "waitAll" => ToAwait = {}
  /\ calls' = [calls EXCEPT ![call] = Idle]
  /\ UNCHANGED <<session, nextTaskId, tasks, notified, stage, disk, failures, crashes, hist>>
-----------------------------------------------------------------------------
(* Mutant: a stopped task is reported before its runner has cleaned up.    *)
Due_Early == {id \in DOMAIN tasks : tasks[id].status # "running"} \ notified

(* What drainNotifications reports.                                        *)
Due == {id \in DOMAIN tasks \ PendingIds : tasks[id].status # "running"} \ notified

(* Mutant: the report is not recorded.                                     *)
Drain_NotSaved ==
  /\ Due # {}
  /\ Pruned(tasks, PendingIds, notified \cup Due)
  /\ delivered' = [delivered EXCEPT ![session] =
       [id \in Ids |-> IF id \in Due /\ @[id] < 2 THEN @[id] + 1 ELSE @[id]]]
  /\ UNCHANGED <<session, nextTaskId, stage, calls, disk, failures, crashes, loaded>>

Drain ==
  /\ Due # {}
  /\ Saves([id \in Due |-> RecordOf(tasks[id], TRUE)])
  /\ Pruned(tasks, PendingIds, notified \cup Due)
  /\ delivered' = [delivered EXCEPT ![session] =
       [id \in Ids |-> IF id \in Due /\ @[id] < 2 THEN @[id] + 1 ELSE @[id]]]
  /\ UNCHANGED <<session, nextTaskId, stage, calls, crashes, loaded>>

(* A write fails: nothing is reported, and what was marked stays so.       *)
DrainFails ==
  /\ SaveFails
  /\ \E bad \in Due :
       /\ notified' = notified \cup {id \in Due : id <= bad}
       /\ disk' = [disk EXCEPT ![session] =
            Over([id \in {i \in Due : i < bad} |-> RecordOf(tasks[id], TRUE)], @)]
  /\ UNCHANGED <<session, nextTaskId, tasks, stage, calls, crashes, hist>>

(* A task as useSession restores it: what ran has been interrupted.        *)
Restored(task) ==
  IF task.status = "running" THEN [task EXCEPT !.status = "failed", !.ended = TRUE] ELSE task

CounterPast(ids) == Max({nextTaskId} \cup {id + 1 : id \in ids})

(* useSession loads the records of a session, or a part of them when an    *)
(* interrupted task's record cannot be written again.                      *)
UseSession(s) ==
  /\ PendingIds = {}
  /\ session' = s
  /\ LET records == disk[s]
         ids == DOMAIN records
         running == {id \in ids : records[id].task.status = "running"}
         restored == [id \in ids |-> Restored(records[id].task)]
         told == {id \in ids : records[id].notified}
         rewritten(some) == [disk EXCEPT ![s] =
           Over([id \in running \cap some |-> RecordOf(restored[id], FALSE)], @)]
     IN  \/ /\ Pruned(restored, {}, told)
            /\ disk' = rewritten(ids)
            /\ nextTaskId' = CounterPast(ids)
            /\ loaded' = TRUE
            /\ UNCHANGED failures
         \/ \E bad \in running :
              /\ SaveFails
              /\ LET before == {id \in ids : id < bad}
                 IN  /\ tasks' = Restrict(restored, before) /\ notified' = told \cap before
                     /\ disk' = rewritten(before)
                     /\ nextTaskId' = CounterPast(before \cup {bad})
              /\ loaded' = FALSE
  /\ UNCHANGED <<stage, calls, crashes, delivered>>

Clear ==
  /\ session # NoSession /\ PendingIds = {}
  /\ tasks' = NoTasks /\ notified' = {}
  /\ UNCHANGED <<session, nextTaskId, stage, calls, disk, failures, crashes, hist>>

(* The process is killed; what is left is on disk.                         *)
Crash ==
  /\ session # NoSession /\ crashes < MaxCrashes
  /\ crashes' = crashes + 1
  /\ session' = NoSession /\ nextTaskId' = 1
  /\ tasks' = NoTasks /\ notified' = {} /\ stage' = NoTasks
  /\ calls' = [call \in Callers |-> Idle]
  /\ UNCHANGED <<disk, failures, hist>>

Runs(id) == StartTask(id) \/ (\E result \in {"output", "TaskFailure", "error"} : Settle(id, result))
            \/ Finally(id)
CallGoesOn(call) == NextPass(call) \/ CallReturns(call)

TaskNext ==
  \/ \E kind \in Kinds : Create(kind)
  \/ \E id \in Ids : Runs(id) \/ Stop(id)
  \/ \E call \in Callers : CallBegins(call) \/ CallGoesOn(call)
  \/ StopPass \/ WaitPass \/ Drain \/ DrainFails \/ Clear \/ Crash
  \/ \E s \in Sessions : UseSession(s)

TaskSpec == TaskInit /\ [][TaskNext]_taskVars

(* Promise callbacks run; a runner that has been cancelled ends.  Nobody   *)
(* has to create, stop, switch or ask for notifications.                   *)
TaskFairness ==
  /\ \A id \in Ids : WF_taskVars(Runs(id))
  /\ \A call \in Callers : WF_taskVars(CallGoesOn(call))
  /\ WF_taskVars(StopPass) /\ WF_taskVars(WaitPass)
TaskFairSpec == TaskSpec /\ TaskFairness
-----------------------------------------------------------------------------
(* A conversation hears of a task once at most, whatever is restored,      *)
(* switched, pruned or killed in between.                                  *)
ReportedOnce == TaskTypeOK /\ \A s \in Sessions, id \in Ids : delivered[s][id] <= 1

(* What has been reported is final: the record never changes again.  Said  *)
(* of sessions whose records this process could all load: after a load that *)
(* failed half way numbers start over, and a new task may write over the    *)
(* record of one that was reported before the restart.                      *)
ReportedFinal ==
  [][\A s \in Sessions : \A id \in DOMAIN disk[s] :
       loaded /\ delivered[s][id] = 1 =>
         id \in DOMAIN disk'[s] /\ disk'[s][id] = disk[s][id]]_taskVars

(* No result is forgotten.  A record is marked only by the report of its   *)
(* task, and a result that is due, with a record that says so, stays due   *)
(* until it is reported, the session is left or cleared, or a write fails. *)
(* (After a load that failed half way the numbers start over: a task may   *)
(* then be due whose own record could never be written over a marked one   *)
(* of the same number, and nothing on disk tells of it.)                   *)
Reported(s, id) == delivered'[s][id] > delivered[s][id]
NothingForgotten ==
  [][failures' = failures =>
       /\ \A s \in Sessions : \A id \in DOMAIN disk[s] \cap DOMAIN disk'[s] :
            disk'[s][id].notified => disk[s][id].notified \/ Reported(s, id)
       /\ session' = session /\ tasks' # NoTasks =>
            \A id \in Due \cap DOMAIN disk[session] : ~disk[session][id].notified =>
              id \in Due' \/ Reported(session, id)]_taskVars

(* stopAll returns, though tasks are created and end while it waits, and   *)
(* then nothing is pending; after waitAll only shell commands are.  (A     *)
(* record that cannot be written ends the call early.)                     *)
Returns(call) == call \in Callers /\ calls[call].at # "idle" /\ calls'[call].at = "idle"
CallsSettle ==
  [][session' = session /\ failures' = failures =>
       /\ Returns("stopAll") => PendingIds = {}
       /\ Returns("waitAll") => \A id \in PendingIds : tasks[id].kind = "shell"]_taskVars
StopAllEnds ==
  CallsSettle /\ (calls["stopAll"].at # "idle" ~> calls["stopAll"].at = "idle")
=============================================================================
