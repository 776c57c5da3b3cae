----------------------------- MODULE SharedTasks ----------------------------
(***************************************************************************)
(* The task board of a team (teams/shared-task.ts, todo/write.ts,          *)
(* todo/dependencies.ts): tasks with an owner, a status and reciprocal     *)
(* dependency links in one file, edited in batches by the leader and the   *)
(* teammates through store instances of several processes.  A mutation     *)
(* takes the file lock, reloads the board, and renames the new board into  *)
(* place as it leaves; what a store remembers between two mutations is     *)
(* never used, so a store has a view only while it mutates.                *)
(***************************************************************************)
EXTENDS Naturals, FiniteSets, Sequences, Functions

CONSTANTS
  Stores,     \* store instances, one per process
  Teammates,  \* actors that must respect claims
  Leader,     \* the leader writes without an actor
  NoOwner,    \* the empty owner of an unclaimed task
  Inputs,     \* TodoWrite inputs: [deletes, edits]
  MaxId,      \* bound: ids given out
  MaxResets   \* bound: initEmpty calls after the first

Actors == Teammates \cup {Leader}
Owners == Actors \cup {NoOwner}
Ids == 1..MaxId
Statuses == {"pending", "in_progress", "blocked", "completed", "cancelled"}
Finished == {"completed", "cancelled"}
Task == [status : Statuses, owner : Owners, blocks : SUBSET Ids, blockedBy : SUBSET Ids]
IsBoard(board) == /\ board.nextId \in 1..MaxId + 1
                  /\ DOMAIN board.tasks \subseteq Ids
                  /\ \A t \in DOMAIN board.tasks : board.tasks[t] \in Task

(* An edit has the fields it mentions; without an id it creates a task. *)
ValidTodo(todo) ==
  /\ DOMAIN todo \subseteq {"id", "status", "owner", "blocks", "blockedBy"}
  /\ "id" \in DOMAIN todo => todo.id \in Ids
  /\ "status" \in DOMAIN todo => todo.status \in Statuses
  /\ "owner" \in DOMAIN todo => todo.owner \in Owners
  /\ \A field \in DOMAIN todo \cap {"blocks", "blockedBy"} : todo[field] \subseteq Ids

ASSUME InputsAssumption ==
  \A input \in Inputs : /\ input.deletes \subseteq Ids
                        /\ Len(input.edits) \in Nat
                        /\ DOMAIN input.edits = 1..Len(input.edits)
                        /\ \A i \in DOMAIN input.edits : ValidTodo(input.edits[i])
ASSUME NamesAssumption == Leader \notin Teammates /\ NoOwner \notin Actors
ASSUME BoundsAssumption == MaxId \in Nat /\ MaxResets \in Nat

VARIABLES
  file,    \* the board on disk
  view,    \* the boards loaded by the stores that hold the lock
  resets,  \* initEmpty calls so far
  last     \* history: the step that has just replaced the board, if one has

vars == <<file, view, resets, last>>

EmptyBoard == [nextId |-> 1, tasks |-> <<>>]
Op(kind, actor, deletes) == [kind |-> kind, actor |-> actor, deletes |-> deletes]
NoOp == Op("none", Leader, {})

TypeOK ==
  /\ IsBoard(file)
  /\ DOMAIN view \subseteq Stores /\ \A s \in DOMAIN view : IsBoard(view[s])
  /\ resets \in 0..MaxResets
  /\ last \in [kind : {"none", "init", "write", "release"}, actor : Actors,
               deletes : SUBSET Ids]

Init ==
  /\ file = EmptyBoard
  /\ view = <<>>
  /\ resets = 0
  /\ last = NoOp
-----------------------------------------------------------------------------
(* Mutant: only a task that blocks itself is found. *)
Acyclic_SelfOnly(tasks) == \A t \in DOMAIN tasks : t \notin tasks[t].blocks

(* validateTaskDependencies: links are reciprocal, between other existing  *)
(* tasks, and without a cycle (every set of tasks has one that blocks none *)
(* of the set).                                                            *)
Acyclic(tasks) ==
  \A S \in (SUBSET DOMAIN tasks) \ {{}} : \E t \in S : tasks[t].blocks \cap S = {}

Consistent(tasks) ==
  /\ \A t \in DOMAIN tasks :
       /\ tasks[t].blocks \cup tasks[t].blockedBy \subseteq DOMAIN tasks \ {t}
       /\ \A u \in tasks[t].blocks : t \in tasks[u].blockedBy
       /\ \A u \in tasks[t].blockedBy : t \in tasks[u].blocks
  /\ Acyclic(tasks)

Unresolved(tasks, t) == {u \in tasks[t].blockedBy : tasks[u].status # "completed"}

(* Mutant: only work in progress is protected from other teammates. *)
Claimed_Started(task, actor) ==
  /\ actor # Leader /\ task.owner # NoOwner /\ task.owner # actor
  /\ task.status = "in_progress"

Claimed(task, actor) ==
  actor # Leader /\ task.owner # NoOwner /\ task.owner # actor

(* The edits of a batch by task id; new ids are drawn from nextId in order. *)
IdOf(board, edits, i) ==
  IF "id" \in DOMAIN edits[i] THEN edits[i].id
  ELSE board.nextId + Cardinality({j \in 1..i - 1 : "id" \notin DOMAIN edits[j]})
EditedIds(board, edits) == {IdOf(board, edits, i) : i \in DOMAIN edits}
ById(board, edits) ==
  [id \in EditedIds(board, edits) |->
     edits[CHOOSE i \in DOMAIN edits : IdOf(board, edits, i) = id]]
Created(edits) == Cardinality({i \in DOMAIN edits : "id" \notin DOMAIN edits[i]})

Given(edit, field) == {id \in DOMAIN edit : field \in DOMAIN edit[id]}
Links(edit) ==
  {link \in Ids \X Ids :
     \/ link[1] \in Given(edit, "blocks") /\ link[2] \in edit[link[1]].blocks
     \/ link[2] \in Given(edit, "blockedBy") /\ link[1] \in edit[link[2]].blockedBy}

Starts(todo) == "status" \in DOMAIN todo /\ todo.status = "in_progress"

(* Status and owner of a task after an edit: starting work claims it. *)
Edited(task, todo, actor) ==
  [task EXCEPT
     !.status = IF "status" \in DOMAIN todo THEN todo.status ELSE @,
     !.owner  = IF "owner" \in DOMAIN todo THEN todo.owner
                ELSE IF Starts(todo) /\ actor # Leader THEN actor ELSE @]

Fresh == [status |-> "pending", owner |-> NoOwner, blocks |-> {}, blockedBy |-> {}]

(* Links of a deleted task go; a given list replaces the links of that     *)
(* direction on both ends; the requested links are then added.             *)
Relinked(t, task, deletes, edit, links) ==
  LET out == IF t \in Given(edit, "blocks") THEN {}
             ELSE task.blocks \ (deletes \cup Given(edit, "blockedBy"))
      in_ == IF t \in Given(edit, "blockedBy") THEN {}
             ELSE task.blockedBy \ (deletes \cup Given(edit, "blocks"))
  IN  [task EXCEPT !.blocks    = out \cup {u \in Ids : <<t, u>> \in links},
                   !.blockedBy = in_ \cup {u \in Ids : <<u, t>> \in links}]

(* The tasks a batch leads to, before they are checked. *)
Applied(tasks, deletes, edit, actor) ==
  LET links == Links(edit) IN
  [t \in (DOMAIN tasks \ deletes) \cup DOMAIN edit |->
     LET base == IF t \in DOMAIN tasks THEN tasks[t] ELSE Fresh
         task == Relinked(t, base, deletes, edit, links)
     IN  IF t \in DOMAIN edit THEN Edited(task, edit[t], actor) ELSE task]

(* What applyTodoWrite refuses before it looks at the result. *)
ValidBatch(tasks, deletes, edit, actor) ==
  /\ deletes \subseteq DOMAIN tasks /\ deletes \cap DOMAIN edit = {}
  /\ \A t \in deletes \cup (DOMAIN edit \cap DOMAIN tasks) : ~Claimed(tasks[t], actor)
  /\ actor # Leader =>
       \A t \in DOMAIN edit :
         /\ "owner" \in DOMAIN edit[t] => edit[t].owner \in {NoOwner, actor}
         /\ Starts(edit[t]) /\ t \in DOMAIN tasks =>
              tasks[t].status \notin Finished
  /\ \A field \in {"blocks", "blockedBy"} : \A t \in Given(edit, field) :
       edit[t][field] \subseteq DOMAIN tasks \ (deletes \cup {t})

Busy(tasks, actor) ==
  {t \in DOMAIN tasks : tasks[t].owner = actor /\ tasks[t].status = "in_progress"}

(* Mutant: only the edited tasks are checked against their blockers. *)
ValidResult_EditedOnly(tasks, edit, actor) ==
  /\ \A field \in {"blocks", "blockedBy"} : \A t \in Given(edit, field) :
       tasks[t][field] = edit[t][field]
  /\ Consistent(tasks)
  /\ \A t \in DOMAIN edit :
       tasks[t].status = "in_progress" =>
         /\ Unresolved(tasks, t) = {}
         /\ actor # Leader => tasks[t].owner # NoOwner
  /\ actor # Leader => Cardinality(Busy(tasks, actor)) <= 1

(* What it refuses of the result: every task is checked, edited or not. *)
ValidResult(tasks, edit, actor) ==
  /\ \A field \in {"blocks", "blockedBy"} : \A t \in Given(edit, field) :
       tasks[t][field] = edit[t][field]
  /\ Consistent(tasks)
  /\ \A t \in DOMAIN tasks :
       tasks[t].status = "in_progress" =>
         /\ Unresolved(tasks, t) = {}
         /\ actor # Leader /\ t \in DOMAIN edit => tasks[t].owner # NoOwner
  /\ actor # Leader => Cardinality(Busy(tasks, actor)) <= 1

(* Mutant: the board is loaded before the lock is taken. *)
Begin_NoLock(s) ==
  /\ s \notin DOMAIN view
  /\ view' = [r \in DOMAIN view \cup {s} |-> IF r = s THEN file ELSE view[r]]
  /\ last' = NoOp
  /\ UNCHANGED <<file, resets>>

(* mutate takes the lock and reloads the board. *)
Begin(s) ==
  /\ DOMAIN view = {}
  /\ view' = [r \in DOMAIN view \cup {s} |-> IF r = s THEN file ELSE view[r]]
  /\ last' = NoOp
  /\ UNCHANGED <<file, resets>>

End(s) == view' = Restrict(view, DOMAIN view \ {s})

(* A board is renamed over the file, then the lock is released. *)
Commit(s, board, op) ==
  /\ End(s)
  /\ file' = board
  /\ last' = op

(* A refused batch, a failed save, nothing to do, or the death of the      *)
(* process, whose lock is then reclaimed: the file stays.                  *)
Abandon(s) ==
  /\ s \in DOMAIN view
  /\ End(s)
  /\ UNCHANGED <<file, resets, last>>

(* TodoWrite on a team board. *)
Write(s, actor, input) ==
  /\ s \in DOMAIN view
  /\ LET board == view[s]
         edit   == ById(board, input.edits)
         result == Applied(board.tasks, input.deletes, edit, actor)
         nextId == board.nextId + Created(input.edits)
     IN  /\ nextId <= MaxId + 1
         /\ \A i \in DOMAIN input.edits :
              "id" \in DOMAIN input.edits[i] => input.edits[i].id \in DOMAIN board.tasks
         /\ Cardinality(DOMAIN edit) = Len(input.edits)
         /\ ValidBatch(board.tasks, input.deletes, edit, actor)
         /\ ValidResult(result, edit, actor)
         /\ Commit(s, [nextId |-> nextId, tasks |-> result], Op("write", actor, input.deletes))
  /\ UNCHANGED resets

(* The unfinished work of a teammate that has ended goes back to pending. *)
Released(tasks, owner) ==
  [t \in DOMAIN tasks |->
     IF tasks[t].owner = owner /\ tasks[t].status \notin Finished
       THEN [tasks[t] EXCEPT !.owner = NoOwner, !.status = "pending"]
       ELSE tasks[t]]

ReleaseOwner(s, owner) ==
  /\ s \in DOMAIN view
  /\ \E t \in DOMAIN view[s].tasks :
       view[s].tasks[t].owner = owner /\ view[s].tasks[t].status \notin Finished
  /\ Commit(s, [nextId |-> view[s].nextId, tasks |-> Released(view[s].tasks, owner)],
            Op("release", owner, {}))
  /\ UNCHANGED resets

(* TeamManager.create starts the board of a new team. *)
InitEmpty(s) ==
  /\ s \in DOMAIN view /\ resets < MaxResets
  /\ Commit(s, EmptyBoard, Op("init", Leader, {}))
  /\ resets' = resets + 1

Next == \E s \in Stores :
  \/ \E actor \in Actors, input \in Inputs : Write(s, actor, input)
  \/ \E owner \in Teammates : ReleaseOwner(s, owner)
  \/ Begin(s) \/ Abandon(s) \/ InitEmpty(s)

Spec == Init /\ [][Next]_vars
-----------------------------------------------------------------------------
(* Every board on disk can be loaded again: links are reciprocal, between  *)
(* existing tasks and acyclic, and the counter is past every id.           *)
BoardLoads ==
  LET tasks == file.tasks IN
  /\ \A t \in DOMAIN tasks : \A u \in DOMAIN tasks :
       u \in tasks[t].blocks <=> t \in tasks[u].blockedBy
  /\ \A t \in DOMAIN tasks : tasks[t].blocks \cup tasks[t].blockedBy \subseteq DOMAIN tasks
  /\ \E rank \in [DOMAIN tasks -> Ids] :
       \A t \in DOMAIN tasks : \A u \in tasks[t].blocks : rank[t] < rank[u]
  /\ \A t \in DOMAIN tasks : t < file.nextId

(* Work that has been started stays startable: while a task is in progress *)
(* nobody can reopen, replace or delete its way to an open blocker of it.  *)
StartedUnblocked ==
  \A t \in DOMAIN file.tasks :
    file.tasks[t].status = "in_progress" => Unresolved(file.tasks, t) = {}

(* Unfinished work claimed by a teammate is never taken over by another    *)
(* teammate: it changes hands by its owner, the leader or a release.       *)
ClaimKept(t) ==
  LET task == file.tasks[t] IN
  task.owner \in Teammates =>
    \/ t \in DOMAIN file.tasks' /\ file.tasks'[t].owner = task.owner
    \/ last'.actor \in {Leader, task.owner}
ClaimsKept == [][\A t \in DOMAIN file.tasks : ClaimKept(t)]_vars

(* No write overwrites another store's: tasks leave the board only by      *)
(* their deletion or with the whole board, and ids are never given twice.  *)
NoLostTask ==
  [][last'.kind # "init" =>
       /\ DOMAIN file.tasks \ DOMAIN file.tasks' \subseteq last'.deletes
       /\ \A t \in DOMAIN file.tasks' \ DOMAIN file.tasks : t >= file.nextId
       /\ file'.nextId >= file.nextId]_file

(* A teammate has one task in progress unless the leader gave it more. *)
OneTaskEach ==
  [][last'.actor \in Teammates =>
       Cardinality(Busy(file.tasks', last'.actor)) <= 1]_<<file, last>>
=============================================================================
