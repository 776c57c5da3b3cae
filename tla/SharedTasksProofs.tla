-------------------------- MODULE SharedTasksProofs -------------------------
(***************************************************************************)
(* On every team board, whatever its size and however many stores edit it, *)
(* started work has no open blocker, no task is lost and the board loads   *)
(* again.                                                                  *)
(***************************************************************************)
EXTENDS SharedTasks, FiniteSetTheorems, TLAPS

(* One store at a time holds the lock, and it sees the board of the file. *)
ViewFresh == \A s \in DOMAIN view : view[s] = file /\ DOMAIN view = {s}

(* The board of the file can be checked and none of its started tasks is   *)
(* blocked; tasks as a parameter, to say the same of the next board.       *)
Sound(tasks) ==
  /\ Consistent(tasks)
  /\ \A t \in DOMAIN tasks : tasks[t].status = "in_progress" => Unresolved(tasks, t) = {}

(* Fresh views are what makes checking one batch enough. *)
BoardInv == ViewFresh /\ Sound(file.tasks)

(* Ids are drawn below the counter the batch leaves behind. *)
LEMMA DrawnBelow ==
  ASSUME NEW S, IsFiniteSet(S), NEW T \in SUBSET S, NEW i \in S, i \notin T
  PROVE  /\ Cardinality(T) \in Nat /\ Cardinality(S) \in Nat
         /\ Cardinality(T) < Cardinality(S)
<1>1. T # S
  OBVIOUS
<1>2. IsFiniteSet(T) /\ Cardinality(T) <= Cardinality(S) /\ Cardinality(T) # Cardinality(S)
  BY <1>1, FS_Subset
<1>3. Cardinality(T) \in Nat /\ Cardinality(S) \in Nat
  BY <1>2, FS_CardinalityType
<1> QED
  BY <1>2, <1>3

(* An edit without an id gets one from the counter on, below its next      *)
(* value.                                                                  *)
LEMMA DrawnIds ==
  ASSUME NEW board, board.nextId \in Nat, NEW input \in Inputs
  PROVE  /\ Created(input.edits) \in Nat
         /\ \A i \in DOMAIN input.edits : "id" \notin DOMAIN input.edits[i] =>
              IdOf(board, input.edits, i)
                \in board.nextId .. board.nextId + Created(input.edits) - 1
<1> DEFINE edits == input.edits
           new == {i \in DOMAIN edits : "id" \notin DOMAIN edits[i]}
<1>1. Len(edits) \in Nat /\ DOMAIN edits = 1..Len(edits)
  BY InputsAssumption
<1>2. IsFiniteSet(new)
  <2>1. IsFiniteSet(DOMAIN edits)
    BY <1>1, FS_Interval
  <2> QED
    BY <2>1, FS_Subset
<1>3. Created(edits) = Cardinality(new) /\ Cardinality(new) \in Nat
  BY <1>2, FS_CardinalityType DEF Created
<1>4. ASSUME NEW i \in DOMAIN edits, "id" \notin DOMAIN edits[i]
      PROVE  IdOf(board, edits, i) \in board.nextId .. board.nextId + Created(edits) - 1
  <2> DEFINE before == {j \in 1..i - 1 : "id" \notin DOMAIN edits[j]}
  <2>1. before \subseteq new /\ i \in new /\ i \notin before
    BY <1>1, <1>4
  <2>2. IdOf(board, edits, i) = board.nextId + Cardinality(before)
    BY <1>4 DEF IdOf
  <2> HIDE DEF before, new
  <2>3. Cardinality(before) \in Nat /\ Cardinality(before) < Cardinality(new)
    BY <1>2, <2>1, DrawnBelow
  <2> QED
    BY <1>3, <2>2, <2>3
<1> QED
  BY <1>3, <1>4

(* The edits of a batch, by id, are the valid todos of the input. *)
LEMMA EditTyped ==
  ASSUME NEW board, IsBoard(board), NEW input \in Inputs,
         board.nextId + Created(input.edits) <= MaxId + 1
  PROVE  /\ Created(input.edits) \in Nat
         /\ DOMAIN ById(board, input.edits) \subseteq Ids
         /\ \A t \in DOMAIN ById(board, input.edits) :
              ValidTodo(ById(board, input.edits)[t])
<1> DEFINE edits == input.edits
<1>1. \A i \in DOMAIN edits : ValidTodo(edits[i])
  BY InputsAssumption
<1>2. board.nextId \in Nat /\ board.nextId >= 1 /\ MaxId \in Nat
  BY BoundsAssumption DEF IsBoard
<1>3. /\ Created(edits) \in Nat
      /\ \A i \in DOMAIN edits : "id" \notin DOMAIN edits[i] =>
           IdOf(board, edits, i) \in board.nextId .. board.nextId + Created(edits) - 1
  BY <1>2, DrawnIds
<1>5. ASSUME NEW i \in DOMAIN edits PROVE IdOf(board, edits, i) \in Ids
  <2>1. CASE "id" \in DOMAIN edits[i]
    BY <1>1, <2>1 DEF IdOf, ValidTodo
  <2>2. CASE "id" \notin DOMAIN edits[i]
    BY <1>2, <1>3, <2>2 DEF Ids
  <2> QED
    BY <2>1, <2>2
<1>7. DOMAIN ById(board, edits) = EditedIds(board, edits)
  BY DEF ById
<1>8. ASSUME NEW t \in EditedIds(board, edits) PROVE ValidTodo(ById(board, edits)[t])
  <2>1. \E i \in DOMAIN edits : IdOf(board, edits, i) = t
    BY DEF EditedIds
  <2>2. ById(board, edits)[t] = edits[CHOOSE i \in DOMAIN edits : IdOf(board, edits, i) = t]
    BY DEF ById
  <2>3. (CHOOSE i \in DOMAIN edits : IdOf(board, edits, i) = t) \in DOMAIN edits
    BY <2>1
  <2> QED
    BY <1>1, <2>2, <2>3
<1> QED
  BY <1>3, <1>5, <1>7, <1>8 DEF EditedIds

(* A batch of valid todos leads from tasks to tasks. *)
LEMMA AppliedTyped ==
  ASSUME NEW tasks, NEW deletes, NEW edit, NEW actor \in Actors,
         DOMAIN tasks \subseteq Ids, \A t \in DOMAIN tasks : tasks[t] \in Task,
         DOMAIN edit \subseteq Ids, \A t \in DOMAIN edit : ValidTodo(edit[t])
  PROVE  /\ DOMAIN Applied(tasks, deletes, edit, actor) \subseteq Ids
         /\ \A t \in DOMAIN Applied(tasks, deletes, edit, actor) :
              Applied(tasks, deletes, edit, actor)[t] \in Task
<1> DEFINE links == Links(edit)
           base(t) == IF t \in DOMAIN tasks THEN tasks[t] ELSE Fresh
           task(t) == Relinked(t, base(t), deletes, edit, links)
           all == (DOMAIN tasks \ deletes) \cup DOMAIN edit
<1>1. Fresh \in Task
  BY DEF Fresh, Task, Statuses, Owners
<1>2. ASSUME NEW t PROVE task(t) \in Task
  <2>1. base(t) \in Task
    BY <1>1
  <2> HIDE DEF base, links
  <2> QED
    BY <2>1 DEF Relinked, Task
<1>3. ASSUME NEW t \in DOMAIN edit PROVE Edited(task(t), edit[t], actor) \in Task
  <2>1. task(t) \in Task /\ ValidTodo(edit[t])
    BY <1>2
  <2> HIDE DEF task
  <2> QED
    BY <2>1 DEF Edited, ValidTodo, Task, Owners
<1>4. Applied(tasks, deletes, edit, actor) =
        [t \in all |-> IF t \in DOMAIN edit THEN Edited(task(t), edit[t], actor) ELSE task(t)]
  BY DEF Applied
<1> HIDE DEF task, links, base
<1> QED
  BY <1>2, <1>3, <1>4

(* A release changes the unfinished tasks of the owner and no others. *)
LEMMA ReleasedTyped ==
  ASSUME NEW tasks, NEW owner,
         \A t \in DOMAIN tasks : tasks[t] \in Task
  PROVE  /\ DOMAIN Released(tasks, owner) = DOMAIN tasks
         /\ \A t \in DOMAIN tasks :
              LET next == Released(tasks, owner)[t] IN
              /\ next \in Task
              /\ tasks[t].owner # owner \/ tasks[t].status \in Finished => next = tasks[t]
              /\ tasks[t].owner = owner /\ tasks[t].status \notin Finished =>
                   next.owner = NoOwner /\ next.status = "pending"
  BY DEF Released, Task, Statuses, Owners

(* A board stays sound when its links stay and its unfinished tasks may    *)
(* only go back to pending.                                                *)
LEMMA SoundKept ==
  ASSUME NEW tasks, NEW next, Sound(tasks), DOMAIN next = DOMAIN tasks,
         \A t \in DOMAIN tasks :
           /\ next[t].blocks = tasks[t].blocks
           /\ next[t].blockedBy = tasks[t].blockedBy
           /\ next[t].status = tasks[t].status \/ next[t].status = "pending"
           /\ tasks[t].status = "completed" => next[t].status = "completed"
  PROVE  Sound(next)
<1>1. ASSUME NEW t \in DOMAIN tasks
      PROVE  /\ tasks[t].blocks \cup tasks[t].blockedBy \subseteq DOMAIN tasks \ {t}
             /\ \A u \in tasks[t].blocks : t \in tasks[u].blockedBy
             /\ \A u \in tasks[t].blockedBy : t \in tasks[u].blocks
  BY DEF Sound, Consistent
<1>2. ASSUME NEW t \in DOMAIN next
      PROVE  /\ next[t].blocks \cup next[t].blockedBy \subseteq DOMAIN next \ {t}
             /\ \A u \in next[t].blocks : t \in next[u].blockedBy
             /\ \A u \in next[t].blockedBy : t \in next[u].blocks
  <2>1. /\ \A u \in tasks[t].blocks : u \in DOMAIN tasks
        /\ \A u \in tasks[t].blockedBy : u \in DOMAIN tasks
    BY <1>1
  <2> QED
    BY <1>1, <2>1
<1>3. Acyclic(next)
  <2> SUFFICES ASSUME NEW S \in (SUBSET DOMAIN next) \ {{}}
               PROVE  \E t \in S : next[t].blocks \cap S = {}
    BY DEF Acyclic
  <2>1. Acyclic(tasks)
    BY DEF Sound, Consistent
  <2>2. PICK t \in S : tasks[t].blocks \cap S = {}
    BY <2>1 DEF Acyclic
  <2>3. next[t].blocks = tasks[t].blocks
    OBVIOUS
  <2> QED
    BY <2>2, <2>3
<1>4. ASSUME NEW t \in DOMAIN next, next[t].status = "in_progress"
      PROVE  Unresolved(next, t) = {}
  <2>1. tasks[t].status = "in_progress" /\ Unresolved(tasks, t) = {}
    BY <1>4 DEF Sound
  <2>2. \A u \in next[t].blockedBy : u \in DOMAIN tasks
    BY <1>1
  <2> QED
    BY <2>1, <2>2 DEF Unresolved
<1> QED
  BY <1>2, <1>3, <1>4 DEF Sound, Consistent

(* Releasing the work of a teammate keeps the links and the blockers. *)
LEMMA ReleaseKeepsBoard ==
  ASSUME NEW tasks, NEW owner, Sound(tasks)
  PROVE  Sound(Released(tasks, owner))
<1>1. DOMAIN Released(tasks, owner) = DOMAIN tasks
  BY DEF Released
<1>2. \A t \in DOMAIN tasks :
        /\ Released(tasks, owner)[t].blocks = tasks[t].blocks
        /\ Released(tasks, owner)[t].blockedBy = tasks[t].blockedBy
        /\ \/ Released(tasks, owner)[t].status = tasks[t].status
           \/ Released(tasks, owner)[t].status = "pending"
        /\ tasks[t].status = "completed" =>
             Released(tasks, owner)[t].status = "completed"
  BY DEF Released, Finished
<1> QED
  BY <1>1, <1>2, SoundKept

(* Every mutation leaves fresh views and a sound board. *)
LEMMA BoardStep ==
  ASSUME BoardInv, [Next]_vars
  PROVE  BoardInv'
<1>1. ASSUME NEW s \in Stores, Begin(s) PROVE BoardInv'
  BY <1>1 DEF Begin, BoardInv, ViewFresh
<1>2. ASSUME NEW s \in DOMAIN view, End(s) PROVE DOMAIN view' = {}
  BY <1>2 DEF End, Restrict, BoardInv, ViewFresh
<1>3. ASSUME NEW s \in Stores, Abandon(s) PROVE BoardInv'
  BY <1>2, <1>3 DEF Abandon, BoardInv, ViewFresh
<1>4. ASSUME NEW s \in Stores, NEW actor \in Actors, NEW input \in Inputs,
             Write(s, actor, input)
      PROVE  BoardInv'
  <2>1. DOMAIN view' = {}
    BY <1>2, <1>4 DEF Write, Commit
  <2>2. Sound(file.tasks)'
    <3> DEFINE board == view[s]
               edit == ById(board, input.edits)
               result == Applied(board.tasks, input.deletes, edit, actor)
    <3>1. ValidResult(result, edit, actor) /\ file'.tasks = result
      BY <1>4 DEF Write, Commit
    <3> QED
      BY <3>1 DEF ValidResult, Sound
  <2> QED
    BY <2>1, <2>2 DEF BoardInv, ViewFresh
<1>5. ASSUME NEW s \in Stores, NEW owner \in Teammates, ReleaseOwner(s, owner)
      PROVE  BoardInv'
  <2>1. DOMAIN view' = {}
    BY <1>2, <1>5 DEF ReleaseOwner, Commit
  <2>2. s \in DOMAIN view /\ view[s] = file
    BY <1>5 DEF ReleaseOwner, BoardInv, ViewFresh
  <2>3. file'.tasks = Released(file.tasks, owner)
    BY <1>5, <2>2 DEF ReleaseOwner, Commit
  <2>4. Sound(Released(file.tasks, owner))
    BY ReleaseKeepsBoard DEF BoardInv
  <2> QED
    BY <2>1, <2>3, <2>4 DEF BoardInv, ViewFresh
<1>6. ASSUME NEW s \in Stores, InitEmpty(s) PROVE BoardInv'
  <2>1. DOMAIN view' = {} /\ file' = EmptyBoard
    BY <1>2, <1>6 DEF InitEmpty, Commit
  <2> QED
    BY <2>1 DEF EmptyBoard, BoardInv, ViewFresh, Sound, Consistent, Acyclic
<1>7. CASE UNCHANGED vars
  BY <1>7 DEF vars, BoardInv, ViewFresh
<1> QED
  BY <1>1, <1>3, <1>4, <1>5, <1>6, <1>7 DEF Next

LEMMA TypeStep ==
  ASSUME TypeOK, [Next]_vars
  PROVE  TypeOK'
<1>1. ASSUME NEW s \in Stores, Begin(s) PROVE TypeOK'
  BY <1>1, BoundsAssumption DEF Begin, TypeOK, NoOp, Op, Actors
<1>2. ASSUME NEW s \in Stores, Abandon(s) PROVE TypeOK'
  BY <1>2 DEF Abandon, End, Restrict, TypeOK
<1>3. ASSUME NEW s \in Stores, NEW board, NEW op, Commit(s, board, op), IsBoard(board),
             op \in [kind : {"none", "init", "write", "release"}, actor : Actors,
                     deletes : SUBSET Ids],
             resets' \in 0..MaxResets
      PROVE  TypeOK'
  BY <1>3 DEF Commit, End, Restrict, TypeOK
<1>4. ASSUME NEW s \in Stores, NEW actor \in Actors, NEW input \in Inputs,
             Write(s, actor, input)
      PROVE  TypeOK'
  <2> DEFINE edit == ById(view[s], input.edits)
             result == Applied(view[s].tasks, input.deletes, edit, actor)
             nextId == view[s].nextId + Created(input.edits)
             op == Op("write", actor, input.deletes)
  <2>1. /\ s \in DOMAIN view /\ nextId <= MaxId + 1
        /\ Commit(s, [nextId |-> nextId, tasks |-> result], op)
        /\ resets' = resets
    BY <1>4 DEF Write
  <2>2. IsBoard(view[s])
    BY <2>1 DEF TypeOK
  <2>3. /\ Created(input.edits) \in Nat
        /\ DOMAIN edit \subseteq Ids
        /\ \A t \in DOMAIN edit : ValidTodo(edit[t])
    BY <2>1, <2>2, EditTyped
  <2>4. /\ DOMAIN view[s].tasks \subseteq Ids
        /\ \A t \in DOMAIN view[s].tasks : view[s].tasks[t] \in Task
    BY <2>2 DEF IsBoard
  <2>5. DOMAIN result \subseteq Ids /\ \A t \in DOMAIN result : result[t] \in Task
    <3> HIDE DEF edit
    <3> QED
      BY <2>3, <2>4, AppliedTyped
  <2>6. nextId \in 1..MaxId + 1
    BY <2>1, <2>2, <2>3, BoundsAssumption DEF IsBoard
  <2>7. IsBoard([nextId |-> nextId, tasks |-> result])
    <3> HIDE DEF result, nextId
    <3> QED
      BY <2>5, <2>6 DEF IsBoard
  <2>8. op \in [kind : {"none", "init", "write", "release"}, actor : Actors,
                deletes : SUBSET Ids]
    BY InputsAssumption DEF Op
  <2> HIDE DEF result, nextId, op
  <2> QED
    BY <1>3, <2>1, <2>7, <2>8 DEF TypeOK
<1>5. ASSUME NEW s \in Stores, NEW owner \in Teammates, ReleaseOwner(s, owner)
      PROVE  TypeOK'
  <2> DEFINE board == [nextId |-> view[s].nextId, tasks |-> Released(view[s].tasks, owner)]
  <2>1. s \in DOMAIN view /\ Commit(s, board, Op("release", owner, {})) /\ resets' = resets
    BY <1>5 DEF ReleaseOwner
  <2>2. IsBoard(view[s])
    BY <2>1 DEF TypeOK
  <2>3. IsBoard(board)
    BY <2>2, ReleasedTyped DEF IsBoard
  <2>4. Op("release", owner, {}) \in
          [kind : {"none", "init", "write", "release"}, actor : Actors, deletes : SUBSET Ids]
    BY DEF Op, Actors
  <2> HIDE DEF board
  <2> QED
    BY <1>3, <2>1, <2>3, <2>4 DEF TypeOK
<1>6. ASSUME NEW s \in Stores, InitEmpty(s) PROVE TypeOK'
  <2>1. IsBoard(EmptyBoard)
    BY BoundsAssumption DEF EmptyBoard, IsBoard
  <2>2. resets' \in 0..MaxResets
    BY <1>6, BoundsAssumption DEF InitEmpty, TypeOK
  <2> QED
    BY <1>3, <1>6, <2>1, <2>2 DEF InitEmpty, Op, Actors
<1>7. CASE UNCHANGED vars
  BY <1>7 DEF vars, TypeOK
<1> QED
  BY <1>1, <1>2, <1>4, <1>5, <1>6, <1>7 DEF Next

(* Every board is well-typed, whatever the inputs and their number. *)
THEOREM TypeCorrect == Spec => []TypeOK
<1>1. Init => TypeOK
  BY BoundsAssumption DEF Init, TypeOK, EmptyBoard, IsBoard, NoOp, Op, Actors
<1> QED
  BY <1>1, TypeStep, PTL DEF Spec

LEMMA BoardInit == Init => BoardInv
<1> SUFFICES ASSUME Init PROVE BoardInv
  OBVIOUS
<1>1. DOMAIN view = {} /\ file = EmptyBoard
  BY DEF Init
<1> QED
  BY <1>1 DEF EmptyBoard, BoardInv, ViewFresh, Sound, Consistent, Acyclic

(* Started work is never blocked: no batch of the leader or a teammate, no *)
(* release and no new board leaves a task in progress with an open blocker.*)
THEOREM StartedStaysUnblocked == Spec => []StartedUnblocked
<1>1. BoardInv => StartedUnblocked
  BY DEF BoardInv, Sound, StartedUnblocked
<1> QED
  BY <1>1, BoardInit, BoardStep, PTL DEF Spec

(* No step of a teammate leaves it with two tasks in progress: a write is  *)
(* checked against the whole board, and a release leaves it with none.     *)
THEOREM OneTaskAtATime == Spec => OneTaskEach
<1>1. ASSUME TypeOK, [Next]_vars, last'.actor \in Teammates,
             UNCHANGED <<file, last>> => FALSE
      PROVE  Cardinality(Busy(file.tasks', last'.actor)) <= 1
  <2>1. ASSUME NEW s \in Stores, NEW actor \in Actors, NEW input \in Inputs,
               Write(s, actor, input)
        PROVE  Cardinality(Busy(file.tasks', last'.actor)) <= 1
    <3> DEFINE edit == ById(view[s], input.edits)
               result == Applied(view[s].tasks, input.deletes, edit, actor)
    <3>1. /\ ValidResult(result, edit, actor)
          /\ file'.tasks = result /\ last'.actor = actor
      BY <2>1 DEF Write, Commit, Op
    <3>2. actor # Leader
      BY <1>1, <3>1, NamesAssumption
    <3> HIDE DEF result, edit
    <3> QED
      BY <3>1, <3>2 DEF ValidResult
  <2>2. ASSUME NEW s \in Stores, NEW owner \in Teammates, ReleaseOwner(s, owner)
        PROVE  Cardinality(Busy(file.tasks', last'.actor)) <= 1
    <3> DEFINE old == view[s].tasks
    <3>1. file'.tasks = Released(old, owner) /\ last'.actor = owner
      BY <2>2 DEF ReleaseOwner, Commit, Op
    <3>2. owner # NoOwner
      BY NamesAssumption DEF Actors
    <3>3. \A t \in DOMAIN old :
            ~(Released(old, owner)[t].owner = owner
              /\ Released(old, owner)[t].status = "in_progress")
      <4>1. \A t \in DOMAIN old : old[t] \in Task
        <5>1. s \in DOMAIN view
          BY <2>2 DEF ReleaseOwner
        <5> QED
          BY <1>1, <5>1 DEF TypeOK, IsBoard
      <4> HIDE DEF old
      <4>2. ASSUME NEW t \in DOMAIN old
            PROVE  \/ Released(old, owner)[t].owner = NoOwner
                   \/ Released(old, owner)[t].status \in Finished
                   \/ Released(old, owner)[t].owner # owner
        BY <4>1, <4>2, ReleasedTyped
      <4> QED
        BY <3>2, <4>2 DEF Finished
    <3>4. Busy(Released(old, owner), owner) = {}
      BY <3>3 DEF Busy, Released
    <3> QED
      BY <3>1, <3>4, FS_EmptySet
  <2>3. ASSUME NEW s \in Stores, Begin(s) \/ InitEmpty(s) PROVE FALSE
    BY <1>1, <2>3, NamesAssumption DEF Begin, InitEmpty, Commit, NoOp, Op
  <2>4. ASSUME NEW s \in Stores, Abandon(s) PROVE FALSE
    BY <1>1, <2>4 DEF Abandon
  <2>5. CASE UNCHANGED vars
    BY <1>1, <2>5 DEF vars
  <2> QED
    BY <1>1, <2>1, <2>2, <2>3, <2>4, <2>5 DEF Next
<1>2. TypeOK /\ [Next]_vars => [last'.actor \in Teammates =>
         Cardinality(Busy(file.tasks', last'.actor)) <= 1]_<<file, last>>
  BY <1>1
<1> QED
  BY <1>2, TypeCorrect, PTL DEF Spec, OneTaskEach

(* No step of a teammate takes a claimed task from another one. *)
THEOREM ClaimsAreKept == Spec => ClaimsKept
<1>1. ASSUME TypeOK, BoardInv, [Next]_vars, NEW t \in DOMAIN file.tasks
      PROVE  ClaimKept(t) \/ UNCHANGED vars
  <2>1. ASSUME NEW s \in Stores, NEW actor \in Actors, NEW input \in Inputs,
               Write(s, actor, input), file.tasks[t].owner \in Teammates,
               actor # Leader, actor # file.tasks[t].owner
        PROVE  t \in DOMAIN file.tasks' /\ file.tasks'[t].owner = file.tasks[t].owner
    <3> DEFINE edit == ById(view[s], input.edits)
               result == Applied(view[s].tasks, input.deletes, edit, actor)
    <3>1. /\ file'.tasks = result
          /\ ValidBatch(view[s].tasks, input.deletes, edit, actor)
      BY <2>1 DEF Write, Commit
    <3>2. view[s] = file
      <4>1. s \in DOMAIN view
        BY <2>1 DEF Write
      <4> QED
        BY <1>1, <4>1 DEF BoardInv, ViewFresh
    <3> HIDE DEF edit
    <3>3. Claimed(file.tasks[t], actor)
      BY <2>1, NamesAssumption DEF Claimed, Actors
    <3>4. t \notin input.deletes /\ t \notin DOMAIN edit
      BY <3>1, <3>2, <3>3 DEF ValidBatch
    <3>5. t \in DOMAIN result /\ result[t].owner = file.tasks[t].owner
      <4>1. file.tasks[t] \in Task
        BY <1>1 DEF TypeOK, IsBoard
      <4>2. /\ t \in DOMAIN result
            /\ result[t] = Relinked(t, file.tasks[t], input.deletes, edit, Links(edit))
        BY <1>1, <3>2, <3>4 DEF Applied
      <4> HIDE DEF result
      <4> QED
        BY <4>1, <4>2 DEF Relinked, Task
    <3> QED
      BY <3>1, <3>5
  <2>2. ASSUME NEW s \in Stores, NEW actor \in Actors, NEW input \in Inputs,
               Write(s, actor, input)
        PROVE  ClaimKept(t)
    <3>1. last'.actor = actor
      BY <2>2 DEF Write, Commit, Op
    <3> QED
      BY <2>1, <2>2, <3>1 DEF ClaimKept
  <2>3. ASSUME NEW s \in Stores, NEW owner \in Teammates, ReleaseOwner(s, owner)
        PROVE  ClaimKept(t)
    <3>1. file.tasks' = Released(file.tasks, owner) /\ last'.actor = owner
      BY <1>1, <2>3 DEF ReleaseOwner, Commit, Op, BoardInv, ViewFresh
    <3>2. /\ t \in DOMAIN file.tasks'
          /\ file.tasks[t].owner # owner => file.tasks'[t] = file.tasks[t]
      <4>1. \A u \in DOMAIN file.tasks : file.tasks[u] \in Task
        BY <1>1 DEF TypeOK, IsBoard
      <4> QED
        BY <1>1, <3>1, <4>1, ReleasedTyped
    <3> QED
      BY <3>1, <3>2 DEF ClaimKept
  <2>4. ASSUME NEW s \in Stores, Begin(s) \/ InitEmpty(s) PROVE ClaimKept(t)
    BY <2>4 DEF Begin, InitEmpty, Commit, NoOp, Op, ClaimKept
  <2>5. ASSUME NEW s \in Stores, Abandon(s) PROVE ClaimKept(t)
    BY <2>5 DEF Abandon, ClaimKept
  <2> QED
    BY <1>1, <2>2, <2>3, <2>4, <2>5 DEF Next
<1>2. TypeOK /\ BoardInv /\ [Next]_vars =>
        [\A t \in DOMAIN file.tasks : ClaimKept(t)]_vars
  BY <1>1
<1>3. Spec => []BoardInv
  BY BoardInit, BoardStep, PTL DEF Spec
<1> QED
  BY <1>2, <1>3, TypeCorrect, PTL DEF Spec, ClaimsKept
-----------------------------------------------------------------------------
(* The counter of the board in the file is past every id. *)
IdsBelow == \A t \in DOMAIN file.tasks : t < file.nextId

(* A batch deletes what its input says and creates from the counter on. *)
LEMMA WriteIds ==
  ASSUME TypeOK, BoardInv, NEW s \in Stores, NEW actor \in Actors, NEW input \in Inputs,
         Write(s, actor, input)
  PROVE  /\ DOMAIN file.tasks \ DOMAIN file.tasks' \subseteq input.deletes
         /\ last' = Op("write", actor, input.deletes)
         /\ file'.nextId \in Nat /\ file'.nextId >= file.nextId
         /\ \A t \in DOMAIN file.tasks' \ DOMAIN file.tasks :
              t \in file.nextId .. file'.nextId - 1
<1> DEFINE edits == input.edits
           edit == ById(file, edits)
           result == Applied(file.tasks, input.deletes, edit, actor)
           nextId == file.nextId + Created(edits)
<1>1. view[s] = file
  BY DEF Write, BoardInv, ViewFresh
<1>2. /\ file' = [nextId |-> nextId, tasks |-> result]
      /\ last' = Op("write", actor, input.deletes)
      /\ \A i \in DOMAIN edits : "id" \in DOMAIN edits[i] => edits[i].id \in DOMAIN file.tasks
  BY <1>1 DEF Write, Commit
<1>3. file.nextId \in Nat
  BY BoundsAssumption DEF TypeOK, IsBoard
<1>4. /\ Created(edits) \in Nat
      /\ \A i \in DOMAIN edits : "id" \notin DOMAIN edits[i] =>
           IdOf(file, edits, i) \in file.nextId .. nextId - 1
  BY <1>3, DrawnIds
<1>5. DOMAIN result = (DOMAIN file.tasks \ input.deletes) \cup DOMAIN edit
  BY DEF Applied
<1>6. \A t \in DOMAIN edit : t \in DOMAIN file.tasks \/ t \in file.nextId .. nextId - 1
  <2>1. \A t \in DOMAIN edit : \E i \in DOMAIN edits : t = IdOf(file, edits, i)
    BY DEF ById, EditedIds
  <2>2. \A i \in DOMAIN edits :
          "id" \in DOMAIN edits[i] => IdOf(file, edits, i) \in DOMAIN file.tasks
    BY <1>2 DEF IdOf
  <2> QED
    BY <1>4, <2>1, <2>2
<1>7. file'.nextId = nextId /\ file'.tasks = result
  BY <1>2
<1> HIDE DEF edit, result
<1> QED
  BY <1>2, <1>3, <1>4, <1>5, <1>6, <1>7

(* The counter stays past every id. *)
LEMMA IdsStep ==
  ASSUME TypeOK, BoardInv, IdsBelow, [Next]_vars
  PROVE  IdsBelow'
<1>1. ASSUME NEW s \in Stores, Begin(s) \/ Abandon(s) PROVE IdsBelow'
  BY <1>1 DEF Begin, Abandon, IdsBelow
<1>2. ASSUME NEW s \in Stores, NEW actor \in Actors, NEW input \in Inputs,
             Write(s, actor, input)
      PROVE  IdsBelow'
  <2>1. /\ file'.nextId \in Nat /\ file'.nextId >= file.nextId
        /\ \A t \in DOMAIN file.tasks' \ DOMAIN file.tasks :
             t \in file.nextId .. file'.nextId - 1
    BY <1>2, WriteIds
  <2>2. DOMAIN file.tasks \subseteq Nat /\ file.nextId \in Nat
    BY BoundsAssumption DEF TypeOK, IsBoard, Ids
  <2> QED
    BY <2>1, <2>2 DEF IdsBelow
<1>3. ASSUME NEW s \in Stores, NEW owner \in Teammates, ReleaseOwner(s, owner)
      PROVE  IdsBelow'
  <2>1. view[s] = file
    BY <1>3 DEF ReleaseOwner, BoardInv, ViewFresh
  <2>2. DOMAIN file'.tasks = DOMAIN file.tasks /\ file'.nextId = file.nextId
    BY <1>3, <2>1 DEF ReleaseOwner, Commit, Released
  <2> QED
    BY <2>2 DEF IdsBelow
<1>4. ASSUME NEW s \in Stores, InitEmpty(s) PROVE IdsBelow'
  BY <1>4 DEF InitEmpty, Commit, EmptyBoard, IdsBelow
<1>5. CASE UNCHANGED vars
  BY <1>5 DEF vars, IdsBelow
<1> QED
  BY <1>1, <1>2, <1>3, <1>4, <1>5 DEF Next

(* No mutation of one store overwrites another store's: a task leaves the  *)
(* board only by its deletion or with the whole board, and an id that was  *)
(* given is not given again.                                               *)
THEOREM NoTaskIsLost == Spec => NoLostTask
<1> DEFINE Kept == last'.kind # "init" =>
                     /\ DOMAIN file.tasks \ DOMAIN file.tasks' \subseteq last'.deletes
                     /\ \A t \in DOMAIN file.tasks' \ DOMAIN file.tasks : t >= file.nextId
                     /\ file'.nextId >= file.nextId
<1>1. TypeOK /\ BoardInv /\ [Next]_vars => [Kept]_file
  <2> SUFFICES ASSUME TypeOK, BoardInv, [Next]_vars PROVE Kept \/ UNCHANGED file
    OBVIOUS
  <2>0. file.nextId \in Nat
    BY BoundsAssumption DEF TypeOK, IsBoard
  <2>1. ASSUME NEW s \in Stores, NEW actor \in Actors, NEW input \in Inputs,
               Write(s, actor, input)
        PROVE  Kept
    <3>1. last'.deletes = input.deletes
      BY <2>1, WriteIds DEF Op
    <3> QED
      BY <2>0, <2>1, <3>1, WriteIds
  <2>2. ASSUME NEW s \in Stores, NEW owner \in Teammates, ReleaseOwner(s, owner)
        PROVE  Kept
    <3>1. view[s] = file
      BY <2>2 DEF ReleaseOwner, BoardInv, ViewFresh
    <3>2. DOMAIN file'.tasks = DOMAIN file.tasks /\ file'.nextId = file.nextId
      BY <2>2, <3>1 DEF ReleaseOwner, Commit, Released
    <3> QED
      BY <2>0, <3>2
  <2>3. ASSUME NEW s \in Stores, InitEmpty(s) PROVE Kept
    BY <2>3 DEF InitEmpty, Commit, Op
  <2>4. ASSUME NEW s \in Stores, Begin(s) \/ Abandon(s) PROVE UNCHANGED file
    BY <2>4 DEF Begin, Abandon
  <2>5. UNCHANGED vars => UNCHANGED file
    BY DEF vars
  <2> HIDE DEF Kept
  <2> QED
    BY <2>1, <2>2, <2>3, <2>4, <2>5 DEF Next
<1>2. Spec => []BoardInv
  BY BoardInit, BoardStep, PTL DEF Spec
<1> QED
  BY <1>1, <1>2, TypeCorrect, PTL DEF Spec, NoLostTask
-----------------------------------------------------------------------------
(* A family of subsets of a finite set has a smallest member: what takes   *)
(* the place of an induction over the set.                                 *)
LEMMA SmallestSubset ==
  ASSUME NEW D, IsFiniteSet(D), NEW Family, Family \subseteq SUBSET D, Family # {}
  PROVE  \E T \in Family : \A U \in Family : U \subseteq T => U = T
<1>1. Family \subseteq FiniteSubsetsOf(D)
  BY FS_Subset DEF FiniteSubsetsOf
<1>2. PICK T \in Family : \A U \in Family : <<U, T>> \notin StrictSubsetOrdering(D)
  BY <1>1, FS_StrictSubsetOrderingWellFounded, WFMin
<1>3. ASSUME NEW U \in Family, U \subseteq T, U # T PROVE FALSE
  BY <1>2, <1>3 DEF StrictSubsetOrdering
<1> QED
  BY <1>3

(* The tasks of T can be numbered along their links. *)
Numbering(tasks, T) ==
  {rank \in [T -> 1..Cardinality(T)] :
     \A t \in T : \A u \in tasks[t].blocks \cap T : rank[t] < rank[u]}

(* Tasks without a cycle of links can be numbered: a smallest set of them  *)
(* that could not would have a task that blocks none of the set, which     *)
(* comes last after a numbering of the others.                             *)
LEMMA AcyclicNumbered ==
  ASSUME NEW tasks, IsFiniteSet(DOMAIN tasks), Acyclic(tasks)
  PROVE  Numbering(tasks, DOMAIN tasks) # {}
<1> DEFINE Bad == {T \in SUBSET DOMAIN tasks : Numbering(tasks, T) = {}}
<1> SUFFICES ASSUME Bad # {} PROVE FALSE
  OBVIOUS
<1>1. PICK T \in Bad : \A U \in Bad : U \subseteq T => U = T
  <2> HIDE DEF Bad
  <2>1. Bad \subseteq SUBSET DOMAIN tasks
    BY DEF Bad
  <2> QED
    BY <2>1, SmallestSubset
<1>2. IsFiniteSet(T) /\ Cardinality(T) \in Nat
  BY FS_Subset, FS_CardinalityType
<1>3. T # {}
  <2>1. <<>> \in Numbering(tasks, {})
    BY FS_EmptySet DEF Numbering
  <2> QED
    BY <2>1
<1>4. PICK t \in T : tasks[t].blocks \cap T = {}
  BY <1>3 DEF Acyclic
<1> DEFINE others == T \ {t}
<1>5. IsFiniteSet(others) /\ Cardinality(others) = Cardinality(T) - 1 /\ Cardinality(others) \in Nat
  BY <1>2, FS_RemoveElement, FS_CardinalityType
<1>6. PICK rank : rank \in Numbering(tasks, others)
  <2>1. others \notin Bad
    BY <1>1
  <2> QED
    BY <2>1
<1> DEFINE extended == [u \in T |-> IF u = t THEN Cardinality(T) ELSE rank[u]]
<1>7. /\ rank \in [others -> 1..Cardinality(others)]
      /\ \A u \in others : \A w \in tasks[u].blocks \cap others : rank[u] < rank[w]
  BY <1>6 DEF Numbering
<1>8. \A u \in others : rank[u] \in 1..Cardinality(T) - 1 /\ extended[u] = rank[u]
  BY <1>5, <1>7
<1>9. extended[t] = Cardinality(T) /\ Cardinality(T) >= 1
  <2>1. extended[t] = Cardinality(T)
    OBVIOUS
  <2>2. Cardinality(T) >= 1
    BY <1>2, <1>5, SMT
  <2> QED
    BY <2>1, <2>2
<1>10. extended \in [T -> 1..Cardinality(T)]
  BY <1>2, <1>8, <1>9
<1>11. ASSUME NEW u \in T, NEW w \in tasks[u].blocks \cap T
       PROVE  extended[u] < extended[w]
  <2>1. u \in others
    BY <1>4, <1>11
  <2>2. CASE w = t
    BY <1>2, <1>8, <1>9, <2>1, <2>2
  <2>3. CASE w \in others
    BY <1>7, <1>8, <2>1, <2>3
  <2> QED
    BY <2>2, <2>3
<1>12. extended \in Numbering(tasks, T)
  <2> HIDE DEF extended
  <2> QED
    BY <1>10, <1>11 DEF Numbering
<1> QED
  BY <1>12

(* Every board in the file can be loaded again, by every store: its links  *)
(* are reciprocal, between its tasks and without a cycle, and the next id  *)
(* is past every task.                                                     *)
THEOREM BoardAlwaysLoads == Spec => []BoardLoads
<1>1. TypeOK /\ BoardInv /\ IdsBelow => BoardLoads
  <2> SUFFICES ASSUME TypeOK, BoardInv, IdsBelow PROVE BoardLoads
    OBVIOUS
  <2> DEFINE tasks == file.tasks
  <2>1. /\ DOMAIN tasks \subseteq Ids
        /\ \A t \in DOMAIN tasks : tasks[t] \in Task
    BY DEF TypeOK, IsBoard
  <2>2. Consistent(tasks)
    BY DEF BoardInv, Sound
  <2>3. IsFiniteSet(DOMAIN tasks) /\ Cardinality(DOMAIN tasks) \in 0..MaxId
    <3>1. IsFiniteSet(Ids) /\ Cardinality(Ids) = MaxId
      BY BoundsAssumption, FS_Interval DEF Ids
    <3> QED
      BY <2>1, <3>1, FS_Subset, FS_CardinalityType
  <2>4. PICK rank : rank \in Numbering(tasks, DOMAIN tasks)
    <3>1. Acyclic(tasks)
      BY <2>2 DEF Consistent
    <3> HIDE DEF tasks
    <3> QED
      BY <2>3, <3>1, AcyclicNumbered
  <2> HIDE DEF tasks
  <2>5. \A t \in DOMAIN tasks : tasks[t].blocks \cup tasks[t].blockedBy \subseteq DOMAIN tasks
    BY <2>2 DEF Consistent
  <2>6. \A t \in DOMAIN tasks : \A u \in DOMAIN tasks :
          u \in tasks[t].blocks <=> t \in tasks[u].blockedBy
    BY <2>2 DEF Consistent
  <2>7. /\ rank \in [DOMAIN tasks -> Ids]
        /\ \A t \in DOMAIN tasks : \A u \in tasks[t].blocks : rank[t] < rank[u]
    <3>1. /\ rank \in [DOMAIN tasks -> 1..Cardinality(DOMAIN tasks)]
          /\ \A t \in DOMAIN tasks : \A u \in tasks[t].blocks \cap DOMAIN tasks :
               rank[t] < rank[u]
      BY <2>4 DEF Numbering
    <3>2. \A t \in DOMAIN tasks : rank[t] \in Ids
      BY <2>3, <3>1, BoundsAssumption DEF Ids
    <3> QED
      BY <2>5, <3>1, <3>2
  <2>8. \A t \in DOMAIN tasks : t < file.nextId
    BY DEF IdsBelow, tasks
  <2> QED
    BY <2>5, <2>6, <2>7, <2>8 DEF BoardLoads, tasks
<1>2. Init => IdsBelow
  BY DEF Init, EmptyBoard, IdsBelow
<1> QED
  BY <1>1, <1>2, IdsStep, BoardInit, BoardStep, TypeCorrect, PTL DEF Spec
=============================================================================
