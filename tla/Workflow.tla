------------------------------ MODULE Workflow ------------------------------
(***************************************************************************)
(* One workflow run: a script calls agents in the background, at most      *)
(* Permits of them at work at a time; the journal of their results lets    *)
(* a later launch replay the prefix of calls that has not changed.         *)
(* (workflow/service.ts, run-workflow.ts, hooks.ts, concurrency.ts,        *)
(* journal.ts, persistence.ts, progress.ts.)                               *)
(*                                                                         *)
(* The script is a pipeline: item i makes Length[i] calls one after the    *)
(* other, and the items overlap.  Items of length 1 are parallel(), one    *)
(* item alone is a sequential script.  Results reach the script in the     *)
(* order in which they came: ready is the queue of promise reactions.      *)
(***************************************************************************)
EXTENDS Naturals, FiniteSets, Sequences, Bags

CONSTANTS
  Items,        \* 1..n, in the order the script starts them
  Length,
  Fragile,      \* items whose errors the script may let through
  Unawaited,    \* items whose calls the script does not await
  Permits,      \* maxConcurrency
  Scripts,      \* the sets of calls whose prompt or parameters were edited
  MaxLaunches, MaxFailures, MaxCrashes

Calls == UNION {{i} \X (1..Length[i]) : i \in Items}

ASSUME WorkflowAssumption ==
  /\ Items = 1..Cardinality(Items)
  /\ Length \in [Items -> Nat \ {0}]
  /\ IsFiniteSet(Calls)
  /\ Fragile \subseteq Items /\ Unawaited \subseteq Items \ Fragile
  /\ \A s \in Scripts : s \subseteq Calls
  /\ Permits \in Nat \ {0}
  /\ MaxLaunches \in Nat /\ MaxFailures \in Nat /\ MaxCrashes \in Nat

VARIABLES
  \* files of the run
  journal,    \* the lines of journal.jsonl, a bag: readers sort them
  script,     \* the saved source
  disk,       \* the status in state.json
  \* the service
  phase,      \* where the launch is, "idle" when the run is not active
  closed,     \* shutdown was called
  killed,     \* the controller of the active run was aborted
  status,     \* the status the progress store shows
  \* the engine context of the run
  read,       \* the journal as it was read
  reset,      \* journalReset: none until the run diverges
  cut,        \* the agent id at which it diverged
  made,       \* the calls made, in the order of their agent ids 1, 2, ...
  aborted,    \* the signal of the engine
  available,  \* free permits
  waiters,    \* calls waiting for a permit
  pc,         \* where each call is
  stopped,    \* calls at work whose own controller was aborted
  \* the script
  at,         \* calls each item has made, Length[i] + 1 when it is over
  ready,      \* items that go on, in the order their promises settled
  ending,     \* what the script threw, then what the run ends as
  joined,     \* the calls that were at work when the script returned
  \* calls of runs that are over
  late,       \* the lines they may still append
  loose,      \* history: a run ended with calls at work
  launches, failures, crashes

files == <<journal, script, disk>>
service == <<phase, closed, killed, status>>
agents == <<available, waiters, pc, stopped>>
chains == <<at, ready, ending>>
left == <<joined, late, loose>>
bounds == <<launches, failures, crashes>>
vars == <<files, service, read, reset, cut, made, aborted, agents, chains, left, bounds>>

Final == {"completed", "failed", "killed"}
Engine == {"script", "joining", "draining"}
Live == Engine \cup {"over"}
Working == {"woken", "running", "rerunning", "appendOk", "appendNull"}
InFlight == Working \cup {"reset", "queued"}
Entry == [seq : Nat \ {0}, call : Calls, edited : BOOLEAN, ok : BOOLEAN]
Pending == [seq : Nat \ {0}, call : Calls, edited : BOOLEAN]

(* The calls that hold a permit. *)
Holders == {c \in Calls : pc[c] \in Working}

TypeOK ==
  /\ IsABag(journal) /\ BagToSet(journal) \subseteq Entry /\ read \subseteq Entry
  /\ script \in SUBSET Calls
  /\ disk \in Final \cup {"none", "running"}
  /\ phase \in Engine \cup {"idle", "launching", "saved", "created", "opened", "over"}
  /\ closed \in BOOLEAN /\ killed \in BOOLEAN /\ aborted \in BOOLEAN
  /\ status \in Final \cup {"none"} \cup (IF phase = "idle" THEN {} ELSE {"running"})
  /\ reset \in {"none", "pending", "done", "failed"} /\ cut \in Nat
  /\ made \in Seq(Calls)
  /\ available \in 0..Permits /\ waiters \in Seq(Calls)
  /\ pc \in [Calls -> InFlight \cup {"none", "ok", "null", "failed"}]
  /\ stopped \subseteq Calls
  /\ at \in [Items -> Nat] /\ ready \in Seq(Items)
  /\ ending \in {"none", "aborted", "error", "killed", "failed"}
  /\ joined \subseteq Calls /\ late \subseteq Pending /\ loose \in BOOLEAN
  /\ launches \in Nat /\ failures \in Nat /\ crashes \in Nat

Init ==
  /\ journal = EmptyBag /\ script = {} /\ disk = "none"
  /\ phase = "idle" /\ closed = FALSE /\ killed = FALSE /\ status = "none"
  /\ read = {} /\ reset = "none" /\ cut = 0 /\ made = <<>> /\ aborted = FALSE
  /\ available = Permits /\ waiters = <<>>
  /\ pc = [c \in Calls |-> "none"]
  /\ stopped = {}
  /\ at = [i \in Items |-> 0] /\ ready = <<>> /\ ending = "none"
  /\ joined = {} /\ late = {} /\ loose = FALSE
  /\ launches = 0 /\ failures = 0 /\ crashes = 0

(* The engine context of a run is made for it and dies with it. *)
NoContext ==
  /\ read' = {} /\ reset' = "none" /\ cut' = 0 /\ made' = <<>> /\ aborted' = FALSE
  /\ available' = Permits /\ waiters' = <<>>
  /\ pc' = [c \in Calls |-> "none"]
  /\ stopped' = {} /\ at' = [i \in Items |-> 0] /\ ready' = <<>> /\ ending' = "none"
  /\ joined' = {}

CanFail == failures < MaxFailures /\ failures' = failures + 1
engine == <<read, reset, cut, made, aborted, agents, chains>>
-----------------------------------------------------------------------------
(* launch puts the run among the active ones before its first await; a run *)
(* that is active is refused.                                              *)
Launch ==
  /\ phase = "idle" /\ ~closed /\ launches < MaxLaunches
  /\ phase' = "launching" /\ killed' = FALSE
  /\ launches' = launches + 1
  /\ UNCHANGED <<files, closed, status, engine, failures, crashes, left>>

(* The saved source is used again, or replaced by another. *)
SaveRequest(s) ==
  /\ phase = "launching"
  /\ phase' = "saved"
  /\ script' = s
  /\ UNCHANGED <<journal, disk, closed, killed, status, engine, bounds, left>>

(* The source is bad, the turn was aborted, or the service is closing. *)
LaunchFails ==
  /\ phase \in {"launching", "saved"}
  /\ phase' = "idle"
  /\ UNCHANGED <<files, closed, killed, status, engine, bounds, left>>

Create ==
  /\ phase = "saved" /\ ~killed
  /\ phase' = "created" /\ status' = "running"
  /\ UNCHANGED <<files, closed, killed, engine, bounds, left>>

(* The runner of the task begins by recording the run. *)
Open ==
  /\ phase = "created"
  /\ phase' = "opened" /\ disk' = status
  /\ UNCHANGED <<journal, script, closed, killed, status, engine, bounds, left>>

(* The engine starts with the journal it can replay.  A run that was       *)
(* killed already, or whose journal cannot be read, ends at once.          *)
Start ==
  /\ phase = "opened"
  /\ \/ /\ ~killed
        /\ phase' = "script" /\ read' = BagToSet(journal)
        /\ ready' = [i \in 1..Cardinality(Items) |-> i]
        /\ UNCHANGED <<aborted, ending, failures>>
     \/ /\ \/ killed /\ ending' = "killed" /\ UNCHANGED failures
           \/ ~killed /\ CanFail /\ ending' = "failed"
        /\ phase' = "draining" /\ aborted' = TRUE /\ UNCHANGED <<read, ready>>
  /\ UNCHANGED <<files, closed, killed, status, reset, cut, made, agents, at, launches,
                 crashes, left>>
-----------------------------------------------------------------------------
Item(c) == c[1]
Key(c) == [call |-> c, edited |-> c \in script]
KeyOf(e) == [call |-> e.call, edited |-> e.edited]
Goto(c, step) == pc' = [pc EXCEPT ![c] = step]
Over(i) == Length[i] + 1

(* Which errors of a call the script throws: parallel turns the others     *)
(* into null, and of a call nobody awaits only the join hears, if it was   *)
(* at work when the script returned.                                       *)
Heard(c, error) ==
  IF Item(c) \in Unawaited THEN phase = "joining" /\ c \in joined
  ELSE error = "aborted" \/ Item(c) \in Fragile
Throw(heard, error) == ending' = IF ending = "none" /\ heard THEN error ELSE ending

(* A call fails: the chain of its item ends.  A script that can let an     *)
(* error through may as well catch it.                                     *)
Fails(c, error) ==
  /\ at' = [at EXCEPT ![Item(c)] = Over(Item(c))]
  /\ \/ Throw(Heard(c, error), error)
     \/ error = "error" /\ Item(c) \in Fragile /\ UNCHANGED ending

(* A call returns to the script. *)
Settles(c) == ready' = Append(ready, Item(c)) /\ UNCHANGED <<at, ending>>

NextCall(i) == <<i, at[i] + 1>>
Turn(i) == phase \in Live /\ ready # <<>> /\ Head(ready) = i
Calling(i) == Turn(i) /\ at[i] < Length[i]
Replayable(c) ==
  \E e \in read : e.seq = Len(made) + 1 /\ KeyOf(e) = Key(c) /\ e.ok

CallAborted(i) ==
  /\ Calling(i) /\ aborted
  /\ Goto(NextCall(i), "failed") /\ Fails(NextCall(i), "aborted")
  /\ ready' = Tail(ready)
  /\ UNCHANGED <<files, service, read, reset, cut, made, aborted, available, waiters,
                 stopped, bounds, left>>

(* The call takes the next agent id. *)
Number(i) == made' = Append(made, NextCall(i)) /\ at' = [at EXCEPT ![i] = @ + 1]

Replay(i) ==
  /\ Calling(i) /\ ~aborted /\ reset = "none" /\ Replayable(NextCall(i))
  /\ Number(i) /\ Goto(NextCall(i), "ok")
  /\ ready' = Append(Tail(ready), i)
  /\ UNCHANGED <<files, service, read, reset, cut, aborted, available, waiters, stopped,
                 ending, bounds, left>>

(* Mutant: the rest of the journal stays. *)
Diverge_KeepsJournal(i) ==
  /\ Calling(i) /\ ~aborted /\ reset = "none" /\ read # {} /\ ~Replayable(NextCall(i))
  /\ reset' = "done" /\ cut' = Len(made) + 1
  /\ Number(i) /\ Goto(NextCall(i), "reset") /\ ready' = Tail(ready)
  /\ UNCHANGED <<files, service, read, aborted, available, waiters, stopped, ending,
                 bounds, left>>

(* The first call that does not replay has the journal cut back to what    *)
(* came before it.                                                         *)
Diverge(i) ==
  /\ Calling(i) /\ ~aborted /\ reset = "none" /\ read # {} /\ ~Replayable(NextCall(i))
  /\ reset' = "pending" /\ cut' = Len(made) + 1
  /\ Number(i) /\ Goto(NextCall(i), "reset") /\ ready' = Tail(ready)
  /\ UNCHANGED <<files, service, read, aborted, available, waiters, stopped, ending,
                 bounds, left>>

NewCall(i) ==
  /\ Calling(i) /\ ~aborted /\ (reset # "none" \/ read = {})
  /\ Number(i) /\ Goto(NextCall(i), "reset") /\ ready' = Tail(ready)
  /\ UNCHANGED <<files, service, read, reset, cut, aborted, available, waiters, stopped,
                 ending, bounds, left>>

ItemEnds(i) ==
  /\ Turn(i) /\ at[i] = Length[i]
  /\ at' = [at EXCEPT ![i] = Over(i)] /\ ready' = Tail(ready)
  /\ UNCHANGED <<files, service, read, reset, cut, made, aborted, agents, ending,
                 bounds, left>>

(* The shortened journal is renamed into place, or cannot be written. *)
ResetEnds ==
  /\ phase \in Live /\ reset = "pending"
  /\ \/ /\ reset' = "done" /\ UNCHANGED failures
        /\ journal' = SetToBag({e \in read : e.seq < cut})
     \/ reset' = "failed" /\ CanFail /\ UNCHANGED journal
  /\ UNCHANGED <<script, disk, service, read, cut, made, aborted, agents, chains,
                 launches, crashes, left>>
-----------------------------------------------------------------------------
SeqOf(c) == CHOOSE n \in DOMAIN made : made[n] = c

(* Calls that await the cut of the journal go on in their order. *)
NextAfterReset(c) ==
  /\ pc[c] = "reset" /\ reset # "pending"
  /\ \A d \in Calls : pc[d] = "reset" => SeqOf(c) <= SeqOf(d)

(* Semaphore.acquire *)
Acquire(c) ==
  /\ NextAfterReset(c) /\ reset # "failed" /\ ~aborted
  /\ \/ /\ available > 0
        /\ available' = available - 1 /\ Goto(c, "woken") /\ UNCHANGED waiters
     \/ /\ available = 0
        /\ waiters' = Append(waiters, c) /\ Goto(c, "queued") /\ UNCHANGED available
  /\ UNCHANGED <<files, service, read, reset, cut, made, aborted, stopped, chains,
                 bounds, left>>

AcquireFails(c) ==
  /\ NextAfterReset(c)
  /\ \/ reset = "failed" /\ Fails(c, "error")
     \/ reset # "failed" /\ aborted /\ Fails(c, "aborted")
  /\ Goto(c, "failed")
  /\ UNCHANGED <<files, service, read, reset, cut, made, aborted, available, waiters,
                 stopped, ready, bounds, left>>

(* The permit goes directly to the next waiter; c goes to step. *)
Release(c, step) ==
  IF waiters # <<>>
    THEN /\ pc' = [pc EXCEPT ![c] = step, ![Head(waiters)] = "woken"]
         /\ waiters' = Tail(waiters) /\ UNCHANGED available
    ELSE /\ Goto(c, step)
         /\ available' = available + 1 /\ UNCHANGED waiters

(* The agent starts. *)
Begin(c) ==
  /\ pc[c] = "woken" /\ ~aborted
  /\ Goto(c, "running")
  /\ UNCHANGED <<files, service, read, reset, cut, made, aborted, available, waiters,
                 stopped, chains, bounds, left>>

(* Mutant: the permit of a call aborted before its agent started is lost. *)
Abandon_Leaks(c) ==
  /\ pc[c] \in {"woken", "running", "rerunning"} /\ aborted
  /\ IF pc[c] = "woken" THEN Goto(c, "failed") /\ UNCHANGED <<available, waiters>>
     ELSE Release(c, "failed")
  /\ Fails(c, "aborted") /\ stopped' = stopped \ {c}
  /\ UNCHANGED <<files, service, read, reset, cut, made, aborted, ready, bounds, left>>

(* The run was aborted before the agent started, or before it came back. *)
Abandon(c) ==
  /\ pc[c] \in {"woken", "running", "rerunning"} /\ aborted
  /\ Release(c, "failed") /\ Fails(c, "aborted") /\ stopped' = stopped \ {c}
  /\ UNCHANGED <<files, service, read, reset, cut, made, aborted, ready, bounds, left>>

(* The agent comes back.  One that was stopped is skipped, a dead one is   *)
(* tried once more; both give the script null.                             *)
AgentReturns(c) ==
  /\ pc[c] \in {"running", "rerunning"} /\ ~aborted
  /\ \/ c \notin stopped /\ Goto(c, "appendOk")
     \/ c \notin stopped /\ pc[c] = "running" /\ Goto(c, "rerunning")
     \/ (c \in stopped \/ pc[c] = "rerunning") /\ Goto(c, "appendNull")
  /\ stopped' = stopped \ {c}
  /\ UNCHANGED <<files, service, read, reset, cut, made, aborted, available, waiters, chains,
                 bounds, left>>

Line(c) == [seq |-> SeqOf(c), call |-> c, edited |-> c \in script, ok |-> pc[c] = "appendOk"]

Record(c) ==
  /\ pc[c] \in {"appendOk", "appendNull"}
  /\ journal' = journal (+) SetToBag({Line(c)})
  /\ Release(c, IF pc[c] = "appendOk" THEN "ok" ELSE "null") /\ Settles(c)
  /\ UNCHANGED <<script, disk, service, read, reset, cut, made, aborted, stopped,
                 bounds, left>>

RecordFails(c) ==
  /\ pc[c] \in {"appendOk", "appendNull"} /\ CanFail
  /\ Release(c, "failed") /\ Fails(c, "error")
  /\ UNCHANGED <<files, service, read, reset, cut, made, aborted, stopped, ready,
                 launches, crashes, left>>
-----------------------------------------------------------------------------
(* The signal of the engine is aborted: queued calls fail, agents at work  *)
(* are told.                                                               *)
AbortEngine ==
  LET queued == {c \in Calls : pc[c] = "queued"} IN
  /\ aborted' = TRUE
  /\ pc' = [c \in Calls |-> IF c \in queued THEN "failed" ELSE pc[c]]
  /\ waiters' = <<>>
  /\ at' = [i \in Items |-> IF \E c \in queued : Item(c) = i THEN Over(i) ELSE at[i]]

Kill ==
  /\ phase \in Engine \cup {"created", "opened", "over"} /\ ~killed
  /\ killed' = TRUE
  /\ IF phase \in Engine
       THEN /\ AbortEngine
            /\ Throw(\E c \in Calls : pc[c] = "queued" /\ Heard(c, "aborted"), "aborted")
       ELSE UNCHANGED <<aborted, pc, waiters, at, ending>>

KillRun ==
  /\ Kill
  /\ UNCHANGED <<files, phase, closed, status, read, reset, cut, made, available, stopped,
                 ready, bounds, left>>

(* shutdown stops the run, or the launch when it has no task yet. *)
Shutdown ==
  /\ ~closed /\ closed' = TRUE
  /\ \/ Kill
     \/ /\ phase \in {"launching", "saved"} /\ killed' = TRUE
        /\ UNCHANGED <<aborted, pc, waiters, at, ending>>
     \/ (phase = "idle" \/ killed) /\ UNCHANGED <<killed, aborted, pc, waiters, at, ending>>
  /\ UNCHANGED <<files, phase, status, read, reset, cut, made, available, stopped,
                 ready, bounds, left>>

KillAgent(c) ==
  /\ pc[c] \in {"running", "rerunning"} /\ c \notin stopped
  /\ stopped' = stopped \cup {c}
  /\ UNCHANGED <<files, service, read, reset, cut, made, aborted, available, waiters, pc,
                 chains, bounds, left>>

(* The calls that were at work when the script returned have settled. *)
Joined == phase = "joining" /\ ending = "none" /\ \A c \in joined : pc[c] \notin InFlight

(* Mutant: the agents go on. *)
ScriptThrows_NoAbort ==
  /\ \/ phase \in {"script", "joining"} /\ ending \in {"aborted", "error"}
     \/ Joined /\ aborted
  /\ phase' = "draining"
  /\ ending' = IF ending = "error" /\ ~killed THEN "failed" ELSE "killed"
  /\ UNCHANGED <<files, closed, killed, status, read, reset, cut, made, aborted, agents, at,
                 ready, bounds, left>>

(* The script has thrown, or one of the calls the run joins, or the run    *)
(* was aborted while it joined them: everything at work is aborted.        *)
ScriptThrows ==
  /\ \/ phase \in {"script", "joining"} /\ ending \in {"aborted", "error"}
     \/ Joined /\ aborted
  /\ phase' = "draining"
  /\ ending' = IF ending = "error" /\ ~killed THEN "failed" ELSE "killed"
  /\ AbortEngine
  /\ UNCHANGED <<files, closed, killed, status, read, reset, cut, made, available, stopped,
                 ready, bounds, left>>

(* The calls at work, and those only, are joined. *)
Left == {c \in Calls : pc[c] \in InFlight}
ScriptReturns ==
  /\ phase = "script" /\ ending = "none"
  /\ \A i \in Items : at[i] > 0 /\ (i \notin Unawaited => at[i] = Over(i))
  /\ phase' = "joining" /\ joined' = Left
  /\ UNCHANGED <<files, closed, killed, status, engine, bounds, late, loose>>

(* Mutant: nobody waits for the calls the script did not await. *)
RunDone_NoJoin ==
  /\ \/ phase = "joining" /\ ending = "none" /\ ~aborted /\ status' = "completed"
     \/ phase = "draining" /\ Left = {} /\ status' = ending
  /\ phase' = "over"
  /\ UNCHANGED <<files, closed, killed, engine, bounds, left>>

(* run_done.  A run that was aborted ends with nothing at work, one that   *)
(* completes with the calls it joined settled.                             *)
RunDone ==
  /\ \/ Joined /\ ~aborted /\ status' = "completed"
     \/ phase = "draining" /\ Left = {} /\ status' = ending
  /\ phase' = "over"
  /\ UNCHANGED <<files, closed, killed, engine, bounds, left>>

(* Nothing aborts the calls a completed run leaves at work. *)
Leave ==
  /\ late' = late \cup {[seq |-> SeqOf(c), call |-> c, edited |-> c \in script] : c \in Left}
  /\ loose' = (loose \/ Left # {})

(* The state is written and the run is no longer active. *)
Close ==
  /\ phase = "over" /\ ready = <<>>
  /\ phase' = "idle" /\ disk' = status
  /\ NoContext /\ Leave
  /\ UNCHANGED <<journal, script, closed, killed, status, bounds>>

(* What a failing write does to the run: run_done from the service. *)
Refused == IF killed THEN "killed" ELSE "failed"

(* The second attempt to write the state may fail as well. *)
WriteFails ==
  /\ phase \in {"created", "over"} /\ ready = <<>> /\ CanFail
  /\ phase' = "idle" /\ status' = Refused
  /\ disk' \in {disk, status'}
  /\ NoContext /\ Leave
  /\ UNCHANGED <<journal, script, closed, killed, launches, crashes>>

(* A call of a run that is over comes back and records its result, or      *)
(* cannot.  What its chain calls after it is left out.                     *)
LateLine(l) ==
  /\ l \in late /\ late' = late \ {l}
  /\ \E ok \in BOOLEAN :
       journal' \in {journal, journal (+) SetToBag({[seq |-> l.seq, call |-> l.call,
                                                    edited |-> l.edited, ok |-> ok]})}
  /\ UNCHANGED <<script, disk, service, engine, bounds, joined, loose>>

(* loadPersistedRuns: what was running when the last process ended is over. *)
LoadPersisted ==
  /\ status = "none" /\ disk # "none"
  /\ status' = IF disk = "running" THEN "killed" ELSE disk
  /\ UNCHANGED <<files, phase, closed, killed, engine, bounds, left>>

(* The process ends, or is killed; the next one starts with the files. *)
Crash ==
  /\ crashes < MaxCrashes /\ crashes' = crashes + 1
  /\ phase' = "idle" /\ closed' = FALSE /\ killed' = FALSE /\ status' = "none"
  /\ NoContext /\ late' = {}
  /\ UNCHANGED <<files, launches, failures, loose>>
-----------------------------------------------------------------------------
Continue(i) == CallAborted(i) \/ Replay(i) \/ Diverge(i) \/ NewCall(i) \/ ItemEnds(i)

Next ==
  \/ Launch \/ (\E s \in Scripts : SaveRequest(s)) \/ LaunchFails \/ Create \/ Open
  \/ WriteFails \/ Start
  \/ \E i \in Items : Continue(i)
  \/ ResetEnds
  \/ \E c \in Calls : \/ Acquire(c) \/ AcquireFails(c) \/ Begin(c) \/ Abandon(c)
                      \/ AgentReturns(c) \/ Record(c) \/ RecordFails(c) \/ KillAgent(c)
  \/ KillRun \/ Shutdown \/ ScriptThrows \/ ScriptReturns \/ RunDone \/ Close
  \/ (\E l \in late : LateLine(l)) \/ LoadPersisted \/ Crash

Spec == Init /\ [][Next]_vars

(* The program goes on, and an agent that was aborted comes back.  Others  *)
(* may work for ever.                                                      *)
Fairness ==
  /\ WF_vars(LaunchFails) /\ WF_vars(Open) /\ WF_vars(Start) /\ WF_vars(ResetEnds)
  /\ WF_vars(\E i \in Items : Continue(i))
  /\ \A c \in Calls : /\ WF_vars(Acquire(c) \/ AcquireFails(c)) /\ WF_vars(Begin(c))
                      /\ WF_vars(Abandon(c)) /\ WF_vars(Record(c))
  /\ WF_vars(ScriptThrows) /\ WF_vars(ScriptReturns) /\ WF_vars(RunDone) /\ WF_vars(Close)
FairSpec == Spec /\ Fairness
-----------------------------------------------------------------------------
(* Permits are neither lost nor made by aborts, failures and hand-overs,   *)
(* and nobody waits while one is free: at most Permits agents work at a    *)
(* time, and every permit finds its next user.                             *)
PermitsKept ==
  /\ available + Cardinality(Holders) = Permits
  /\ waiters # <<>> => available = 0

(* A run that has ended has nothing at work that could still write to its  *)
(* journal, however it ended and whatever was in flight: except later      *)
(* calls of a chain that a completed script did not await, which the join  *)
(* misses.                                                                 *)
EndedQuiet ==
  phase \notin Engine =>
    \A c \in Left : /\ phase = "over" /\ status = "completed"
                    /\ Item(c) \in Unawaited /\ c[2] > 1

(* The journal tells the truth about the calls made so far, one entry for  *)
(* each, through edits of the script, crashes, failing writes and runs     *)
(* that end with calls in flight, as long as no run has left calls behind; *)
(* and only scripts with a chain nobody awaits do that.                    *)
JournalSound ==
  LET lines == BagToSet(journal) IN
  /\ TypeOK /\ EndedQuiet
  /\ loose => \E i \in Unawaited : Length[i] > 1
  /\ ~loose => \A e \in lines : journal[e] = 1 /\ \A f \in lines : e.seq = f.seq => e = f
  /\ ~loose /\ phase \in Live /\ reset \in {"none", "done"} =>
       \A e \in lines : e.seq \in DOMAIN made => KeyOf(e) = Key(made[e.seq])

(* A run that was killed, or whose script failed, comes to its end. *)
EndsWhenKilled == killed \/ ending # "none" ~> phase = "idle"
=============================================================================
