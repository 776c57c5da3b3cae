---------------------------- MODULE TeamLifecycle ----------------------------
(***************************************************************************)
(* The teammates of one team (teams/index.ts): a name is reserved, a       *)
(* runtime is started for it, works, has its plan reviewed, waits for      *)
(* mail, and ends: by a shutdown request, a failure, a stop, the deletion  *)
(* of the team or the death of the process.  A step is what runs between   *)
(* two awaits; the mailboxes and the task board, which have modules of     *)
(* their own, are the unread messages in order and the owners of tasks.    *)
(* The name registry, which nothing reads, and what the roster shows of a  *)
(* teammate's progress are left out, and so are the modes of the leader.   *)
(***************************************************************************)
EXTENDS Naturals, Sequences, SequencesExt, FiniteSets, Subsequences

CONSTANTS
  Names,        \* names of teammates
  Tasks,        \* tasks of the board
  Nobody,       \* the owner of a task that has none
  MaxRetained,  \* MAX_RETAINED_TERMINATED_MEMBERS
  MaxPlans,     \* bound: plans submitted
  MaxEvents     \* bound: reservations, messages, stops and deletions

ASSUME NobodyAssumption == Nobody \notin Names
ASSUME BoundsAssumption ==
  \A bound \in {MaxRetained, MaxPlans, MaxEvents} : bound \in Nat

VARIABLES
  coordinator,  \* requiresLeaderPlanApproval, fixed with the team
  roster,       \* members of the team by name
  order,        \* their names in the order of the map
  box,          \* unread messages of each name's mailbox, on disk
  owner,        \* owner of each task
  started,      \* tasks in progress
  finished,     \* tasks completed
  deleting,     \* a deletion waits for the teammates to end
  reader,       \* the teammate that has read its mail and not yet put back the rest
  held,         \* that rest, in the memory of the process
  plans,        \* plans submitted so far
  events,       \* what MaxEvents bounds
  sent,         \* history: messages accepted for each name
  heard,        \* history: messages each name was prompted with
  lost,         \* history: messages each name read and could not put back
  verdicts,     \* history: the leader's decisions, plan and answer
  lives,        \* history: runtimes of each name: started, reported, dead with the process
  orphaned      \* history: names given up with their work, or whose release failed

board == <<owner, started, finished>>
reading == <<reader, held>>
history == <<sent, heard, lost, verdicts, lives, orphaned>>
vars == <<coordinator, roster, order, box, board, deleting, reading, plans, events, history>>

Text(i) == [kind |-> "text", id |-> i]
Shutdown == [kind |-> "shutdown", id |-> 0]
Answer(plan, yes) == [kind |-> IF yes THEN "approve" ELSE "reject", id |-> plan]
Answers == {"approve", "reject"}
IsText(m) == m.kind = "text"
TextPlaces(messages) == {i \in DOMAIN messages : IsText(messages[i])}
TextsOf(messages) == Selected(messages, TextPlaces(messages))
OthersOf(messages) == Selected(messages, DOMAIN messages \ TextPlaces(messages))
Ids(messages) == [i \in DOMAIN messages |-> messages[i].id]
Texts(messages) == Ids(TextsOf(messages))

Member == [at : {"reserved", "working", "planning", "idle", "leaving", "ended"},
           active : BOOLEAN, aborted : BOOLEAN, stopping : BOOLEAN,
           mode : {"plan", "exec"}, approval : BOOLEAN,
           pending : 0..MaxPlans, responded : BOOLEAN, plan : 0..MaxPlans]
(* createMember and hydrateMember. *)
Reserved == [at |-> "reserved", active |-> FALSE, aborted |-> FALSE, stopping |-> FALSE,
             mode |-> "exec", approval |-> FALSE,
             pending |-> 0, responded |-> FALSE, plan |-> 0]
Hydrated == [Reserved EXCEPT !.at = "ended"]

Members == DOMAIN roster
At(n, places) == n \in Members /\ roster[n].at \in places
Live(n) == At(n, {"working", "planning", "idle", "leaving"})
Signalled(n) == ~roster[n].active \/ roster[n].aborted
Unfinished == Tasks \ finished
Owned(n) == {t \in Unfinished : owner[t] = n}

MemberTypes == Members \subseteq Names /\ \A n \in Members : roster[n] \in Member
BoardTypes ==
  /\ owner \in [Tasks -> Names \cup {Nobody}]
  /\ started \subseteq Tasks /\ finished \subseteq Tasks /\ started \cap finished = {}
TypeOK ==
  /\ coordinator \in BOOLEAN /\ deleting \in BOOLEAN /\ reader \in Names \cup {Nobody}
  /\ MemberTypes /\ BoardTypes
  /\ ToSet(order) = Members /\ Len(order) = Cardinality(Members)
  /\ Cardinality({n \in Members : roster[n].at = "ended"}) <= MaxRetained
  /\ \A n \in Names : \A i \in DOMAIN box[n] :
       box[n][i] \in [kind : {"text", "shutdown"} \cup Answers, id : Nat]
  /\ plans \in 0..MaxPlans /\ events \in 0..MaxEvents

Empty == [n \in Names |-> <<>>]
NothingLost == [n \in Names |-> {}]
NoLives == [n \in Names |-> [started |-> 0, reported |-> 0, dead |-> 0]]

Init ==
  /\ coordinator \in BOOLEAN
  /\ roster = <<>> /\ order = <<>> /\ deleting = FALSE
  /\ reader = Nobody /\ held = <<>>
  /\ box = Empty /\ owner = [t \in Tasks |-> Nobody] /\ started = {} /\ finished = {}
  /\ plans = 0 /\ events = 0
  /\ sent = [n \in Names |-> 0] /\ heard = Empty /\ lost = NothingLost /\ verdicts = {}
  /\ lives = NoLives /\ orphaned = {}

Event == events < MaxEvents /\ events' = events + 1

(* ------------------------------ task board ------------------------------ *)

(* The names of which a release fails: the failure is logged, no more. *)
Unreleased(names) == SUBSET {n \in names : Owned(n) # {}}

(* Mutant: work that was begun is kept. *)
Release_Pending(names) ==
  \E failed \in Unreleased(names) :
    LET freed == UNION {Owned(n) \ started : n \in names \ failed}
    IN /\ owner' = [t \in Tasks |-> IF t \in freed THEN Nobody ELSE owner[t]]
       /\ orphaned' = (orphaned \ names) \cup failed
       /\ UNCHANGED <<started, finished>>
(* releaseMemberTasks of these names. *)
Release(names) ==
  \E failed \in Unreleased(names) :
    LET freed == UNION {Owned(n) : n \in names \ failed}
    IN /\ owner' = [t \in Tasks |-> IF t \in freed THEN Nobody ELSE owner[t]]
       /\ started' = started \ freed
       /\ orphaned' = (orphaned \ names) \cup failed
       /\ UNCHANGED finished

(* pruneTerminatedMembers: the oldest members that have ended go. *)
Old(table) ==
  LET Ended(n) == table[n].at = "ended"
      EndedUpTo(i) == Cardinality({j \in 1..i : Ended(order[j])})
  IN {n \in Members :
        /\ Ended(n)
        /\ \E i \in DOMAIN order :
             order[i] = n /\ EndedUpTo(i) + MaxRetained <= EndedUpTo(Len(order))}
(* Map.delete of these names. *)
Without(names) == Selected(order, {i \in DOMAIN order : order[i] \notin names})
Prune(table) ==
  /\ roster' = [n \in Members \ Old(table) |-> table[n]]
  /\ order' = Without(Old(table))

(* ------------------------------- the leader ----------------------------- *)

(* addMember, for a call of the Agent tool: the name is free. *)
Reserve(n) ==
  /\ Event /\ ~deleting /\ n \notin Members
  /\ roster' = [m \in Members \cup {n} |-> IF m = n THEN Reserved ELSE roster[m]]
  /\ order' = Append(order, n)
  /\ orphaned' = orphaned \ {n}
  /\ UNCHANGED <<coordinator, box, board, deleting, reading, plans,
                 sent, heard, lost, verdicts, lives>>

(* The worktree could not be created: removeMember. *)
Abandon(n) ==
  /\ At(n, {"reserved"})
  /\ roster' = [m \in Members \ {n} |-> roster[m]]
  /\ order' = Without({n})
  /\ orphaned' = orphaned \cup {n}
  /\ UNCHANGED <<coordinator, box, board, deleting, reading, plans, events,
                 sent, heard, lost, verdicts, lives>>

(* spawnTeammate: also after the members have been stopped meanwhile. *)
Spawn(n, mode, approval) ==
  /\ At(n, {"reserved"}) /\ (approval => mode = "plan")
  /\ roster' = [roster EXCEPT ![n] =
                 [Reserved EXCEPT !.at = "working", !.active = TRUE,
                                  !.mode = mode, !.approval = approval]]
  /\ lives' = [lives EXCEPT ![n].started = @ + 1]
  /\ UNCHANGED <<coordinator, order, box, board, deleting, reading, plans, events,
                 sent, heard, lost, verdicts, orphaned>>

(* Mutant: any member of the team. *)
Open_Always(n) == n \in Members
(* Whom a message or a task may be given: not to a teammate that has ended. *)
Open(n) == n \in Members /\ (roster[n].active \/ roster[n].at = "reserved")

Accept(n) ==
  /\ Event /\ Open(n)
  /\ sent' = [sent EXCEPT ![n] = @ + 1]
  /\ box' = [box EXCEPT ![n] = Append(@, Text(sent'[n]))]
  /\ UNCHANGED <<coordinator, roster, order, finished, deleting, reading, plans,
                 heard, lost, verdicts, lives, orphaned>>

(* sendMessage, of the leader or of another teammate. *)
SendMessage(n) == Accept(n) /\ UNCHANGED <<owner, started>>

(* TodoWrite of the leader with an owner, who is told. *)
Assign(t, n) ==
  /\ t \in Unfinished /\ owner[t] # n
  /\ owner' = [owner EXCEPT ![t] = n]
  /\ Accept(n) /\ UNCHANGED started

(* A shutdown request, which is sent to any member. *)
SendShutdown(n) ==
  /\ Event /\ n \in Members
  /\ box' = [box EXCEPT ![n] = Append(@, Shutdown)]
  /\ UNCHANGED <<coordinator, roster, order, board, deleting, reading, plans, history>>

(* respondToPlan. *)
RespondToPlan(n, yes) ==
  /\ coordinator /\ n \in Members /\ ~Signalled(n)
  /\ roster[n].pending # 0 /\ ~roster[n].responded
  /\ box' = [box EXCEPT ![n] = Append(@, Answer(roster[n].pending, yes))]
  /\ roster' = [roster EXCEPT ![n].responded = TRUE]
  /\ verdicts' = verdicts \cup {Answer(roster[n].pending, yes)}
  /\ UNCHANGED <<coordinator, order, board, deleting, reading, plans, events,
                 sent, heard, lost, lives, orphaned>>

(* ------------------------------- a teammate ----------------------------- *)

(* Only one task is in progress at a time. *)
Claim(n, t) ==
  /\ At(n, {"working"}) /\ t \in Unfinished /\ owner[t] \in {n, Nobody}
  /\ Owned(n) \cap started = {}
  /\ owner' = [owner EXCEPT ![t] = n] /\ started' = started \cup {t}
  /\ UNCHANGED <<coordinator, roster, order, box, finished, deleting, reading, plans, events,
                 history>>

Complete(n, t) ==
  /\ At(n, {"working"}) /\ t \in Owned(n) \cap started
  /\ finished' = finished \cup {t} /\ started' = started \ {t}
  /\ UNCHANGED <<coordinator, roster, order, box, owner, deleting, reading, plans, events,
                 history>>

Submitted(member) == [member EXCEPT !.pending = plans', !.plan = plans', !.responded = FALSE,
                                    !.approval = coordinator \/ @]

(* submitPlan, by the ExitPlanMode tool. *)
SubmitPlan(n) ==
  /\ At(n, {"working"}) /\ ~Signalled(n)
  /\ roster[n].mode = "plan" /\ roster[n].pending = 0
  /\ plans < MaxPlans /\ plans' = plans + 1
  /\ roster' = [roster EXCEPT ![n] = Submitted(@)]
  /\ UNCHANGED <<coordinator, order, box, board, deleting, reading, events, history>>

Leave(n) ==
  roster' = [roster EXCEPT ![n].at = "leaving", ![n].active = FALSE, ![n].pending = 0]

(* The prompt of the next run: the messages the teammate takes are its own. *)
Prompt(n, taken) == heard' = [heard EXCEPT ![n] = @ \o Ids(taken)]

(* resumeAfterPlanReview: the review is read with the texts that wait. *)
Resumed(n, member, rest) ==
  /\ roster' = [roster EXCEPT ![n] = [member EXCEPT !.at = "working", !.pending = 0]]
  /\ Prompt(n, TextsOf(rest))
  /\ box' = [box EXCEPT ![n] = OthersOf(rest)]

Approved(member) == [member EXCEPT !.mode = "exec", !.approval = FALSE]
PlanDue(member) == member.mode = "plan" /\ (member.approval \/ member.pending # 0)

(* A run of the agent ends.  A plan that is due is submitted, and reviewed *)
(* by the leader or approved at once; otherwise the teammate waits.        *)
RunEnds(n) ==
  /\ At(n, {"working"})
  /\ IF Signalled(n) THEN Leave(n) /\ UNCHANGED <<box, plans, heard>>
     ELSE IF ~PlanDue(roster[n])
          THEN /\ roster' = [roster EXCEPT ![n].at = "idle"]
               /\ UNCHANGED <<box, plans, heard>>
          ELSE /\ plans' = IF roster[n].pending = 0 THEN plans + 1 ELSE plans
               /\ plans' <= MaxPlans
               /\ LET member == IF roster[n].pending = 0 THEN Submitted(roster[n])
                                ELSE roster[n]
                  IN IF coordinator
                     THEN /\ roster' = [roster EXCEPT ![n] = [member EXCEPT !.at = "planning"]]
                          /\ UNCHANGED <<box, heard>>
                     ELSE Resumed(n, Approved(member), box[n])
  /\ UNCHANGED <<coordinator, order, board, deleting, reading, events,
                 sent, lost, verdicts, lives, orphaned>>

(* The run fails, or is cut short by a stop. *)
RunFails(n) ==
  /\ At(n, {"working"}) /\ Leave(n)
  /\ UNCHANGED <<coordinator, order, box, board, deleting, reading, plans, events, history>>

(* Mutant: what was read with a shutdown request is not put back. *)
LeftByShutdown_Drops(messages) == <<>>
(* The request is taken, the other messages are put back. *)
LeftByShutdown(messages) ==
  LET Request(i) == messages[i] = Shutdown /\ \A j \in 1..(i - 1) : messages[j] # Shutdown
  IN Selected(messages, {i \in DOMAIN messages : ~Request(i)})

Asked(messages) == \E i \in DOMAIN messages : messages[i] = Shutdown

(* waitForNextPromptOrShutdown: everything unread is read and marked so. *)
Poll(n) ==
  /\ At(n, {"idle"})
  /\ IF Signalled(n) THEN Leave(n) /\ UNCHANGED <<box, reading, heard>>
     ELSE /\ box[n] # <<>>
          /\ box' = [box EXCEPT ![n] = <<>>]
          /\ IF Asked(box[n])
             THEN /\ reader' = n /\ held' = LeftByShutdown(box[n])
                  /\ UNCHANGED <<roster, heard>>
             ELSE /\ Prompt(n, TextsOf(box[n]))
                  /\ roster' = [roster EXCEPT ![n].at = "working"]
                  /\ UNCHANGED reading
  /\ UNCHANGED <<coordinator, order, board, deleting, plans, events,
                 sent, lost, verdicts, lives, orphaned>>

(* Read and not put back, neither now nor by anyone later. *)
LostNow(n) == IF n = reader THEN ToSet(Texts(held)) ELSE {}
Forget == lost' = [n \in Names |-> lost[n] \cup LostNow(n)]

(* requeue, a write of its own, in the same turn of the event loop as the *)
(* read: it may throw, and the loop ends either way.                      *)
Requeue ==
  /\ reader # Nobody /\ Leave(reader)
  /\ \/ box' = [box EXCEPT ![reader] = @ \o held] /\ UNCHANGED lost
     \/ Forget /\ UNCHANGED box
  /\ reader' = Nobody /\ held' = <<>>
  /\ UNCHANGED <<coordinator, order, board, deleting, plans, events,
                 sent, heard, verdicts, lives, orphaned>>

(* Mutant: any answer decides about the plan. *)
Decides_Any(member, m) == m.kind \in Answers
(* Mutant: only an approval is looked for. *)
Decides_Approvals(member, m) == m.kind = "approve" /\ m.id = member.pending
Decides(member, m) == m.kind \in Answers /\ m.id = member.pending

(* runPlanApproval waits for the leader: only requests and answers are read. *)
Review(n) ==
  /\ At(n, {"planning"})
  /\ IF Signalled(n) THEN Leave(n) /\ UNCHANGED <<box, heard>>
     ELSE LET taken == OthersOf(box[n])
              rest == TextsOf(box[n])
              answers ==
                Selected(taken, {i \in DOMAIN taken : Decides(roster[n], taken[i])})
          IN /\ taken # <<>>
             /\ IF Asked(taken)
                THEN /\ Leave(n) /\ box' = [box EXCEPT ![n] = rest] /\ UNCHANGED heard
                ELSE IF answers = <<>>
                THEN /\ box' = [box EXCEPT ![n] = rest] /\ UNCHANGED <<roster, heard>>
                ELSE Resumed(n, IF answers[1].kind = "approve" THEN Approved(roster[n])
                                ELSE roster[n], rest)
  /\ UNCHANGED <<coordinator, order, board, deleting, reading, plans, events,
                 sent, lost, verdicts, lives, orphaned>>

(* A read of the mailbox throws while the teammate waits: the first one, or *)
(* the one of the texts after the leader's answer has been taken.           *)
ReadFails(n) ==
  /\ At(n, {"idle", "planning"}) /\ Leave(n)
  /\ \/ UNCHANGED box
     \/ At(n, {"planning"}) /\ box' = [box EXCEPT ![n] = TextsOf(@)]
  /\ UNCHANGED <<coordinator, order, board, deleting, reading, plans, events, history>>

(* The cleanup of the role has settled: tasks are released, the leader is *)
(* told, and the member is kept as one that has ended.  The releases after *)
(* a stop, which follow each other with nothing between, are one.          *)
Finish(n) ==
  /\ At(n, {"leaving"})
  /\ Release({n})
  /\ lives' = [lives EXCEPT ![n].reported = @ + 1]
  /\ Prune([roster EXCEPT ![n] = Hydrated])
  /\ UNCHANGED <<coordinator, box, deleting, reading, plans, events,
                 sent, heard, lost, verdicts>>

(* ------------------------------ stops and deaths ------------------------ *)

(* Mutant: the signal is not raised. *)
Stopped_NoSignal(member) == [member EXCEPT !.stopping = TRUE]

(* stopOne: a teammate is deactivated and told to end; of one that does not *)
(* run the tasks are released at once.                                      *)
Stopped(member) ==
  [member EXCEPT !.stopping = TRUE, !.active = FALSE,
                 !.aborted = member.at \notin {"reserved", "ended"}]
StopThese(names) ==
  LET stopped == {n \in names : ~roster[n].stopping}
  IN /\ roster' = [n \in Members |-> IF n \in stopped THEN Stopped(roster[n]) ELSE roster[n]]
     /\ Release({n \in stopped : ~Live(n)})
     /\ UNCHANGED <<coordinator, order, box, reading, plans, sent, heard, lost, verdicts, lives>>

Stop(n) == Event /\ n \in Members /\ StopThese({n}) /\ UNCHANGED deleting
StopAll == Event /\ StopThese(Members) /\ UNCHANGED deleting

(* TeamManager.delete: stops everyone, and waits for them.  The leader calls *)
(* its tools one after another, so no reservation is under way.              *)
Delete ==
  /\ Event /\ ~deleting /\ \A n \in Members : roster[n].at # "reserved"
  /\ StopThese(Members) /\ deleting' = TRUE

(* The directory of the team is removed; the next team starts afresh. *)
Deleted ==
  /\ deleting /\ \A n \in Members : ~Live(n)
  /\ roster' = <<>> /\ order' = <<>> /\ deleting' = FALSE
  /\ box' = Empty /\ owner' = [t \in Tasks |-> Nobody] /\ started' = {} /\ finished' = {}
  /\ sent' = [n \in Names |-> 0] /\ heard' = Empty /\ lost' = NothingLost /\ verdicts' = {}
  /\ lives' = NoLives /\ orphaned' = {}
  /\ UNCHANGED <<coordinator, reading, plans, events>>

(* The process dies, and the next one restores the team: nobody runs, and *)
(* the tasks of the members are released.  What was read and not put back *)
(* dies with the process.                                                 *)
Restart ==
  /\ Release(Members)
  /\ Prune([n \in Members |-> Hydrated])
  /\ lives' = [n \in Names |-> IF Live(n) THEN [lives[n] EXCEPT !.dead = @ + 1] ELSE lives[n]]
  /\ deleting' = FALSE
  /\ Forget /\ reader' = Nobody /\ held' = <<>>
  /\ UNCHANGED <<coordinator, box, plans, events, sent, heard, verdicts>>

(* A step of the event loop: not in the middle of another. *)
Turn ==
  \/ \E n \in Names :
       \/ Reserve(n) \/ Abandon(n) \/ SendMessage(n) \/ SendShutdown(n) \/ Stop(n)
       \/ \E mode \in {"plan", "exec"}, approval \in BOOLEAN : Spawn(n, mode, approval)
       \/ \E yes \in BOOLEAN : RespondToPlan(n, yes)
       \/ \E t \in Tasks : Assign(t, n) \/ Claim(n, t) \/ Complete(n, t)
       \/ SubmitPlan(n) \/ RunEnds(n) \/ RunFails(n) \/ Poll(n) \/ Review(n) \/ ReadFails(n)
       \/ Finish(n)
  \/ StopAll \/ Delete \/ Deleted

Next == (reader = Nobody /\ Turn) \/ Requeue \/ Restart

Spec == Init /\ [][Next]_vars

(* A run of the agent and the cleanup settle, and the poll timer fires. *)
Fairness ==
  \A n \in Names : /\ WF_vars(RunEnds(n) \/ RunFails(n)) /\ WF_vars(Poll(n))
                   /\ WF_vars(Review(n)) /\ WF_vars(Finish(n)) /\ WF_vars(Requeue)
FairSpec == Spec /\ Fairness
-----------------------------------------------------------------------------
(* Work that is not done belongs to nobody or to a teammate that is there   *)
(* to do it or to give it back: every way a teammate ends, of its own, by a *)
(* stop, or with the process, releases what it owned, and nothing can be    *)
(* given to it after that.  (releaseMemberTasks, stopMemberRuntime,         *)
(* TeamManager.get; the exceptions are a reservation that is given up, and  *)
(* a board that could not be written: the tasks stay with the name until it *)
(* is reserved or released again.)                                          *)
NoGhostOwner ==
  \A t \in Unfinished : \/ owner[t] \in {Nobody} \cup orphaned
                        \/ Live(owner[t]) \/ At(owner[t], {"reserved"})

(* The end of a teammate loses nothing but by mishap.  Every message accepted *)
(* for it is read by it once and in the order it was sent, or is still unread: *)
(* also when it is read together with a shutdown request, or waits while a     *)
(* plan is reviewed.  Lost is only what was read with a shutdown request and   *)
(* could not be put back, because the write failed or the process died at that *)
(* point.  The end of each runtime is reported once, whatever ended it, unless *)
(* the process died under it.                                                  *)
(* (waitForNextPromptOrShutdown, runPlanApproval, the finally block of         *)
(* spawnTeammate.)                                                             *)
ToldOnce ==
  \A n \in Names : lives[n].started = lives[n].reported + lives[n].dead
                                      + IF Live(n) THEN 1 ELSE 0
InHand(n) == IF n = reader THEN Texts(held) ELSE <<>>
Accounted(n) == heard[n] \o InHand(n) \o Texts(box[n])
Conserved ==
  /\ TypeOK /\ ToldOnce
  /\ \A n \in Names :
       /\ ToSet(Accounted(n)) = (1..sent[n]) \ lost[n]
       /\ \A i, j \in DOMAIN Accounted(n) : i < j => Accounted(n)[i] < Accounted(n)[j]

(* A teammate whose leader reviews plans executes only the plan it submitted *)
(* last, and only after the leader has approved that plan: not one of an     *)
(* earlier life of the name, nor one that was rejected since.  The leader's  *)
(* decision stays in the mailbox until the teammate that waits for it takes  *)
(* it: no other reader consumes it.  (respondToPlan, runPlanApproval.)       *)
DecisionHeld ==
  \A n \in Members :
    roster[n].pending # 0 =>
      (roster[n].responded <=>
         \E i \in DOMAIN box[n] :
           box[n][i].kind \in Answers /\ box[n][i].id = roster[n].pending)
GateHeld ==
  /\ DecisionHeld
  /\ \A n \in Members :
       coordinator /\ roster[n].mode = "exec" /\ roster[n].plan # 0
         => Answer(roster[n].plan, TRUE) \in verdicts

(* A teammate that was told to stop ends, wherever it waits.  (stopOne.) *)
StopEnds ==
  \A n \in Names : (Live(n) /\ roster[n].stopping) ~> ~Live(n)

(* A message reaches a teammate unless it ends, or waits for the leader to *)
(* answer a plan; once the leader has answered it goes on.                 *)
Reached ==
  \A n \in Names :
    (Live(n) /\ Texts(box[n]) # <<>>)
      ~> \/ ~Live(n) \/ Texts(box[n]) = <<>>
         \/ At(n, {"planning"}) /\ ~roster[n].responded
=============================================================================
