------------------------------- MODULE AgentLoop ----------------------------
(***************************************************************************)
(* One session of the terminal and the runs of its agent: the loop of      *)
(* requests and tool calls (agent/index.ts, agent/streaming-executor.ts),  *)
(* the conversation it builds (conversation/), its compaction              *)
(* (compact/compact.ts), the lines it leaves in the session log            *)
(* (session/index.ts), and the texts the user sends while it runs          *)
(* (ui/app.tsx, ui/use-follow-up-queue.ts).  The process may die and be    *)
(* resumed from the log at any point.                                      *)
(*                                                                         *)
(* A write of the log may fail: of what is appended then nothing, a part   *)
(* of a line or all of it is in the file.  A line that was torn swallows   *)
(* the record that is appended after it.                                   *)
(*                                                                         *)
(* A step is what runs between two awaits or yields.  Texts, notes and     *)
(* reminders are numbers given out in order; what they say, the guidance   *)
(* the loop adds for the model at the head of a turn, goals and token      *)
(* counts are left out, and so is the choice of tools: a response says how *)
(* many calls it makes and which of them are safe to run side by side.     *)
(***************************************************************************)
EXTENDS Naturals, Sequences, SequencesExt, FiniteSets, Subsequences

CONSTANTS
  MaxCalls,       \* bound: calls of one response
  MaxTurns,       \* bound: responses with calls
  MaxIterations,  \* maxIterations of the run
  MaxRecoveries,  \* MAX_TOKENS_RECOVERIES
  MaxRetries,     \* MAX_RETRIES of a request that failed for a while
  MinPrefix,      \* MIN_COMPACT_PREFIX
  MaxEvents       \* bound: texts, notes, reminders, interrupts, compactions, failures, deaths

ASSUME BoundsAssumption ==
  \A bound \in {MaxCalls, MaxTurns, MaxIterations, MaxRecoveries, MaxRetries, MinPrefix,
                MaxEvents} : bound \in Nat

VARIABLES
  conv,      \* the messages of the conversation
  log,       \* the records of the session log
  torn,      \* the log ends in a part of a line
  saved,     \* history: which messages of the conversation are in the log
  replaced,  \* history: records for which the conversation has a summary the log lacks
  pc,        \* where the run is, "idle" when there is none
  aborted,   \* abortSignal.aborted of the run
  tries,     \* counters of the run: its turns, recoveries, retries, and whether the
             \* output limit is known to be as high as it can be
  response,  \* the response that was received last
  calls,     \* what became of each of its calls
  at,        \* the call that is prepared next
  turn,      \* number of the last response with calls
  compact,   \* the compaction under way: what it saw and keeps
  hooked,    \* notes hooks have queued
  inbox,     \* notes in the mailbox and in finished tasks, on disk
  held,      \* notes taken out of the inbox and not recorded yet
  steering,  \* steeringQueue of the agent
  followUps, \* texts that wait for the run to end
  sending,   \* the text a run is being prepared for
  counts,    \* what the bounds bound
  recalled,  \* history: texts the user took back
  lost,      \* history: what died with the process
  dropped,   \* history: notes thrown away because a write failed
  failed,    \* history: a write has failed or a death has torn a line
  ran,       \* history: the calls that were started
  broken     \* history: responses whose calls died, or were not recorded with their results

talk == <<conv, log, torn, saved, replaced>>
queues == <<hooked, inbox, held, steering, followUps, sending>>
turnVars == <<response, calls, at, turn>>
history == <<recalled, lost, dropped, failed, ran, broken>>
vars == <<talk, pc, aborted, tries, turnVars, compact, queues, counts, history>>

(* ------------------------------- messages ------------------------------- *)

Numbered(kind, id) == [kind |-> kind, id |-> id]
Text(t) == Numbered("text", t)
Note(n) == Numbered("note", n)
Reminder(r) == Numbered("reminder", r)
Words == Numbered("words", 0)
Resume == Numbered("resume", 0)
Called(id, n) == [kind |-> "calls", id |-> id, n |-> n]
Results(id, outs) == [kind |-> "results", id |-> id, outs |-> outs]
Summary(of) == [kind |-> "summary", of |-> of]
(* Mutant: what is kept is not recorded with the summary. *)
Boundary_NoTail(of, keep) == [kind |-> "boundary", of |-> of, keep |-> <<>>]

Boundary(of, keep) == [kind |-> "boundary", of |-> of, keep |-> keep]

Items(m) ==
  IF m.kind = "summary" THEN m.of
  ELSE IF m.kind \in {"text", "note", "reminder"} THEN {<<m.kind, m.id>>} ELSE {}
Known(messages) == UNION {Items(messages[i]) : i \in DOMAIN messages}

(* rebuildFromSession: the last summary with the messages it kept, and what *)
(* was recorded after it.                                                   *)
rebuildFromSession(records) ==
  LET boundaries == {i \in DOMAIN records : records[i].kind = "boundary"}
      last == CHOOSE i \in boundaries : \A j \in boundaries : j <= i
  IN IF boundaries = {} THEN records
     ELSE <<Summary(records[last].of)>> \o records[last].keep
          \o SubSeq(records, last + 1, Len(records))

(* ensureToolPairing: in a request the results of a response stand right    *)
(* after it in one message.  A call without a result in the messages that   *)
(* follow it at once is told to be interrupted, and a result elsewhere is   *)
(* left out.                                                                *)
Following(messages, i) ==
  {j \in i + 1..Len(messages) : \A k \in i + 1..j : messages[k].kind = "results"}
Told(messages, i, p) ==
  LET of == {j \in Following(messages, i) :
               messages[j].id = messages[i].id /\ p \in DOMAIN messages[j].outs}
  IN IF of = {} THEN "interrupted" ELSE messages[CHOOSE j \in of : TRUE].outs[p]
ensureToolPairing(messages) ==
  LET Paired(i) ==
        CASE messages[i].kind = "calls" ->
               <<messages[i],
                 Results(messages[i].id, [p \in 1..messages[i].n |-> Told(messages, i, p)])>>
          [] messages[i].kind = "results" -> <<>>
          [] OTHER -> <<messages[i]>>
  IN FoldLeft(LAMBDA request, i : request \o Paired(i), <<>>,
              [i \in DOMAIN messages |-> i])

(* backUpPastToolUse: a tail does not start with results whose calls it *)
(* leaves out.                                                          *)
backUpPastToolUse(messages, from) ==
  LET owners == {i \in 1..from - 1 : /\ messages[i].kind = "calls"
                                     /\ messages[i].id = messages[from].id}
  IN IF messages[from].kind = "results" /\ owners # {}
     THEN CHOOSE i \in owners : TRUE ELSE from

(* ------------------------------- the run -------------------------------- *)

Fresh == [turns |-> 0, escalated |-> FALSE, recoveries |-> 0, retries |-> 0]
NoResponse == [calls |-> 0, safe |-> {}, words |-> FALSE, full |-> FALSE]
NoCompact == [forced |-> FALSE, from |-> 0, seen |-> <<>>]
Responses ==
  {r \in [calls : 0..MaxCalls, safe : SUBSET (1..MaxCalls), words : BOOLEAN, full : BOOLEAN] :
     /\ r.safe \subseteq 1..r.calls /\ Cardinality(r.safe) # 1
     /\ r.calls > 0 => r.words}
Settled == {"ran", "refused", "cut", "bad"}
Running == {"top", "noting", "reading", "drained", "summing", "stream", "sleep",
            "received", "tools", "answered", "boundary", "closing"}

Init ==
  /\ conv = <<>> /\ log = <<>> /\ torn = FALSE /\ saved = <<>> /\ replaced = <<>>
  /\ pc = "idle" /\ aborted = FALSE /\ tries = Fresh
  /\ response = NoResponse /\ calls = <<>> /\ at = 1 /\ turn = 0
  /\ compact = NoCompact
  /\ hooked = <<>> /\ inbox = <<>> /\ held = <<>>
  /\ steering = <<>> /\ followUps = <<>> /\ sending = 0
  /\ counts = [texts |-> 0, notes |-> 0, reminders |-> 0, others |-> 0, events |-> 0]
  /\ recalled = {} /\ lost = {} /\ dropped = {} /\ failed = FALSE /\ ran = {} /\ broken = {}

(* addUserMessage and its like, and persistLastMessage after each: the first  *)
(* messages go into the conversation, as many as said, and into the log, as   *)
(* many as written, where a torn line swallows the first of them.             *)
SayTo(messages, said, written, part) ==
  /\ conv' = conv \o SubSeq(messages, 1, said)
  /\ log' = log \o SubSeq(messages, IF torn THEN 2 ELSE 1, written)
  /\ saved' = saved \o [i \in 1..said |-> i <= written /\ (torn => i > 1)]
  /\ torn' = (part \/ (torn /\ written = 0))
  /\ UNCHANGED replaced
Say(messages) == SayTo(messages, Len(messages), Len(messages), FALSE)

(* The append of one of them throws, for a lock that is not to be had or a   *)
(* disk that is full, or, once it is made, for a lock that is not given back: *)
(* the messages after it are not said.                                        *)
SayFails(messages) ==
  \E n \in DOMAIN messages : \E written \in {n - 1, n} : \E part \in BOOLEAN :
    /\ part => written < n
    /\ SayTo(messages, n, written, part)
    /\ failed' = TRUE
Goto(place) == pc' = place
Event(what) ==
  /\ counts.events < MaxEvents
  /\ counts' = [kind \in DOMAIN counts |->
                  IF kind \in {what, "events"} THEN counts[kind] + 1 ELSE counts[kind]]

(* -------------------------- the user and others ------------------------- *)

(* handleSubmit: a text steers the run if there is one, and waits if not. *)
Submit ==
  /\ Event("texts")
  /\ IF pc \in Running
     THEN steering' = Append(steering, counts'.texts) /\ UNCHANGED followUps
     ELSE followUps' = Append(followUps, counts'.texts) /\ UNCHANGED steering
  /\ UNCHANGED <<talk, pc, aborted, tries, turnVars, compact, hooked, inbox, held, sending,
                 history>>

(* recallQueuedMessage: the last text that waits, or else the last one that *)
(* steers, goes back to the editor.                                         *)
Recall ==
  /\ IF followUps # <<>>
     THEN /\ recalled' = recalled \cup {Last(followUps)}
          /\ followUps' = Front(followUps) /\ UNCHANGED steering
     ELSE /\ pc \in Running /\ steering # <<>>
          /\ recalled' = recalled \cup {Last(steering)}
          /\ steering' = Front(steering) /\ UNCHANGED followUps
  /\ UNCHANGED <<talk, pc, aborted, tries, turnVars, compact, hooked, inbox, held, sending,
                 counts, lost, dropped, failed, ran, broken>>

(* The user interrupts the run. *)
Abort ==
  /\ pc \in Running /\ ~aborted
  /\ Event("others")
  /\ aborted' = TRUE
  /\ UNCHANGED <<talk, pc, tries, turnVars, compact, queues, history>>

(* onModeChange, or the end of a memory consolidation under the server: a   *)
(* reminder goes into the conversation, whatever the run is doing, and is   *)
(* not recorded.                                                            *)
Remind ==
  /\ Event("reminders")
  /\ conv' = Append(conv, Reminder(counts'.reminders)) /\ saved' = Append(saved, FALSE)
  /\ UNCHANGED <<log, torn, replaced, pc, aborted, tries, turnVars, compact, queues, history>>

(* A teammate writes to the leader or a task of the background ends. *)
Post ==
  /\ Event("notes")
  /\ inbox' = Append(inbox, counts'.notes)
  /\ UNCHANGED <<talk, pc, aborted, tries, turnVars, compact, hooked, held, steering,
                 followUps, sending, history>>

(* The output of a hook is queued: a hook the loop waits for, or one that *)
(* runs beside it and may end at any time.                                *)
HookNote ==
  /\ Event("notes")
  /\ hooked' = Append(hooked, counts'.notes)
  /\ UNCHANGED <<talk, pc, aborted, tries, turnVars, compact, inbox, held, steering,
                 followUps, sending, history>>

(* ------------------------------ a run starts ---------------------------- *)

(* The queue of waiting texts starts a run when nothing else goes on. *)
SendFollowUp ==
  /\ pc = "idle" /\ followUps # <<>>
  /\ sending' = Head(followUps) /\ followUps' = Tail(followUps)
  /\ Goto("prepare")
  /\ UNCHANGED <<talk, aborted, tries, turnVars, compact, hooked, inbox, held, steering,
                 counts, history>>

(* runUserTurn, once the files the text names are read. *)
Prepared ==
  /\ pc = "prepare"
  /\ Say(<<Text(sending)>>) /\ sending' = 0
  /\ Goto("top")
  /\ UNCHANGED <<aborted, tries, turnVars, compact, hooked, inbox, held, steering, followUps,
                 counts, history>>

(* The text is in the conversation, and there is no run. *)
PreparedFails ==
  /\ pc = "prepare"
  /\ Event("others")
  /\ SayFails(<<Text(sending)>>) /\ sending' = 0
  /\ Goto("idle")
  /\ UNCHANGED <<aborted, tries, turnVars, compact, hooked, inbox, held, steering, followUps,
                 recalled, lost, dropped, ran, broken>>

(* useNotificationWakeup: notes start a run of their own. *)
Wake ==
  /\ pc = "idle" /\ followUps = <<>> /\ inbox # <<>>
  /\ Goto("top")
  /\ UNCHANGED <<talk, aborted, tries, turnVars, compact, queues, counts, history>>

(* ------------------------- the head of a turn --------------------------- *)

AtLimit == tries.turns = MaxIterations
Notes(queue) == [i \in DOMAIN queue |-> Note(queue[i])]

(* The head of the loop.  Notes of hooks are recorded before the mailbox is *)
(* looked at.                                                               *)
Top ==
  /\ pc = "top"
  /\ IF aborted \/ AtLimit
     THEN Goto("closing") /\ UNCHANGED <<talk, tries, hooked>>
     ELSE /\ tries' = [tries EXCEPT !.turns = @ + 1]
          /\ Say(Notes(hooked)) /\ hooked' = <<>>
          /\ Goto("noting")
  /\ UNCHANGED <<aborted, turnVars, compact, inbox, held, steering, followUps, sending,
                 counts, history>>

(* notificationFn marks all of the mailbox read and all tasks reported... *)
DrainInbox ==
  /\ pc = "noting"
  /\ held' = inbox /\ inbox' = <<>>
  /\ Goto(IF inbox = <<>> THEN "drained" ELSE "reading")
  /\ UNCHANGED <<talk, aborted, tries, turnVars, compact, hooked, steering, followUps,
                 sending, counts, history>>

(* ...and what it returned is recorded note by note. *)
RecordNote ==
  /\ pc = "reading"
  /\ Say(<<Note(Head(held))>>) /\ held' = Tail(held)
  /\ Goto(IF held' = <<>> THEN "drained" ELSE "reading")
  /\ UNCHANGED <<aborted, tries, turnVars, compact, hooked, inbox, steering, followUps,
                 sending, counts, history>>

(* The notes of tasks cannot be marked: those of the mailbox, which are marked *)
(* already, go with the error, and so do those of the tasks before the one     *)
(* that failed.  Which of the notes these are is left open.                    *)
DrainFails ==
  /\ pc = "noting"
  /\ Event("others")
  /\ \E gone \in SUBSET DOMAIN inbox :
       /\ inbox' = Selected(inbox, DOMAIN inbox \ gone)
       /\ dropped' = dropped \cup {inbox[i] : i \in gone}
  /\ failed' = TRUE
  /\ Goto("closing")
  /\ UNCHANGED <<talk, aborted, tries, turnVars, compact, hooked, held, steering, followUps,
                 sending, recalled, lost, ran, broken>>

(* A note of a hook or one that was drained is not recorded: the notes after *)
(* it are neither in a queue any more nor in the conversation.               *)
HeadFails ==
  /\ pc \in {"top", "drained"} /\ (pc = "top" => ~aborted /\ ~AtLimit)
  /\ Event("others")
  /\ SayFails(Notes(hooked)) /\ hooked' = <<>>
  /\ dropped' = dropped \cup {n \in Range(hooked) : Note(n) \notin Range(conv')}
  /\ Goto("closing")
  /\ UNCHANGED <<aborted, tries, turnVars, compact, inbox, held, steering, followUps, sending,
                 recalled, lost, ran, broken>>
RecordFails ==
  /\ pc = "reading"
  /\ Event("others")
  /\ SayFails(<<Note(Head(held))>>) /\ held' = <<>>
  /\ dropped' = dropped \cup Range(Tail(held))
  /\ Goto("closing")
  /\ UNCHANGED <<aborted, tries, turnVars, compact, hooked, inbox, steering, followUps,
                 sending, recalled, lost, ran, broken>>

(* doCompact up to the request for a summary: the prefix to summarize must *)
(* be long enough, and the tail to keep starts at a whole exchange.        *)
BeginCompact(messages, forced) ==
  /\ Event("others")
  /\ \E start \in DOMAIN messages :
       LET from == backUpPastToolUse(messages, start)
       IN /\ from > MinPrefix
          /\ compact' = [forced |-> forced, from |-> from, seen |-> messages]
  /\ Goto("summing")

(* The request goes out unless the run was interrupted. *)
Request == Goto(IF aborted THEN "closing" ELSE "stream")

(* The hooks before the request are done: their notes are recorded, and the *)
(* context is compacted if it has grown too large.                          *)
PreSend ==
  /\ pc = "drained"
  /\ Say(Notes(hooked)) /\ hooked' = <<>>
  /\ \/ BeginCompact(conv', FALSE)
     \/ Request /\ UNCHANGED <<compact, counts>>
  /\ UNCHANGED <<aborted, tries, turnVars, inbox, held, steering, followUps, sending, history>>

(* Mutant: the conversation is taken to be what it was. *)
Unchanged_Assumed(seen) == TRUE

(* The conversation is still the one that was summarized. *)
Unchanged(seen) == conv = seen

(* replaceWithCompacted, and the boundary recorded with the tail that was  *)
(* kept: the log begins anew with it, or, where it is not written as a line *)
(* of its own, has what the summary replaced.                               *)
Saved(messages, which) == Selected(messages, {i \in DOMAIN messages : which[i]})
Shorten(written, part) ==
  LET end == Len(compact.seen)
      before == SubSeq(compact.seen, 1, compact.from - 1)
      keep == SubSeq(compact.seen, compact.from, end)
      recorded == written /\ ~torn
  IN /\ conv' = <<Summary(Known(before))>> \o keep
     /\ log' = IF recorded THEN Append(log, Boundary(Known(before), keep)) ELSE log
     /\ saved' = IF recorded THEN [i \in DOMAIN conv' |-> TRUE]
                 ELSE <<FALSE>> \o SubSeq(saved, compact.from, end)
     /\ replaced' = IF recorded THEN <<>>
                    ELSE replaced \o Saved(before, SubSeq(saved, 1, compact.from - 1))
     /\ torn' = (part \/ (torn /\ ~written))

(* doCompact, once there is a summary: the prefix is replaced by it, unless *)
(* the run was interrupted or the conversation has changed meanwhile.       *)
Summarized ==
  /\ pc = "summing" /\ ~aborted /\ Unchanged(compact.seen)
  /\ Shorten(TRUE, FALSE)
  /\ IF compact.forced THEN Goto("top") ELSE Request
  /\ compact' = NoCompact
  /\ UNCHANGED <<aborted, tries, turnVars, queues, counts, history>>

(* The boundary cannot be recorded. *)
BoundaryFails ==
  /\ pc = "summing" /\ ~aborted /\ Unchanged(compact.seen)
  /\ Event("others")
  /\ \E written, part \in BOOLEAN : (part => ~written) /\ Shorten(written, part)
  /\ failed' = TRUE
  /\ Goto("closing")
  /\ compact' = NoCompact
  /\ UNCHANGED <<aborted, tries, turnVars, queues, recalled, lost, dropped, ran, broken>>

(* The summary fails, or comes too late.  A compaction the provider asked *)
(* for ends the run, another one is given up.                             *)
SummaryFails ==
  /\ pc = "summing"
  /\ IF compact.forced THEN Goto("closing") ELSE Request
  /\ compact' = NoCompact
  /\ UNCHANGED <<talk, aborted, tries, turnVars, queues, counts, history>>

(* ------------------------------ the response ---------------------------- *)

(* What was said before an interrupt or an error is kept, its calls are not. *)
Partial(words) == Say(IF words THEN <<Words>> ELSE <<>>)

Interrupted ==
  /\ pc = "stream" /\ aborted
  /\ \E words \in BOOLEAN : Partial(words)
  /\ Goto("closing")
  /\ UNCHANGED <<aborted, tries, turnVars, compact, queues, counts, history>>

Receive ==
  /\ pc = "stream" /\ ~aborted
  /\ \E r \in Responses : (r.calls > 0 => turn < MaxTurns) /\ response' = r
  /\ tries' = [tries EXCEPT !.retries = 0]
  /\ Goto("received")
  /\ UNCHANGED <<talk, aborted, calls, at, turn, compact, queues, counts, history>>

(* The provider says the context is too long: it is compacted, and if that *)
(* cannot be done the run fails.                                           *)
TooLong ==
  /\ pc = "stream" /\ ~aborted
  /\ \/ BeginCompact(conv, TRUE)
     \/ Goto("closing") /\ UNCHANGED <<compact, counts>>
  /\ UNCHANGED <<talk, aborted, tries, turnVars, queues, history>>

(* A failure that may pass is waited out if nothing was shown. *)
Retry ==
  /\ pc = "stream" /\ ~aborted /\ tries.retries < MaxRetries
  /\ tries' = [tries EXCEPT !.retries = @ + 1]
  /\ Goto("sleep")
  /\ UNCHANGED <<talk, aborted, turnVars, compact, queues, counts, history>>

Woken ==
  /\ pc = "sleep"
  /\ Goto(IF aborted THEN "closing" ELSE "top")
  /\ UNCHANGED <<talk, aborted, tries, turnVars, compact, queues, counts, history>>

Fail ==
  /\ pc = "stream" /\ ~aborted
  /\ \E words \in BOOLEAN : Partial(words)
  /\ Goto("closing")
  /\ UNCHANGED <<aborted, tries, turnVars, compact, queues, counts, history>>

(* After the hook: a response that ran into the output limit is continued,   *)
(* once with a higher limit, if the limit is not at its ceiling from the     *)
(* start, and then a few times more.                                         *)
Continues ==
  /\ response.full /\ response.calls = 0
  /\ ~tries.escalated \/ tries.recoveries < MaxRecoveries
Continue ==
  /\ pc = "received" /\ Continues
  /\ \/ ~tries.escalated /\ tries' = [tries EXCEPT !.escalated = TRUE]
     \/ /\ tries.recoveries < MaxRecoveries
        /\ tries' = [tries EXCEPT !.escalated = TRUE, !.recoveries = @ + 1]
  /\ Say(IF response.words THEN <<Words, Resume>> ELSE <<>>)
  /\ response' = NoResponse
  /\ Goto("top")
  /\ UNCHANGED <<aborted, calls, at, turn, compact, queues, counts, history>>

(* A response without calls, or one that was continued often enough. *)
Answer ==
  /\ pc = "received" /\ response.calls = 0 /\ ~Continues
  /\ tries' = IF response.full THEN tries ELSE [tries EXCEPT !.recoveries = 0]
  /\ Say(IF response.words THEN <<Words>> ELSE <<>>)
  /\ response' = NoResponse
  /\ Goto("answered")
  /\ UNCHANGED <<aborted, calls, at, turn, compact, queues, counts, history>>

(* What the model said is not recorded, nor the request to go on after it. *)
WordsFail ==
  /\ pc \in {"stream", "received"} /\ response.calls = 0
  /\ pc = "received" => response.words
  /\ Event("others")
  /\ SayFails(IF pc = "received" /\ Continues THEN <<Words, Resume>> ELSE <<Words>>)
  /\ response' = NoResponse
  /\ Goto("closing")
  /\ UNCHANGED <<aborted, tries, calls, at, turn, compact, queues, recalled, lost, dropped,
                 ran, broken>>

(* A response with calls; they are not run if the output limit cut it. *)
CallTools ==
  /\ pc = "received" /\ response.calls > 0
  /\ tries' = [tries EXCEPT !.recoveries = 0]
  /\ turn' = turn + 1
  /\ Say(<<Called(turn', response.calls)>>)
  /\ broken' = IF torn THEN broken \cup {turn'} ELSE broken
  /\ calls' = [p \in 1..response.calls |-> "waiting"] /\ at' = 1
  /\ Goto("tools")
  /\ UNCHANGED <<aborted, response, compact, queues, counts, recalled, lost, dropped, failed,
                 ran>>

(* The response is not recorded, and its calls are not run. *)
CallsFail ==
  /\ pc = "received" /\ response.calls > 0
  /\ Event("others")
  /\ turn' = turn + 1
  /\ SayFails(<<Called(turn', response.calls)>>)
  /\ broken' = broken \cup {turn'}
  /\ response' = NoResponse
  /\ Goto("closing")
  /\ UNCHANGED <<aborted, tries, calls, at, compact, queues, recalled, lost, dropped, ran>>

(* ------------------------------- the tools ------------------------------ *)

(* partitionToolCalls: neighbours that are safe make one batch. *)
Beside(p, q) == p # q /\ (IF p < q THEN p..q ELSE q..p) \subseteq response.safe
Parallel(p) == \E q \in DOMAIN calls : Beside(p, q)
MayPrepare ==
  /\ pc = "tools" /\ at \in DOMAIN calls /\ calls[at] = "waiting"
  /\ \A q \in 1..at - 1 :
       calls[q] \in Settled \/ (calls[q] = "submitted" /\ Beside(q, at))

(* Mutant: what was let through starts, interrupted or not. *)
Started_Late(p) == "running"

(* executeCall: a call that comes to run after an interrupt does not start. *)
Started(p) == IF aborted THEN "cut" ELSE "running"
NewlyRun(before, after) ==
  {<<turn, p>> : p \in {q \in DOMAIN before : before[q] # "running" /\ after[q] = "running"}}

(* The next call is settled without a question: its arguments were cut off, *)
(* or the run was interrupted.                                              *)
Settle ==
  /\ MayPrepare /\ (response.full \/ aborted)
  /\ calls' = [calls EXCEPT ![at] = IF response.full THEN "bad" ELSE "cut"]
  /\ at' = at + 1
  /\ UNCHANGED <<talk, pc, aborted, tries, response, turn, compact, queues, counts, history>>

(* Filter, hooks, rules and perhaps the user decide about the next call. *)
Ask ==
  /\ MayPrepare /\ ~response.full /\ ~aborted
  /\ calls' = [calls EXCEPT ![at] = "asking"]
  /\ UNCHANGED <<talk, pc, aborted, tries, response, at, turn, compact, queues, counts,
                 history>>

(* Mutant: an open question is not withdrawn by the interrupt. *)
Asking_NotWithdrawn ==
  pc = "tools" /\ at \in DOMAIN calls /\ calls[at] = "asking" /\ ~aborted

(* The question whether the next call may run is open. *)
Asking == pc = "tools" /\ at \in DOMAIN calls /\ calls[at] = "asking"
Refuse ==
  /\ Asking
  /\ calls' = [calls EXCEPT ![at] = "refused"]
  /\ at' = at + 1
  /\ UNCHANGED <<talk, pc, aborted, tries, response, turn, compact, queues, counts, history>>

(* A call that may run is started, or kept for the rest of its batch. *)
Launch ==
  /\ Asking
  /\ calls' = [calls EXCEPT ![at] = IF Parallel(at) THEN "submitted" ELSE Started(at)]
  /\ at' = at + 1
  /\ ran' = ran \cup NewlyRun(calls, calls')
  /\ UNCHANGED <<talk, pc, aborted, tries, response, turn, compact, queues, counts, recalled,
                 lost, dropped, failed, broken>>

(* runPending: the calls of a batch start together. *)
RunBatch ==
  /\ pc = "tools" /\ \E p \in DOMAIN calls : calls[p] = "submitted"
  /\ at \in DOMAIN calls =>
       \A q \in 1..at - 1 : calls[q] = "submitted" => ~Beside(q, at)
  /\ calls' = [p \in DOMAIN calls |-> IF calls[p] = "submitted" THEN Started(p) ELSE calls[p]]
  /\ ran' = ran \cup NewlyRun(calls, calls')
  /\ UNCHANGED <<talk, pc, aborted, tries, response, at, turn, compact, queues, counts,
                 recalled, lost, dropped, failed, broken>>

(* A tool ends, and the hooks after it. *)
ToolEnds ==
  /\ pc = "tools"
  /\ \E p \in DOMAIN calls : calls[p] = "running" /\ calls' = [calls EXCEPT ![p] = "ran"]
  /\ UNCHANGED <<talk, pc, aborted, tries, response, at, turn, compact, queues, counts,
                 history>>

(* Mutant: the run does not wait for its tools once it is interrupted. *)
Complete_Aborted ==
  at > Len(calls) /\ (aborted \/ \A p \in DOMAIN calls : calls[p] \in Settled)

(* All calls were dealt with. *)
Complete == at > Len(calls) /\ \A p \in DOMAIN calls : calls[p] \in Settled

(* The results go into the conversation in the order of the calls, and the *)
(* run ends if it was interrupted or a plan waits for approval.            *)
Finish ==
  /\ pc = "tools" /\ Complete
  /\ Say(<<Results(turn, calls)>>)
  /\ \/ Goto("boundary") /\ ~aborted
     \/ Goto("closing") /\ (aborted \/ \E p \in DOMAIN calls : calls[p] = "ran")
  /\ broken' = IF torn THEN broken \cup {turn} ELSE broken
  /\ calls' = <<>> /\ at' = 1 /\ response' = NoResponse
  /\ UNCHANGED <<aborted, tries, turn, compact, queues, counts, recalled, lost, dropped,
                 failed, ran>>

(* The results are not recorded: the log has calls without results. *)
ResultsFail ==
  /\ pc = "tools" /\ Complete
  /\ Event("others")
  /\ SayFails(<<Results(turn, calls)>>)
  /\ Goto("closing")
  /\ broken' = broken \cup {turn}
  /\ calls' = <<>> /\ at' = 1 /\ response' = NoResponse
  /\ UNCHANGED <<aborted, tries, turn, compact, queues, recalled, lost, dropped, ran>>

(* ----------------------------- the turn ends ---------------------------- *)

(* deliverSteering: a text steers the next turn unless the run was *)
(* interrupted.                                                    *)
Deliver ==
  /\ pc \in {"boundary", "answered"} /\ ~aborted /\ steering # <<>>
  /\ Say(<<Text(Head(steering))>>) /\ steering' = Tail(steering)
  /\ Goto("boundary")
  /\ UNCHANGED <<aborted, tries, turnVars, compact, hooked, inbox, held, followUps, sending,
                 counts, history>>

(* The text is in the conversation, and the run ends. *)
DeliverFails ==
  /\ pc \in {"boundary", "answered"} /\ ~aborted /\ steering # <<>>
  /\ Event("others")
  /\ SayFails(<<Text(Head(steering))>>) /\ steering' = Tail(steering)
  /\ Goto("closing")
  /\ UNCHANGED <<aborted, tries, turnVars, compact, hooked, inbox, held, followUps, sending,
                 recalled, lost, dropped, ran, broken>>

(* The next turn, or the end of a run that nothing steers. *)
Advance ==
  /\ pc \in {"boundary", "answered"} /\ (aborted \/ steering = <<>>)
  /\ Goto(IF pc = "boundary" THEN "top" ELSE "closing")
  /\ UNCHANGED <<talk, aborted, tries, turnVars, compact, queues, counts, history>>

(* Mutant: what still steers stays where it is. *)
Close_KeepsSteering ==
  /\ pc = "closing"
  /\ UNCHANGED <<followUps, steering>>
  /\ aborted' = FALSE /\ tries' = Fresh
  /\ Goto("idle")
  /\ UNCHANGED <<talk, turnVars, compact, hooked, inbox, held, sending, counts, history>>

(* The last hooks are done: texts that came too late for the run wait for *)
(* the next one.                                                          *)
Close ==
  /\ pc = "closing"
  /\ followUps' = followUps \o steering /\ steering' = <<>>
  /\ aborted' = FALSE /\ tries' = Fresh
  /\ Goto("idle")
  /\ UNCHANGED <<talk, turnVars, compact, hooked, inbox, held, sending, counts, history>>

(* ----------------------------- death and resume ------------------------- *)

(* What a process has in its memory and not on disk. *)
InMemory ==
  Known(conv) \cup {<<"text", t>> : t \in Range(steering \o followUps) \cup ({sending} \ {0})}
              \cup {<<"note", n>> : n \in Range(hooked \o held)}

(* The process dies, perhaps while it writes a line, and the session is *)
(* resumed from its log.                                                *)
Crash ==
  /\ Event("others")
  /\ conv' = rebuildFromSession(log)
  /\ saved' = [i \in DOMAIN conv' |-> TRUE] /\ replaced' = <<>>
  /\ \E part \in BOOLEAN : torn' = (torn \/ part) /\ failed' = (failed \/ part)
  /\ lost' = lost \cup (InMemory \ Known(conv'))
  /\ broken' = IF pc = "tools" THEN broken \cup {turn} ELSE broken
  /\ pc' = "idle" /\ aborted' = FALSE /\ tries' = Fresh
  /\ response' = NoResponse /\ calls' = <<>> /\ at' = 1 /\ compact' = NoCompact
  /\ hooked' = <<>> /\ held' = <<>> /\ steering' = <<>> /\ followUps' = <<>> /\ sending' = 0
  /\ UNCHANGED <<log, turn, inbox, recalled, dropped, ran>>

(* A write that fails. *)
Faults ==
  \/ PreparedFails \/ HeadFails \/ DrainFails \/ RecordFails \/ BoundaryFails
  \/ WordsFail \/ CallsFail \/ ResultsFail \/ DeliverFails
Others == Submit \/ Recall \/ Abort \/ Remind \/ Post \/ HookNote \/ Crash
(* What others are waited for, each of which ends when the run is interrupted. *)
Waits ==
  \/ PreSend \/ Summarized \/ SummaryFails
  \/ Interrupted \/ Receive \/ TooLong \/ Retry \/ Fail \/ Woken
  \/ Refuse \/ Launch \/ ToolEnds
Steps ==
  \/ SendFollowUp \/ Prepared \/ Wake
  \/ Top \/ DrainInbox \/ RecordNote
  \/ Continue \/ Answer \/ CallTools
  \/ Settle \/ Ask \/ RunBatch \/ Finish
  \/ Deliver \/ Advance \/ Close
Next == Others \/ Faults \/ Waits \/ Steps

Spec == Init /\ [][Next]_vars

(* The code goes on by itself; a provider, a tool, a hook or a user may keep *)
(* it waiting for ever, but not once the run is interrupted.                 *)
FairSpec == Spec /\ WF_vars(Steps) /\ WF_vars(aborted /\ Waits)

(* ------------------------------ properties ------------------------------ *)

Places == Running \cup {"idle", "prepare"}

(* Types of the variables. *)
TypeOK ==
  /\ pc \in Places /\ aborted \in BOOLEAN
  /\ tries \in [turns : 0..MaxIterations, escalated : BOOLEAN, recoveries : 0..MaxRecoveries,
                retries : 0..MaxRetries]
  /\ response \in Responses
  /\ at \in 1..MaxCalls + 1 /\ Len(calls) <= MaxCalls
  /\ Range(calls) \subseteq Settled \cup {"waiting", "asking", "submitted", "running"}
  /\ turn \in Nat /\ ran \subseteq (1..turn) \X (1..MaxCalls) /\ broken \subseteq 1..turn
  /\ torn \in BOOLEAN /\ failed \in BOOLEAN /\ Range(saved) \subseteq BOOLEAN
  /\ Len(saved) = Len(conv)
  /\ Range(hooked \o inbox \o held) \subseteq 1..MaxEvents
  /\ Range(steering \o followUps) \subseteq 1..MaxEvents /\ sending \in 0..MaxEvents
  /\ recalled \cup dropped \subseteq 1..MaxEvents
  /\ Known(conv) \cup lost \subseteq
       ({"text"} \X (1..MaxEvents)) \cup ({"note"} \X (1..MaxEvents))
       \cup ({"reminder"} \X (1..MaxEvents))

(* What is sent to the agent is never used twice, and nothing of it goes      *)
(* unaccounted.  Every text is in one queue, in the conversation, back in the *)
(* editor or gone with a process, and no failing write takes one; every note  *)
(* is in the inbox, in a queue, in the conversation, gone with a process or,  *)
(* only if a write has failed, dropped; and a reminder added while a summary  *)
(* is made is not lost to it.                                                 *)
Times(item, messages) ==
  Cardinality({i \in DOMAIN messages : item \in Items(messages[i])})
Queued(n, queue) == Cardinality({i \in DOMAIN queue : queue[i] = n})
One(condition) == IF condition THEN 1 ELSE 0
AllAccountedFor ==
  /\ TypeOK
  /\ \A t \in 1..counts.texts :
       Queued(t, steering) + Queued(t, followUps) + One(sending = t) + One(t \in recalled)
         + Times(<<"text", t>>, conv) + One(<<"text", t>> \in lost) = 1
  /\ \A n \in 1..counts.notes :
       Queued(n, inbox) + Queued(n, hooked) + Queued(n, held)
         + Times(<<"note", n>>, conv) + One(<<"note", n>> \in lost) + One(n \in dropped) = 1
  /\ dropped # {} => failed
  /\ \A r \in 1..counts.reminders :
       Times(<<"reminder", r>>, conv) + One(<<"reminder", r>> \in lost) = 1

(* The log can stand in for the conversation at any moment: a session that   *)
(* is resumed has every recorded message in its order, through compactions,  *)
(* interrupts and errors, and what a summary replaced where the log lacks    *)
(* the summary.  Unless a write has failed or a death has torn a line, that  *)
(* is the whole conversation but for reminders.                              *)
LogStandsIn ==
  /\ rebuildFromSession(log) = replaced \o Saved(conv, saved)
  /\ ~failed => /\ replaced = <<>>
                /\ \A i \in DOMAIN conv : saved[i] \/ conv[i].kind = "reminder"

(* Unless a reminder is put in from outside, results stand right after the  *)
(* response they belong to, through compactions, interrupts, crashes and    *)
(* resumes, if both were recorded.                                          *)
ResultsKeepToCalls ==
  counts.reminders = 0 =>
    \A messages \in {conv, rebuildFromSession(log)} : \A i \in DOMAIN messages :
      (messages[i].kind = "results" /\ messages[i].id \notin broken) =>
        i > 1 /\ messages[i - 1].kind = "calls" /\ messages[i - 1].id = messages[i].id

(* What the conversation says of the calls is what happened: the results of *)
(* a response cover all of its calls, a call is said to have run exactly if *)
(* it was started, only calls that died with a process or could not be      *)
(* recorded with their results stay without result, and no tool runs on     *)
(* once the run has left its tools.                                         *)
ResultsTrue ==
  /\ ResultsKeepToCalls
  /\ \A i \in DOMAIN conv :
       /\ conv[i].kind = "calls" =>
            \/ \E j \in i + 1..Len(conv) : /\ conv[j].kind = "results" /\ conv[j].id = conv[i].id
                                           /\ Len(conv[j].outs) = conv[i].n
            \/ conv[i].id \in broken \/ (pc = "tools" /\ conv[i].id = turn)
       /\ conv[i].kind = "results" =>
            \A p \in DOMAIN conv[i].outs :
              conv[i].outs[p] = "ran" <=> <<conv[i].id, p>> \in ran
  /\ pc # "tools" => calls = <<>>

(* A tool never starts in a run that has been interrupted, whatever its call *)
(* was waiting for.                                                          *)
NoStartAfterAbort == [][aborted /\ aborted' => ran' = ran]_vars

(* An interrupted run ends, whatever it was waiting for. *)
AbortEnds == aborted ~> ~aborted

(* The first text that waits when a run is interrupted is not stuck in the *)
(* run: it comes to the agent, or goes back to the editor.                 *)
FirstInLine(t) == followUps \o steering # <<>> /\ Head(followUps \o steering) = t
TextGoesOn ==
  \A t \in 1..MaxEvents :
    (aborted /\ FirstInLine(t)) ~>
      (t \in recalled \/ <<"text", t>> \in Known(conv) \cup lost)

(* A request tells the model that a call was interrupted only if there is no *)
(* result of it: what a tool that ran has returned is told.                  *)
InterruptedMeansNoResult ==
  pc = "stream" =>
    LET request == ensureToolPairing(conv)
    IN \A i \in DOMAIN request : \A j \in DOMAIN conv :
         (request[i].kind = "results" /\ conv[j].kind = "results" /\ request[i].id = conv[j].id)
           => \A p \in DOMAIN conv[j].outs :
                conv[j].outs[p] = "ran" => request[i].outs[p] = "ran"
=============================================================================
