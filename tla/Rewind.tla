-------------------------------- MODULE Rewind ------------------------------
(***************************************************************************)
(* Checkpoints of one session and the way back to them: the session log    *)
(* (session/index.ts), the file history with its snapshots, baselines and  *)
(* backup files (file-history/index.ts), the runs of the agent that take   *)
(* snapshots (agent/index.ts) and the rewind of the terminal and of the    *)
(* remote server (ui/app.tsx, remote/server.ts).  Several processes may    *)
(* have the session open and any of them may die at any point.             *)
(*                                                                         *)
(* Messages, summaries and file contents are numbers given out in order.   *)
(* The conversation of a process is left out: what a rewind restores is    *)
(* what the log says.  The log has its first line: without one a rewind    *)
(* goes by message index, which is left out too.                           *)
(***************************************************************************)
EXTENDS Naturals, Sequences, FiniteSets, Subsequences

CONSTANTS
  Processes,     \* processes that may open the session
  Files,         \* files the tools edit
  None,          \* no process
  MaxSnapshots,  \* MAX_SNAPSHOTS, the snapshots the history keeps
  MaxTaken,      \* bound: snapshots taken
  MaxWrites,     \* bound: messages, the first one included, summaries, changes of files
  MaxFaults,     \* bound: deaths, failed saves and failed backups
  MaxCuts        \* bound: rewinds of the conversation

ASSUME BoundsAssumption ==
  /\ MaxSnapshots \in Nat \ {0}
  /\ MaxTaken \in Nat /\ MaxWrites \in Nat \ {0} /\ MaxFaults \in Nat
  /\ MaxCuts \in Nat
(* What a process may be doing, besides writing one of the files. *)
Steps == {"off", "idle", "starting", "counted", "run", "ending", "tracking", "dialog",
          "code_and_conversation", "code_only", "cutting"}

ASSUME NamesAssumption == None \notin Processes /\ None \notin Files /\ Files \cap Steps = {}

VARIABLES
  log,      \* the lines of the session log; a line is the fragments written to it
  open,     \* the last line of the log has no newline yet
  disk,     \* content of every file, 0 when it does not exist
  saved,    \* the file history on disk
  store,    \* the backup files: a function from their names to contents
  op,       \* the history operation that holds the lock, by None if there is none
  pc,       \* what each process is doing
  shown,    \* the snapshot list each process looked at last
  pending,  \* the checkpoint each process has counted the log for, or goes back to
  counts,   \* messages, edits and faults so far
  cuts,     \* history: the lengths the log was cut to
  wild      \* history: the last change of each file that the history had no part in

vars == <<log, open, disk, saved, store, op, pc, shown, pending, counts, cuts, wild>>

Absent == 0
Original == 1
Contents == 0..MaxWrites + 1
Messages == 1..MaxWrites
Names == Files \X (0..MaxTaken)
BackupStates == {"existing", "absent", "unavailable"}
(* A baseline is named after its file alone; 0 is its number in store, and *)
(* snapshots are numbered from 1.                                          *)
BaselineName(f) == <<f, 0>>
BackupName(f, no) == <<f, no>>

(* ------------------------------ session log ----------------------------- *)

Fragment(kind, id, keep, whole) == [kind |-> kind, id |-> id, keep |-> keep, whole |-> whole]
Line(kind, id, keep) == Fragment(kind, id, keep, TRUE)

(* An append writes at the end of the file, whatever is there: after a line *)
(* that was torn it continues that line.                                    *)
Appended(fragment) ==
  IF open THEN [log EXCEPT ![Len(log)] = Append(@, fragment)]
          ELSE Append(log, <<fragment>>)

(* Lines that do not parse are skipped, and so is what was glued to them. *)
Readable(line) == Len(line) = 1 /\ line[1].whole
Records(lines) == LET readable == Selected(lines, {i \in DOMAIN lines : Readable(lines[i])})
                  IN [i \in DOMAIN readable |-> readable[i][1]]
Prefix(lines, n) == IF n >= Len(lines) THEN lines ELSE SubSeq(lines, 1, n)

(* The conversation a log stands for: the last summary with the messages it *)
(* kept and all later ones, or every message.                               *)
Rebuilt(lines) ==
  LET records == Records(lines)
      ids(from) == LET later == Selected(records, {i \in from..Len(records) :
                                                     records[i].kind = "message"})
                   IN [i \in DOMAIN later |-> later[i].id]
      boundaries == {i \in DOMAIN records : records[i].kind = "boundary"}
      last == CHOOSE i \in boundaries : \A j \in boundaries : j <= i
  IN IF boundaries = {} THEN ids(1)
     ELSE <<records[last].id>> \o records[last].keep \o ids(last + 1)

(* ------------------------------ file history ---------------------------- *)

NoHistory == [snapshots |-> <<>>, tracked |-> {}, baselines |-> <<>>, next |-> 1]

(* What loadUnlocked makes of the file: a history without tracked files     *)
(* takes them from its newest snapshot.                                     *)
Loaded ==
  LET last == saved.snapshots[Len(saved.snapshots)]
  IN IF saved.tracked = {} /\ saved.snapshots # <<>>
     THEN [saved EXCEPT !.tracked = DOMAIN last.backups]
     ELSE saved

Locked(p, kind, subject, step) ==
  [by |-> p, kind |-> kind, subject |-> subject, step |-> step,
   work |-> Loaded, left |-> {}]
Unlocked == [by |-> None, kind |-> "none", subject |-> 0, step |-> "none",
             work |-> NoHistory, left |-> {}]

Existing(snapshot) == {f \in DOMAIN snapshot.backups : snapshot.backups[f] = "existing"}
BackupsOf(snapshots) ==
  UNION {{BackupName(f, snapshots[i].no) : f \in Existing(snapshots[i])} : i \in DOMAIN snapshots}
Without(names) == [name \in DOMAIN store \ names |-> store[name]]

(* The part of a function on the keys of a set. *)
On(f, keys) == [key \in DOMAIN f \cap keys |-> f[key]]
Over(f, g) == [key \in DOMAIN f \cup DOMAIN g |-> IF key \in DOMAIN f THEN f[key] ELSE g[key]]

Room == counts.messages + counts.edits < MaxWrites
NextContent == counts.edits + 2
Faulty == counts.faults < MaxFaults
Fault == counts' = [counts EXCEPT !.faults = @ + 1]

(* --------------------------------- runs --------------------------------- *)

Init ==
  /\ log = <<<<Line("message", 1, <<>>)>>>> /\ open = FALSE
  /\ disk \in [Files -> {Absent, Original}]
  /\ saved = NoHistory
  /\ store = <<>>
  /\ op = Unlocked
  /\ pc = [p \in Processes |-> "off"]
  /\ shown = [p \in Processes |-> <<>>]
  /\ pending = [p \in Processes |-> <<>>]
  /\ counts = [messages |-> 1, edits |-> 0, faults |-> 0]
  /\ cuts = <<>>
  /\ wild = [f \in Files |-> 0]

Goes(p, from, to) == pc[p] = from /\ pc' = [pc EXCEPT ![p] = to]

(* The session is opened, new or to be resumed. *)
Open(p) ==
  /\ Goes(p, "off", "idle")
  /\ UNCHANGED <<log, open, disk, saved, store, op, shown, pending, counts, cuts, wild>>

NextMessage == counts.messages + 1
Counted == counts' = [counts EXCEPT !.messages = @ + 1]
Wrote(fragment, ended) ==
  /\ Room
  /\ log' = Appended(fragment)
  /\ open' = ~ended
  /\ UNCHANGED <<disk, saved, store, op, shown, cuts, wild>>

(* A user turn starts with the input, appended to the log; a turn for       *)
(* notifications starts with the run.                                       *)
Prompt(p) ==
  /\ Goes(p, "idle", "starting")
  /\ Wrote(Line("message", NextMessage, <<>>), TRUE)
  /\ Counted
  /\ UNCHANGED pending
Notified(p) ==
  /\ Goes(p, "idle", "starting")
  /\ UNCHANGED <<log, open, disk, saved, store, op, shown, pending, counts, cuts, wild>>

(* A message of the run: an answer, tool results, a steering message. *)
Message(p) ==
  /\ pc[p] = "run"
  /\ Wrote(Line("message", NextMessage, <<>>), TRUE)
  /\ Counted
  /\ UNCHANGED <<pc, pending>>

(* Compaction replaces a prefix of the conversation by a summary; the       *)
(* boundary it appends repeats the messages that were kept.                 *)
Compact(p) ==
  /\ pc[p] = "run"
  /\ \E kept \in 0..Len(Rebuilt(log)) - 1 :
       LET talk == Rebuilt(log)
           tail == SubSeq(talk, Len(talk) - kept + 1, Len(talk))
       IN Wrote(Line("boundary", NextMessage, tail), TRUE)
  /\ Counted
  /\ UNCHANGED <<pc, pending>>

(* The process dies while it appends: part of the line is in the file, at   *)
(* most all of it but the newline.                                          *)
Tear(p) ==
  /\ \/ Goes(p, "idle", "off") \/ Goes(p, "run", "off")
  /\ Faulty
  /\ \E whole \in BOOLEAN : Wrote(Fragment("message", NextMessage, <<>>, whole), FALSE)
  /\ counts' = [counts EXCEPT !.messages = @ + 1, !.faults = @ + 1]
  /\ pending' = [pending EXCEPT ![p] = <<>>]

(* Mutant: lines that cannot be read are not counted. *)
LineCount_Readable == Len(Records(log))
(* sessionLineCount counts the lines of the log, readable or not. *)
LineCount == Len(log)

(* Before each snapshot the lines of the log are counted. *)
Count(p) ==
  /\ \/ Goes(p, "starting", "counted") \/ Goes(p, "run", "ending")
  /\ saved.next <= MaxTaken
  /\ pending' = [pending EXCEPT ![p] =
       [lines |-> LineCount, talk |-> Rebuilt(log), cuts |-> Len(cuts), ended |-> ~open]]
  /\ UNCHANGED <<log, open, disk, saved, store, op, shown, counts, cuts, wild>>

(* A run that is aborted or fails ends without a snapshot. *)
Interrupt(p) ==
  /\ Goes(p, "run", "idle")
  /\ UNCHANGED <<log, open, disk, saved, store, op, shown, pending, counts, cuts, wild>>

(* ------------------------------- snapshots ------------------------------ *)

(* makeSnapshot: every tracked file is copied to a backup named by the      *)
(* number the snapshot takes.                                               *)
Copy(p) ==
  LET start == Locked(p, "snapshot", 0, "prune")
      backups(unavailable) ==
        [f \in start.work.tracked |-> IF disk[f] = Absent THEN "absent"
                                      ELSE IF f \in unavailable THEN "unavailable"
                                      ELSE "existing"]
      snapshot(states) == [no |-> start.work.next, backups |-> states, at |-> pending[p],
                           was |-> disk, edits |-> counts.edits + 1]
      names(states) == BackupsOf(<<snapshot(states)>>)
  IN /\ op = Unlocked
     /\ pc[p] \in {"counted", "ending"}
     /\ saved.next <= MaxTaken
     /\ \E unavailable \in SUBSET {f \in start.work.tracked : disk[f] # Absent} :
          LET states == backups(unavailable)
          IN /\ \/ unavailable = {} /\ UNCHANGED counts
                \/ unavailable # {} /\ Faulty /\ Fault
             /\ store' = Over([name \in names(states) |-> disk[name[1]]], store)
             /\ op' = [start EXCEPT !.work.snapshots = Append(@, snapshot(states)),
                                    !.work.next = @ + 1]
     /\ UNCHANGED <<log, open, disk, saved, pc, shown, pending, cuts, wild>>

(* The oldest snapshots beyond the cap go, their backups first. *)
Prune(p) ==
  LET snapshots == op.work.snapshots
      surplus == IF Len(snapshots) > MaxSnapshots THEN Len(snapshots) - MaxSnapshots ELSE 0
  IN /\ op.by = p /\ op.step = "prune"
     /\ store' = Without(BackupsOf(SubSeq(snapshots, 1, surplus)))
     /\ op' = [op EXCEPT !.step = "save",
                         !.work.snapshots = SubSeq(snapshots, surplus + 1, Len(snapshots))]
     /\ UNCHANGED <<log, open, disk, saved, pc, shown, pending, counts, cuts, wild>>

(* --------------------------------- edits -------------------------------- *)

(* trackEdit keeps the state of a file before its first edit. *)
TrackEdit(p, f) ==
  LET start == Locked(p, "track", f, "save")
      track(state) == [start EXCEPT !.work.tracked = @ \cup {f},
                                    !.work.baselines = Over([g \in {f} |-> state], @)]
  IN /\ op = Unlocked
     /\ Room
     /\ Goes(p, "run", "tracking")
     /\ \/ /\ f \in start.work.tracked
           /\ op' = start
           /\ UNCHANGED <<store, counts>>
        \/ /\ f \notin start.work.tracked /\ disk[f] = Absent
           /\ op' = track("absent")
           /\ UNCHANGED <<store, counts>>
        \/ /\ f \notin start.work.tracked /\ disk[f] # Absent
           /\ op' = track("existing")
           /\ store' = Over([name \in {BaselineName(f)} |-> disk[f]], store)
           /\ UNCHANGED counts
        \/ /\ f \notin start.work.tracked /\ disk[f] # Absent
           /\ Faulty /\ Fault
           /\ op' = track("unavailable")
           /\ UNCHANGED store
     /\ UNCHANGED <<log, open, disk, saved, shown, pending, cuts, wild>>

(* The tool writes the file after it was tracked, or is aborted before. *)
WriteFile(p) ==
  /\ pc[p] \in Files
  /\ pc' = [pc EXCEPT ![p] = "run"]
  /\ \/ UNCHANGED <<disk, counts, wild>>
     \/ /\ Room
        /\ disk' = [disk EXCEPT ![pc[p]] = NextContent]
        /\ counts' = [counts EXCEPT !.edits = @ + 1]
        /\ wild' = IF pc[p] \in saved.tracked /\ op.kind # "rewind" THEN wild
                   ELSE [wild EXCEPT ![pc[p]] = NextContent]
  /\ UNCHANGED <<log, open, saved, store, op, shown, pending, cuts>>

(* A shell command or the user changes a file behind the history's back. *)
Touch(f) ==
  /\ Room
  /\ \/ disk' = [disk EXCEPT ![f] = NextContent]
     \/ disk[f] # Absent /\ disk' = [disk EXCEPT ![f] = Absent]
  /\ counts' = [counts EXCEPT !.edits = @ + 1]
  /\ wild' = [wild EXCEPT ![f] = NextContent]
  /\ UNCHANGED <<log, open, saved, store, op, pc, shown, pending, cuts>>

(* -------------------------------- rewinds ------------------------------- *)

(* /rewind shows the list of snapshots. *)
ShowSnapshots(p) ==
  /\ op = Unlocked
  /\ saved.snapshots # <<>>
  /\ Goes(p, "idle", "dialog")
  /\ shown' = [shown EXCEPT ![p] = saved.snapshots]
  /\ UNCHANGED <<log, open, disk, saved, store, op, pending, counts, cuts, wild>>
(* The dialog is left, by the user or because the index that was picked is  *)
(* not in the list any more.                                                *)
Cancel(p) ==
  /\ Goes(p, "dialog", "idle")
  /\ shown' = [shown EXCEPT ![p] = <<>>]
  /\ UNCHANGED <<log, open, disk, saved, store, op, pending, counts, cuts, wild>>

(* The user picks the i-th snapshot of the list and what is to be rewound.  *)
(* The remote server looks the list up again by the snapshot's identity,    *)
(* which is a dialog that shows the list at the last moment.                *)
Chosen(p, i) ==
  /\ i \in DOMAIN shown[p]
  /\ pending' = [pending EXCEPT ![p] = shown[p][i].at]
  /\ shown' = [shown EXCEPT ![p] = <<>>]
RewindConversation(p, i) ==
  /\ Goes(p, "dialog", "cutting")
  /\ Len(cuts) < MaxCuts
  /\ Chosen(p, i)
  /\ UNCHANGED <<log, open, disk, saved, store, op, counts, cuts, wild>>

(* The history is loaded anew and rewound by the index. *)
RewindCode(p, i) ==
  /\ op = Unlocked
  /\ i \in DOMAIN Loaded.snapshots
  /\ \E action \in {"code_and_conversation", "code_only"} :
       /\ Goes(p, "dialog", action)
       /\ action # "code_only" => Len(cuts) < MaxCuts
  /\ Chosen(p, i)
  /\ op' = [Locked(p, "rewind", i, "restore") EXCEPT
              !.left = Loaded.tracked \cup DOMAIN Loaded.snapshots[i].backups]
  /\ UNCHANGED <<log, open, disk, saved, store, counts, cuts, wild>>

Target == op.work.snapshots[op.subject]

(* A file of the snapshot gets its backup back, if there is one. *)
Restored(f) ==
  LET backup == Target.backups[f]
      name == BackupName(f, Target.no)
  IN IF backup = "absent" THEN Absent
     ELSE IF backup = "existing" /\ name \in DOMAIN store THEN store[name] ELSE disk[f]
Restore(p, f) ==
  /\ op.by = p /\ op.step = "restore"
  /\ f \in op.left \cap DOMAIN Target.backups
  /\ disk' = [disk EXCEPT ![f] = Restored(f)]
  /\ op' = [op EXCEPT !.left = @ \ {f}]
  /\ UNCHANGED <<log, open, saved, store, pc, shown, pending, counts, cuts, wild>>

Resolvable(f) ==
  /\ f \in DOMAIN op.work.baselines
  /\ \/ op.work.baselines[f] = "absent"
     \/ op.work.baselines[f] = "existing" /\ BaselineName(f) \in DOMAIN store

(* Mutant: a file that got its baseline back stays tracked. *)
RestoreBaseline_KeepsTracking(p, f) ==
  /\ op.by = p /\ op.step = "restore"
  /\ f \in op.left \ DOMAIN Target.backups
  /\ op.left \cap DOMAIN Target.backups = {}
  /\ \/ /\ Resolvable(f)
        /\ disk' = [disk EXCEPT ![f] = IF op.work.baselines[f] = "absent" THEN Absent
                                       ELSE store[BaselineName(f)]]
        /\ store' = IF op.work.baselines[f] = "absent" THEN store ELSE Without({BaselineName(f)})
        /\ op' = [op EXCEPT !.left = @ \ {f},
                            !.work.baselines = On(@, Files \ {f})]
     \/ /\ ~Resolvable(f)
        /\ op' = [op EXCEPT !.left = @ \ {f}]
        /\ UNCHANGED <<disk, store>>
  /\ UNCHANGED <<log, open, saved, pc, shown, pending, counts, cuts, wild>>

(* A file that was tracked later gets its baseline back, which has then had *)
(* its use.  What cannot be restored stays tracked.                         *)
RestoreBaseline(p, f) ==
  /\ op.by = p /\ op.step = "restore"
  /\ f \in op.left \ DOMAIN Target.backups
  /\ op.left \cap DOMAIN Target.backups = {}
  /\ \/ /\ Resolvable(f)
        /\ disk' = [disk EXCEPT ![f] = IF op.work.baselines[f] = "absent" THEN Absent
                                       ELSE store[BaselineName(f)]]
        /\ store' = IF op.work.baselines[f] = "absent" THEN store ELSE Without({BaselineName(f)})
        /\ op' = [op EXCEPT !.left = @ \ {f}, !.work.tracked = @ \ {f},
                            !.work.baselines = On(@, Files \ {f})]
     \/ /\ ~Resolvable(f)
        /\ op' = [op EXCEPT !.left = @ \ {f}]
        /\ UNCHANGED <<disk, store>>
  /\ UNCHANGED <<log, open, saved, pc, shown, pending, counts, cuts, wild>>

(* A file cannot be written, deleted or read back: the error is logged and  *)
(* the rewind goes on.  A file tracked later stays tracked for another try. *)
RestoreFails(p, f) ==
  /\ op.by = p /\ op.step = "restore"
  /\ f \in op.left
  /\ f \notin DOMAIN Target.backups => op.left \cap DOMAIN Target.backups = {}
  /\ Faulty /\ Fault
  /\ op' = [op EXCEPT !.left = @ \ {f}]
  /\ UNCHANGED <<log, open, disk, saved, store, pc, shown, pending, cuts, wild>>

(* Mutant: the numbers of dropped snapshots are given again. *)
Discard_Renumbers(p) ==
  LET snapshots == op.work.snapshots
      later == SubSeq(snapshots, op.subject + 1, Len(snapshots))
  IN /\ op.by = p /\ op.step = "restore" /\ op.left = {}
     /\ store' = Without(BackupsOf(later))
     /\ op' = [op EXCEPT !.step = "save",
                         !.work.snapshots = SubSeq(snapshots, 1, op.subject),
                         !.work.next = op.subject + 1,
                         !.work.tracked = @ \cup DOMAIN Target.backups]
     /\ UNCHANGED <<log, open, disk, saved, pc, shown, pending, counts, cuts, wild>>

(* Mutant: the target's backups go with the later ones. *)
Discard_FromTarget(p) ==
  LET snapshots == op.work.snapshots
      later == SubSeq(snapshots, op.subject, Len(snapshots))
  IN /\ op.by = p /\ op.step = "restore" /\ op.left = {}
     /\ store' = Without(BackupsOf(later))
     /\ op' = [op EXCEPT !.step = "save",
                         !.work.snapshots = SubSeq(snapshots, 1, op.subject),
                         !.work.tracked = @ \cup DOMAIN Target.backups]
     /\ UNCHANGED <<log, open, disk, saved, pc, shown, pending, counts, cuts, wild>>

(* The snapshots after the target are dropped, their backups first. *)
Discard(p) ==
  LET snapshots == op.work.snapshots
      later == SubSeq(snapshots, op.subject + 1, Len(snapshots))
  IN /\ op.by = p /\ op.step = "restore" /\ op.left = {}
     /\ store' = Without(BackupsOf(later))
     /\ op' = [op EXCEPT !.step = "save",
                         !.work.snapshots = SubSeq(snapshots, 1, op.subject),
                         !.work.tracked = @ \cup DOMAIN Target.backups]
     /\ UNCHANGED <<log, open, disk, saved, pc, shown, pending, counts, cuts, wild>>

(* Where a process goes on when its history operation is done. *)
After(p) ==
  CASE op.kind = "track" -> {op.subject}
    [] op.kind = "rewind" -> {IF pc[p] = "code_only" THEN "idle" ELSE "cutting"}
    [] op.kind = "snapshot" -> IF pc[p] = "counted" THEN {"run"} ELSE {"run", "idle"}

(* The history is written and renamed into place.  A failure is logged and  *)
(* otherwise ignored.                                                       *)
Save(p) ==
  /\ op.by = p /\ op.step = "save"
  /\ \/ saved' = op.work /\ UNCHANGED counts
     \/ Faulty /\ Fault /\ UNCHANGED saved
  /\ op' = Unlocked
  /\ \E next \in After(p) :
       /\ pc' = [pc EXCEPT ![p] = next]
       /\ pending' = IF next = "cutting" THEN pending ELSE [pending EXCEPT ![p] = <<>>]
  /\ UNCHANGED <<log, open, disk, store, shown, cuts, wild>>

(* The log is cut to the length the snapshot names, and the conversation    *)
(* rebuilt from what remains.                                               *)
Cut(p) ==
  /\ Goes(p, "cutting", "idle")
  /\ log' = Prefix(log, pending[p].lines)
  /\ open' = FALSE
  /\ cuts' = Append(cuts, pending[p].lines)
  /\ pending' = [pending EXCEPT ![p] = <<>>]
  /\ UNCHANGED <<disk, saved, store, op, shown, counts, wild>>

(* A process dies; a lock it held is taken back from it. *)
Crash(p) ==
  /\ pc[p] # "off" /\ Faulty /\ Fault
  /\ pc' = [pc EXCEPT ![p] = "off"]
  /\ shown' = [shown EXCEPT ![p] = <<>>]
  /\ pending' = [pending EXCEPT ![p] = <<>>]
  /\ op' = IF op.by = p THEN Unlocked ELSE op
  /\ UNCHANGED <<log, open, disk, saved, store, cuts, wild>>

Next ==
  \/ \E p \in Processes :
       \/ Open(p) \/ Prompt(p) \/ Notified(p) \/ Message(p) \/ Compact(p) \/ Tear(p)
       \/ Count(p) \/ Interrupt(p) \/ Copy(p) \/ Prune(p)
       \/ WriteFile(p) \/ Save(p)
       \/ ShowSnapshots(p) \/ Cancel(p) \/ Discard(p) \/ Cut(p) \/ Crash(p)
       \/ \E i \in 1..MaxSnapshots : RewindConversation(p, i) \/ RewindCode(p, i)
       \/ \E f \in Files : \/ TrackEdit(p, f) \/ Restore(p, f) \/ RestoreBaseline(p, f)
                           \/ RestoreFails(p, f)
  \/ \E f \in Files : Touch(f)

Spec == Init /\ [][Next]_vars

(* ------------------------------ properties ------------------------------ *)

Checkpoints == [lines : 0..MaxWrites, talk : Seq(Messages), cuts : Nat, ended : BOOLEAN]
IsSnapshot(s) ==
  /\ s.no \in 1..MaxTaken
  /\ DOMAIN s.backups \subseteq Files /\ \A f \in DOMAIN s.backups : s.backups[f] \in BackupStates
  /\ s.at \in Checkpoints
  /\ s.was \in [Files -> Contents] /\ s.edits \in Contents
IsList(snapshots) == /\ DOMAIN snapshots = 1..Len(snapshots)
                     /\ \A i \in DOMAIN snapshots : IsSnapshot(snapshots[i])
IsHistory(h) ==
  /\ IsList(h.snapshots)
  /\ h.tracked \subseteq Files
  /\ DOMAIN h.baselines \subseteq Files
  /\ \A f \in DOMAIN h.baselines : h.baselines[f] \in BackupStates
  /\ h.next \in 1..MaxTaken + 1

(* Every variable has a value of its kind, and the history on disk keeps no *)
(* more snapshots than the cap (file-history/index.ts).                     *)
TypeOK ==
  /\ \A i \in DOMAIN log : Len(log[i]) >= 1
  /\ open => log # <<>>
  /\ disk \in [Files -> Contents]
  /\ IsHistory(saved) /\ Len(saved.snapshots) <= MaxSnapshots
  /\ DOMAIN store \subseteq Names
  /\ \A name \in DOMAIN store : store[name] \in Contents \ {Absent}
  /\ op.by \in Processes \cup {None} /\ IsHistory(op.work) /\ op.left \subseteq Files
  /\ pc \in [Processes -> Files \cup Steps]
  /\ \A p \in Processes : IsList(shown[p])
  /\ wild \in [Files -> Contents]

(* A backup that a snapshot of the history names holds what the file held   *)
(* when the snapshot was taken, whatever was pruned, rewound or written by  *)
(* another process since: the names never repeat (nextSnapshotSeq).  Only a *)
(* death or a failed save can leave a snapshot without its backups.         *)
BackupsExact ==
  \A i \in DOMAIN saved.snapshots :
    LET s == saved.snapshots[i]
    IN \A f \in Existing(s) :
         IF BackupName(f, s.no) \in DOMAIN store THEN store[BackupName(f, s.no)] = s.was[f]
         ELSE counts.faults > 0 \/ op # Unlocked

(* Until something fails, its own restore included, a file that a rewind    *)
(* restores has the content it had at the snapshot (rewindUnlocked); if its *)
(* tracking began later, that holds unless it was changed by something else *)
(* than the edit tools.                                                     *)
RestoredExact ==
  [][\A f \in Files :
       (op'.kind = "rewind" /\ f \in op.left \ op'.left /\ counts'.faults = 0)
       => \/ disk'[f] = Target.was[f]
          \/ f \notin DOMAIN Target.backups /\ wild[f] > Target.edits]_vars

(* A rewind that dies on its way can be repeated: no step of it takes its   *)
(* target from the list, or a backup of the target from the disk, although  *)
(* it deletes the backups of the later snapshots (rewindUnlocked).          *)
TargetSurvives ==
  [][op.kind = "rewind" =>
       /\ BackupsOf(<<Target>>) \cap DOMAIN store \subseteq DOMAIN store'
       /\ saved' # saved => \E i \in DOMAIN saved'.snapshots : saved'.snapshots[i] = Target]_vars

(* As long as the log was not cut below it, the line count of a snapshot    *)
(* still marks the conversation of its time: over later messages, later     *)
(* compactions, torn lines and rewinds to later points                      *)
(* (truncateSessionLines, rebuildFromSession).                              *)
Intact(at) == at.ended /\ \A c \in DOMAIN cuts : c > at.cuts => cuts[c] >= at.lines
BranchExact ==
  /\ TypeOK
  /\ \A i \in DOMAIN saved.snapshots :
       LET at == saved.snapshots[i].at
       IN Intact(at) => Rebuilt(Prefix(log, at.lines)) = at.talk

(* What the comments of file-history/index.ts and session/index.ts promise: *)
(* line positions are never renumbered, so that cutting the log at a        *)
(* snapshot's count reconstructs exactly the rewound conversation.          *)
RewindExact ==
  [][\A p \in Processes : cuts' # cuts /\ pc[p] = "cutting" /\ pc'[p] = "idle"
       => Rebuilt(log') = pending[p].talk]_vars
=============================================================================
