----------------------------- MODULE RewindProofs ----------------------------
(***************************************************************************)
(* What the file history can always fall back on, for any number of        *)
(* processes, files, snapshots and faults: backups with the content of     *)
(* their snapshot, and the target of a rewind until the rewind is over;    *)
(* what a rewind makes of them, until something fails; and the line counts *)
(* of the checkpoints, which mark the conversation of their time until the *)
(* log is cut below them.                                                  *)
(***************************************************************************)
EXTENDS Rewind, SequenceTheorems, FiniteSetTheorems, TLAPS

(* ------------------------- lists of snapshots --------------------------- *)

(* A sequence of whatever its elements are.                                *)
IsSequence(s) == s \in Seq({s[i] : i \in DOMAIN s})

LEMMA SequenceShape ==
  ASSUME NEW s, IsSequence(s)
  PROVE  Len(s) \in Nat /\ DOMAIN s = 1..Len(s)
BY DEF IsSequence

LEMMA SequenceOf ==
  ASSUME NEW S, NEW s \in Seq(S)
  PROVE  IsSequence(s)
<1>1. s \in [1..Len(s) -> S] /\ Len(s) \in Nat
  OBVIOUS
<1>2. s \in [1..Len(s) -> {s[i] : i \in DOMAIN s}]
  BY <1>1
<1> QED BY <1>1, <1>2 DEF IsSequence

LEMMA Appending ==
  ASSUME NEW s, IsSequence(s), NEW x
  PROVE  /\ IsSequence(Append(s, x))
         /\ Len(Append(s, x)) = Len(s) + 1
         /\ \A i \in 1..Len(s) : Append(s, x)[i] = s[i]
         /\ Append(s, x)[Len(s) + 1] = x
<1> DEFINE S == {s[i] : i \in DOMAIN s} \cup {x}
<1>1. s \in Seq(S) /\ x \in S
  BY DEF IsSequence
<1> HIDE DEF S
<1>2. Append(s, x) \in Seq(S)
  BY <1>1
<1>3. IsSequence(Append(s, x))
  BY <1>2, SequenceOf
<1> QED BY <1>1, <1>3

(* The m-th to n-th elements of a sequence.                                *)
IsPart(part, s, m, n) ==
  /\ IsSequence(part)
  /\ \A i \in DOMAIN part : i + m - 1 \in m..n /\ part[i] = s[i + m - 1]

LEMMA Cutting ==
  ASSUME NEW s, IsSequence(s), NEW m \in Nat \ {0}, NEW n \in 0..Len(s)
  PROVE  IsPart(SubSeq(s, m, n), s, m, n)
<1> DEFINE S == {s[i] : i \in DOMAIN s}
<1>1. s \in Seq(S) /\ Len(s) \in Nat
  BY SequenceShape DEF IsSequence
<1> HIDE DEF S
<1>2. SubSeq(s, m, n) \in Seq(S)
  BY <1>1
<1>3. IsSequence(SubSeq(s, m, n))
  BY <1>2, SequenceOf
<1>4. DOMAIN SubSeq(s, m, n) = 1..Len(SubSeq(s, m, n))
  BY <1>3, SequenceShape
<1>5. \A i \in 1..Len(SubSeq(s, m, n)) : i + m - 1 \in m..n /\ SubSeq(s, m, n)[i] = s[i + m - 1]
  BY <1>1
<1> QED BY <1>3, <1>4, <1>5 DEF IsPart

(* Numbers grow along the list and stay below the next one, none is 0.     *)
Numbered(h) ==
  /\ IsSequence(h.snapshots) /\ h.next \in Nat \ {0}
  /\ \A i \in DOMAIN h.snapshots :
       /\ h.snapshots[i].no \in Nat \ {0} /\ h.snapshots[i].no < h.next
       /\ \A j \in DOMAIN h.snapshots : i < j => h.snapshots[i].no < h.snapshots[j].no

(* The backups of these snapshots that are in a store are right, and they  *)
(* are all there.                                                          *)
ExactIn(snapshots, backups) ==
  \A i \in DOMAIN snapshots : \A f \in Existing(snapshots[i]) :
    BackupName(f, snapshots[i].no) \in DOMAIN backups
    => backups[BackupName(f, snapshots[i].no)] = snapshots[i].was[f]
HeldIn(snapshots, backups) ==
  \A i \in DOMAIN snapshots : \A f \in Existing(snapshots[i]) :
    BackupName(f, snapshots[i].no) \in DOMAIN backups

(* A part of a list has what the list has.                                 *)
LEMMA PartOfList ==
  ASSUME NEW h, Numbered(h), NEW m \in Nat \ {0}, NEW n \in 0..Len(h.snapshots),
         NEW g, g.next = h.next, IsPart(g.snapshots, h.snapshots, m, n), NEW backups
  PROVE  /\ Numbered(g)
         /\ ExactIn(h.snapshots, backups) => ExactIn(g.snapshots, backups)
         /\ HeldIn(h.snapshots, backups) => HeldIn(g.snapshots, backups)
<1>1. Len(h.snapshots) \in Nat /\ DOMAIN h.snapshots = 1..Len(h.snapshots)
  BY SequenceShape DEF Numbered
<1>2. DOMAIN g.snapshots = 1..Len(g.snapshots) /\ Len(g.snapshots) \in Nat
  BY SequenceShape DEF IsPart
<1>3. \A i \in DOMAIN g.snapshots :
        i + m - 1 \in DOMAIN h.snapshots /\ g.snapshots[i] = h.snapshots[i + m - 1]
  BY <1>1, <1>2 DEF IsPart
<1>4. \A i, j \in DOMAIN g.snapshots : i < j => i + m - 1 < j + m - 1
  BY <1>2
<1>5. Numbered(g)
  BY <1>3, <1>4 DEF Numbered, IsPart
<1>6. ExactIn(h.snapshots, backups) => ExactIn(g.snapshots, backups)
  BY <1>3 DEF ExactIn
<1>7. HeldIn(h.snapshots, backups) => HeldIn(g.snapshots, backups)
  BY <1>3 DEF HeldIn
<1> QED BY <1>5, <1>6, <1>7

(* Two parts of a list that do not meet have no backup in common.          *)
LEMMA PartsApart ==
  ASSUME NEW h, Numbered(h),
         NEW m \in Nat \ {0}, NEW n \in 0..Len(h.snapshots),
         NEW k \in Nat \ {0}, NEW l \in 0..Len(h.snapshots),
         n < k \/ l < m,
         NEW part, IsPart(part, h.snapshots, m, n),
         NEW gone, IsPart(gone, h.snapshots, k, l),
         NEW i \in DOMAIN part, NEW f
  PROVE  BackupName(f, part[i].no) \notin BackupsOf(gone)
<1>1. Len(h.snapshots) \in Nat /\ DOMAIN h.snapshots = 1..Len(h.snapshots)
  BY SequenceShape DEF Numbered
<1>2. /\ DOMAIN part = 1..Len(part) /\ Len(part) \in Nat
      /\ DOMAIN gone = 1..Len(gone) /\ Len(gone) \in Nat
  BY SequenceShape DEF IsPart
<1>3. SUFFICES ASSUME NEW j \in DOMAIN gone, NEW g,
                      BackupName(f, part[i].no) = BackupName(g, gone[j].no)
               PROVE  FALSE
  BY DEF BackupsOf
<1>4. i + m - 1 \in m..n /\ part[i] = h.snapshots[i + m - 1]
  BY DEF IsPart
<1>5. j + k - 1 \in k..l /\ gone[j] = h.snapshots[j + k - 1]
  BY DEF IsPart
<1>6. i + m - 1 \in DOMAIN h.snapshots /\ j + k - 1 \in DOMAIN h.snapshots
  BY <1>1, <1>4, <1>5
<1>7. i + m - 1 < j + k - 1 \/ j + k - 1 < i + m - 1
  BY <1>1, <1>2, <1>4, <1>5
<1>8. part[i].no = gone[j].no
  BY <1>3 DEF BackupName
<1> QED BY <1>4, <1>5, <1>6, <1>7, <1>8 DEF Numbered

(* What is left of a store without some backups, which is as right as it was. *)
Left(backups, names) == [name \in DOMAIN backups \ names |-> backups[name]]

LEMMA FewerBackups ==
  ASSUME NEW snapshots, NEW backups, NEW names, ExactIn(snapshots, backups)
  PROVE  ExactIn(snapshots, Left(backups, names))
BY DEF ExactIn, Left

(* A part of a list is kept and the backups of another are deleted.        *)
LEMMA PartDropped ==
  ASSUME NEW h, Numbered(h), NEW backups, ExactIn(h.snapshots, backups),
         NEW m \in Nat \ {0}, NEW n \in 0..Len(h.snapshots),
         NEW k \in Nat \ {0}, NEW l \in 0..Len(h.snapshots),
         n < k \/ l < m,
         NEW g, g.next = h.next, IsPart(g.snapshots, h.snapshots, m, n),
         NEW gone, IsPart(gone, h.snapshots, k, l),
         NEW fewer, fewer = Left(backups, BackupsOf(gone))
  PROVE  /\ Numbered(g) /\ ExactIn(g.snapshots, fewer)
         /\ HeldIn(h.snapshots, backups) => HeldIn(g.snapshots, fewer)
<1>1. /\ Numbered(g) /\ ExactIn(g.snapshots, backups)
      /\ HeldIn(h.snapshots, backups) => HeldIn(g.snapshots, backups)
  BY PartOfList
<1>2. ExactIn(g.snapshots, fewer)
  BY <1>1, FewerBackups
<1>3. \A i \in DOMAIN g.snapshots : \A f \in Existing(g.snapshots[i]) :
        BackupName(f, g.snapshots[i].no) \notin BackupsOf(gone)
  BY PartsApart
<1>4. HeldIn(g.snapshots, backups) => HeldIn(g.snapshots, fewer)
  BY <1>3 DEF HeldIn, Left
<1> QED BY <1>1, <1>2, <1>4

(* ------------------------------ the invariant --------------------------- *)

Fields == {"snapshots", "tracked", "baselines", "next"}

(* The history on disk, and the copy the running operation works on, are    *)
(* numbered and have the right backups; until something fails the copy has  *)
(* all of them, and the history when nobody works on it.                    *)
HistoryInv ==
  /\ DOMAIN saved = Fields /\ Numbered(saved) /\ ExactIn(saved.snapshots, store)
  /\ DOMAIN op.work = Fields /\ Numbered(op.work) /\ ExactIn(op.work.snapshots, store)
  /\ counts.faults = 0 => HeldIn(op.work.snapshots, store)
  /\ counts.faults = 0 /\ op = Unlocked => HeldIn(saved.snapshots, store)
  /\ DOMAIN counts = {"messages", "edits", "faults"} /\ counts.faults \in Nat

(* The steps of an operation, and the target of a rewind, which stays.      *)
OperationInv ==
  /\ DOMAIN op = {"by", "kind", "subject", "step", "work", "left"}
  /\ op = Unlocked \/ op.step \in {"prune", "restore", "save"}
  /\ op = Unlocked \/ op.kind \in {"snapshot", "track", "rewind"}
  /\ op.step = "prune" => op.kind = "snapshot"
  /\ op.step = "restore" => op.kind = "rewind"
  /\ op.kind = "rewind" => op.subject \in DOMAIN op.work.snapshots

LEMMA Empty == Numbered(NoHistory) /\ DOMAIN NoHistory = Fields
               /\ \A backups : ExactIn(NoHistory.snapshots, backups) /\ HeldIn(NoHistory.snapshots, backups)
<1>1. <<>> \in Seq({}) /\ DOMAIN <<>> = {} /\ NoHistory.snapshots = <<>> /\ NoHistory.next = 1
  BY DEF NoHistory
<1>2. IsSequence(<<>>)
  BY <1>1, SequenceOf
<1>3. \A x : x \notin DOMAIN NoHistory.snapshots
  BY <1>1
<1>4. DOMAIN NoHistory = Fields
  BY DEF NoHistory, Fields
<1>5. Numbered(NoHistory)
  BY <1>1, <1>2, <1>3 DEF Numbered
<1> QED BY <1>3, <1>4, <1>5 DEF ExactIn, HeldIn

(* An operation of a kind is at a step.                                     *)
OperationIs(kind, step) ==
  /\ DOMAIN op' = {"by", "kind", "subject", "step", "work", "left"}
  /\ DOMAIN op'.work = Fields /\ op'.kind = kind /\ op'.step = step

(* What an operation loads are the snapshots on disk.                       *)
LEMMA LoadedSnapshots ==
  ASSUME DOMAIN saved = Fields
  PROVE  /\ Loaded.snapshots = saved.snapshots /\ Loaded.next = saved.next
         /\ Loaded.baselines = saved.baselines /\ DOMAIN Loaded = Fields
BY DEF Loaded, Fields

(* -------------------------------- the steps ------------------------------ *)

FaultsGrow == /\ DOMAIN counts' = DOMAIN counts /\ counts'.faults \in Nat
              /\ counts'.faults = counts.faults \/ counts'.faults > 0

LEMMA FaultsCounted ==
  ASSUME HistoryInv, counts' = counts \/ Fault
  PROVE  FaultsGrow
BY DEF HistoryInv, Fault, FaultsGrow

(* Steps that leave the history alone.                                     *)
LEMMA OthersKeep ==
  ASSUME HistoryInv, OperationInv, UNCHANGED <<saved, store, op>>, FaultsGrow
  PROVE  HistoryInv' /\ OperationInv'
BY DEF HistoryInv, OperationInv, FaultsGrow

LEMMA QuietSteps ==
  ASSUME HistoryInv, NEW p \in Processes,
         \/ Open(p) \/ Prompt(p) \/ Notified(p) \/ Message(p) \/ Compact(p) \/ Tear(p)
         \/ Count(p) \/ Interrupt(p) \/ WriteFile(p) \/ ShowSnapshots(p) \/ Cancel(p) \/ Cut(p)
         \/ \E i \in 1..MaxSnapshots : RewindConversation(p, i)
  PROVE  UNCHANGED <<saved, store, op>> /\ FaultsGrow
<1> USE DEF HistoryInv, FaultsGrow
<1>1. CASE Open(p) \/ Notified(p) \/ Count(p) \/ Interrupt(p) \/ ShowSnapshots(p) \/ Cancel(p) \/ Cut(p)
  BY <1>1 DEF Open, Notified, Count, Interrupt, ShowSnapshots, Cancel, Cut
<1>2. CASE Prompt(p) \/ Message(p) \/ Compact(p)
  BY <1>2 DEF Prompt, Message, Compact, Wrote, Counted
<1>3. CASE Tear(p)
  BY <1>3 DEF Tear, Wrote
<1>4. CASE WriteFile(p)
  BY <1>4 DEF WriteFile
<1>5. CASE \E i \in 1..MaxSnapshots : RewindConversation(p, i)
  BY <1>5 DEF RewindConversation
<1> QED BY <1>1, <1>2, <1>3, <1>4, <1>5

(* An operation begins with what is on disk.                                *)
LEMMA LoadedSound ==
  ASSUME HistoryInv, op = Unlocked
  PROVE  /\ DOMAIN Loaded = Fields /\ Numbered(Loaded)
         /\ ExactIn(Loaded.snapshots, store)
         /\ counts.faults = 0 => HeldIn(Loaded.snapshots, store)
BY LoadedSnapshots DEF HistoryInv, Numbered

(* A store that got other names only.                                       *)
LEMMA MoreBackups ==
  ASSUME NEW snapshots, NEW backups, NEW more,
         \A i \in DOMAIN snapshots : \A f \in Existing(snapshots[i]) :
           BackupName(f, snapshots[i].no) \notin DOMAIN more
  PROVE  /\ ExactIn(snapshots, backups) => ExactIn(snapshots, Over(more, backups))
         /\ HeldIn(snapshots, backups) => HeldIn(snapshots, Over(more, backups))
BY DEF ExactIn, HeldIn, Over

(* The snapshot that is taken.                                              *)
IsNew(p, new) ==
  /\ new.no = Loaded.next /\ new.was = disk /\ new.edits = counts.edits + 1
  /\ new.at = pending[p]
  /\ DOMAIN new.backups = Loaded.tracked
  /\ \A f \in Loaded.tracked :
       \/ new.backups[f] = "absent" /\ disk[f] = Absent
       \/ new.backups[f] = "existing" /\ disk[f] # Absent
       \/ new.backups[f] = "unavailable" /\ disk[f] # Absent /\ Fault

LEMMA CopyShape ==
  ASSUME DOMAIN saved = Fields, NEW p \in Processes, Copy(p)
  PROVE  /\ op = Unlocked /\ UNCHANGED <<saved, disk, wild>> /\ (counts' = counts \/ Fault)
         /\ OperationIs("snapshot", "prune") /\ op'.by = p /\ op'.left = {}
         /\ op'.work.next = Loaded.next + 1
         /\ op'.work.tracked = Loaded.tracked /\ op'.work.baselines = Loaded.baselines
         /\ \E new, more :
              /\ IsNew(p, new) /\ op'.work.snapshots = Append(Loaded.snapshots, new)
              /\ DOMAIN more = {BackupName(f, new.no) : f \in Existing(new)}
              /\ \A f \in Existing(new) : more[BackupName(f, new.no)] = disk[f]
              /\ store' = Over(more, store)
<1> DEFINE start == Locked(p, "snapshot", 0, "prune")
           backups(unavailable) ==
             [f \in start.work.tracked |-> IF disk[f] = Absent THEN "absent"
                                           ELSE IF f \in unavailable THEN "unavailable"
                                           ELSE "existing"]
           snapshot(states) == [no |-> start.work.next, backups |-> states, at |-> pending[p],
                                was |-> disk, edits |-> counts.edits + 1]
           names(states) == BackupsOf(<<snapshot(states)>>)
<1>1. /\ start = [by |-> p, kind |-> "snapshot", subject |-> 0, step |-> "prune",
                  work |-> Loaded, left |-> {}]
      /\ DOMAIN Loaded = Fields
  BY LoadedSnapshots DEF Locked
<1>2. op = Unlocked /\ UNCHANGED <<saved, disk, wild>> /\ (counts' = counts \/ Fault)
  BY DEF Copy
<1>3. PICK unavailable :
        /\ unavailable = {} \/ Fault
        /\ store' = Over([name \in names(backups(unavailable)) |-> disk[name[1]]], store)
        /\ op' = [start EXCEPT !.work.snapshots = Append(@, snapshot(backups(unavailable))),
                               !.work.next = @ + 1]
  BY DEF Copy
<1> DEFINE new == snapshot(backups(unavailable))
           more == [name \in names(backups(unavailable)) |-> disk[name[1]]]
           list == Append(Loaded.snapshots, new)
<1>4. IsNew(p, new)
  BY <1>1, <1>3 DEF IsNew
<1>5. names(backups(unavailable)) = {BackupName(f, new.no) : f \in Existing(new)}
  <2> HIDE DEF backups
  <2>1. \A x : x \in names(backups(unavailable))
               <=> \E f \in Existing(new) : x = BackupName(f, new.no)
    BY DEF BackupsOf
  <2> HIDE DEF names, new
  <2> QED BY <2>1
<1>6. /\ DOMAIN more = {BackupName(f, new.no) : f \in Existing(new)}
      /\ \A f \in Existing(new) : more[BackupName(f, new.no)] = disk[f]
  <2> HIDE DEF new, names
  <2> QED BY <1>5 DEF BackupName
<1> HIDE DEF backups
<1>7. /\ OperationIs("snapshot", "prune") /\ op'.by = p /\ op'.left = {}
      /\ op'.work.snapshots = list /\ op'.work.next = Loaded.next + 1
      /\ op'.work.tracked = Loaded.tracked /\ op'.work.baselines = Loaded.baselines
  <2> DEFINE listed == [start EXCEPT !.work.snapshots = list]
  <2>1. /\ start.work = Loaded /\ start.kind = "snapshot" /\ start.step = "prune"
        /\ start.by = p /\ start.left = {}
        /\ DOMAIN start = {"by", "kind", "subject", "step", "work", "left"}
    BY <1>1
  <2> HIDE DEF start
  <2>2. /\ DOMAIN listed = {"by", "kind", "subject", "step", "work", "left"}
        /\ listed.work = [Loaded EXCEPT !.snapshots = list]
        /\ listed.kind = "snapshot" /\ listed.step = "prune"
        /\ listed.by = p /\ listed.left = {}
    BY <2>1
  <2>3. /\ DOMAIN listed.work = Fields /\ listed.work.snapshots = list
        /\ listed.work.next = Loaded.next /\ listed.work.tracked = Loaded.tracked
        /\ listed.work.baselines = Loaded.baselines
    BY <1>1, <2>2 DEF Fields
  <2>4. op' = [listed EXCEPT !.work.next = listed.work.next + 1]
    BY <1>3, <2>1
  <2> HIDE DEF listed
  <2>5. /\ op'.work = [listed.work EXCEPT !.next = listed.work.next + 1]
        /\ DOMAIN op' = DOMAIN listed /\ op'.kind = listed.kind /\ op'.step = listed.step
        /\ op'.by = listed.by /\ op'.left = listed.left
    BY <2>2, <2>4
  <2> QED BY <2>2, <2>3, <2>5 DEF Fields, OperationIs
<1>8. store' = Over(more, store)
  BY <1>3
<1> HIDE DEF new, more, list
<1>9. op'.work.snapshots = Append(Loaded.snapshots, new)
  BY <1>7 DEF list
<1> QED BY <1>2, <1>4, <1>6, <1>7, <1>8, <1>9

(* A snapshot: the new backups have a number no other snapshot has.         *)
LEMMA CopyKeeps ==
  ASSUME HistoryInv, OperationInv, NEW p \in Processes, Copy(p)
  PROVE  HistoryInv' /\ OperationInv'
<1>1. DOMAIN saved = Fields
  BY DEF HistoryInv
<1>2. op = Unlocked /\ saved' = saved /\ (counts' = counts \/ Fault)
  BY <1>1, CopyShape
<1>3. FaultsGrow
  BY <1>2, FaultsCounted
<1>4. PICK new, more :
        /\ IsNew(p, new) /\ op'.work.snapshots = Append(Loaded.snapshots, new)
        /\ DOMAIN more = {BackupName(f, new.no) : f \in Existing(new)}
        /\ \A f \in Existing(new) : more[BackupName(f, new.no)] = disk[f]
        /\ store' = Over(more, store)
  BY <1>1, CopyShape
<1> DEFINE list == Append(Loaded.snapshots, new)
<1>5. Numbered(Loaded) /\ ExactIn(Loaded.snapshots, store)
      /\ (counts.faults = 0 => HeldIn(Loaded.snapshots, store))
  BY <1>2, LoadedSound
<1>6. new.no = Loaded.next /\ new.was = disk
  BY <1>4 DEF IsNew
<1>7. /\ OperationIs("snapshot", "prune") /\ op'.work.next = Loaded.next + 1
      /\ op'.work.snapshots = list
  BY <1>1, <1>4, CopyShape
<1>8. /\ IsSequence(list) /\ Len(list) = Len(Loaded.snapshots) + 1
      /\ \A i \in 1..Len(Loaded.snapshots) : list[i] = Loaded.snapshots[i]
      /\ list[Len(Loaded.snapshots) + 1] = new
  BY <1>5, Appending DEF Numbered
<1>9. /\ DOMAIN Loaded.snapshots = 1..Len(Loaded.snapshots) /\ Len(Loaded.snapshots) \in Nat
      /\ DOMAIN list = 1..Len(Loaded.snapshots) + 1
  BY <1>5, <1>8, SequenceShape DEF Numbered
<1> HIDE DEF list
<1>10. \A i \in DOMAIN list : \/ i \in DOMAIN Loaded.snapshots /\ list[i] = Loaded.snapshots[i]
                              \/ i = Len(Loaded.snapshots) + 1 /\ list[i] = new
  BY <1>8, <1>9
<1>11. Numbered(op'.work)
  <2>1. \A i \in DOMAIN list : list[i].no \in Nat \ {0} /\ list[i].no < Loaded.next + 1
    BY <1>5, <1>6, <1>10 DEF Numbered
  <2>2. ASSUME NEW i \in DOMAIN list, NEW j \in DOMAIN list, i < j
        PROVE  list[i].no < list[j].no
    <3>1. i \in DOMAIN Loaded.snapshots /\ list[i] = Loaded.snapshots[i]
      BY <1>9, <1>10, <2>2
    <3> QED BY <1>5, <1>6, <1>10, <2>2, <3>1 DEF Numbered
  <2> QED BY <1>5, <1>7, <1>8, <2>1, <2>2 DEF Numbered
<1>12. \A i \in DOMAIN Loaded.snapshots : \A f \in Existing(Loaded.snapshots[i]) :
         BackupName(f, Loaded.snapshots[i].no) \notin DOMAIN more
  BY <1>4, <1>5, <1>6 DEF Numbered, BackupName
<1>13. /\ ExactIn(Loaded.snapshots, store')
       /\ counts.faults = 0 => HeldIn(Loaded.snapshots, store')
  BY <1>4, <1>5, <1>12, MoreBackups
<1>14. \A f \in Existing(new) : /\ BackupName(f, new.no) \in DOMAIN store'
                                /\ store'[BackupName(f, new.no)] = new.was[f]
  BY <1>4, <1>6 DEF Over
<1>15. /\ ExactIn(list, store')
       /\ counts.faults = 0 => HeldIn(list, store')
  BY <1>10, <1>13, <1>14 DEF ExactIn, HeldIn
<1>16. Loaded.snapshots = saved.snapshots
  BY LoadedSnapshots DEF HistoryInv
<1>17. op' # Unlocked
  BY <1>7 DEF Unlocked, OperationIs
<1>18. counts'.faults = 0 => counts.faults = 0
  BY <1>3 DEF FaultsGrow
<1>19. HistoryInv'
  BY <1>2, <1>3, <1>7, <1>11, <1>13, <1>15, <1>16, <1>17, <1>18 DEF HistoryInv, FaultsGrow, Numbered, OperationIs
<1>20. OperationInv'
  BY <1>7 DEF OperationInv, OperationIs
<1> QED BY <1>19, <1>20

(* Baselines are not backups of snapshots.                                  *)
LEMMA BaselinesApart ==
  ASSUME NEW h, Numbered(h), NEW f, NEW i \in DOMAIN h.snapshots, NEW g
  PROVE  BackupName(g, h.snapshots[i].no) # BaselineName(f)
BY DEF Numbered, BackupName, BaselineName

(* Nor are they among the backups that are deleted with a part of a list.   *)
LEMMA BaselinesStay ==
  ASSUME NEW h, Numbered(h), NEW m \in Nat \ {0}, NEW n \in 0..Len(h.snapshots),
         NEW part, IsPart(part, h.snapshots, m, n), NEW backups, NEW f,
         NEW fewer, fewer = Left(backups, BackupsOf(part))
  PROVE  /\ BaselineName(f) \in DOMAIN backups <=> BaselineName(f) \in DOMAIN fewer
         /\ BaselineName(f) \in DOMAIN backups
            => backups[BaselineName(f)] = fewer[BaselineName(f)]
<1>1. DOMAIN h.snapshots = 1..Len(h.snapshots) /\ Len(h.snapshots) \in Nat
  BY SequenceShape DEF Numbered
<1>2. DOMAIN part = 1..Len(part) /\ Len(part) \in Nat
  BY SequenceShape DEF IsPart
<1>3. BaselineName(f) \notin BackupsOf(part)
  <2> SUFFICES ASSUME NEW j \in DOMAIN part, NEW g, BaselineName(f) = BackupName(g, part[j].no)
               PROVE  FALSE
    BY DEF BackupsOf
  <2>1. j + m - 1 \in DOMAIN h.snapshots /\ part[j] = h.snapshots[j + m - 1]
    BY <1>1, <1>2 DEF IsPart
  <2> QED BY <2>1, BaselinesApart
<1> QED BY <1>3 DEF Left

(* What tracking a file leaves of the history it works on: everything, or   *)
(* everything with a baseline of the file.                                  *)
LEMMA TrackShape ==
  ASSUME DOMAIN saved = Fields, NEW p \in Processes, NEW f \in Files, TrackEdit(p, f)
  PROVE  /\ op = Unlocked /\ UNCHANGED <<saved, disk, wild>> /\ (counts' = counts \/ Fault)
         /\ OperationIs("track", "save")
         /\ op'.by = p /\ op'.left = {} /\ op'.subject = f
         /\ op'.work.snapshots = Loaded.snapshots /\ op'.work.next = Loaded.next
         /\ \/ store' = store
            \/ disk[f] # Absent /\ store' = Over([name \in {BaselineName(f)} |-> disk[f]], store)
         /\ \/ /\ f \in Loaded.tracked /\ store' = store
               /\ op'.work.tracked = Loaded.tracked /\ op'.work.baselines = Loaded.baselines
            \/ /\ f \notin Loaded.tracked
               /\ op'.work.tracked = Loaded.tracked \cup {f}
               /\ \E state \in BackupStates :
                    /\ op'.work.baselines = Over([g \in {f} |-> state], Loaded.baselines)
                    /\ \/ state = "absent" /\ disk[f] = Absent /\ store' = store
                       \/ /\ state = "existing"
                          /\ store' = Over([name \in {BaselineName(f)} |-> disk[f]], store)
                       \/ Fault
<1> DEFINE start == Locked(p, "track", f, "save")
           based(state) == [start EXCEPT !.work.tracked = @ \cup {f},
                                         !.work.baselines = Over([g \in {f} |-> state], @)]
<1>1. DOMAIN Loaded = Fields
  BY LoadedSnapshots
<1>2. /\ DOMAIN start = {"by", "kind", "subject", "step", "work", "left"}
      /\ start.work = Loaded /\ start.kind = "track" /\ start.step = "save"
      /\ start.by = p /\ start.left = {} /\ start.subject = f
  BY DEF Locked
<1>3. /\ op = Unlocked /\ UNCHANGED <<saved, disk, wild>> /\ (counts' = counts \/ Fault)
      /\ \/ store' = store
         \/ disk[f] # Absent /\ store' = Over([name \in {BaselineName(f)} |-> disk[f]], store)
  BY DEF TrackEdit
<1>4. \/ f \in Loaded.tracked /\ op' = start /\ store' = store
      \/ /\ f \notin Loaded.tracked
         /\ \E state \in BackupStates :
              /\ op' = based(state)
              /\ \/ state = "absent" /\ disk[f] = Absent /\ store' = store
                 \/ /\ state = "existing"
                    /\ store' = Over([name \in {BaselineName(f)} |-> disk[f]], store)
                 \/ Fault
  <2>1. start.work = Loaded
    BY <1>2
  <2>2. /\ "absent" \in BackupStates /\ "existing" \in BackupStates
        /\ "unavailable" \in BackupStates
    BY DEF BackupStates
  <2>3. \/ f \in Loaded.tracked /\ op' = start /\ store' = store
        \/ f \notin Loaded.tracked /\ disk[f] = Absent /\ op' = based("absent") /\ store' = store
        \/ /\ f \notin Loaded.tracked /\ op' = based("existing")
           /\ store' = Over([name \in {BaselineName(f)} |-> disk[f]], store)
        \/ f \notin Loaded.tracked /\ op' = based("unavailable") /\ Fault
    BY <2>1 DEF TrackEdit
  <2> HIDE DEF start, based
  <2> QED BY <2>2, <2>3
<1>5. ASSUME NEW state, op' = based(state)
      PROVE  /\ OperationIs("track", "save")
             /\ op'.by = p /\ op'.left = {} /\ op'.subject = f
             /\ op'.work.snapshots = Loaded.snapshots /\ op'.work.next = Loaded.next
             /\ op'.work.tracked = Loaded.tracked \cup {f}
             /\ op'.work.baselines = Over([g \in {f} |-> state], Loaded.baselines)
  <2> DEFINE marked == [start EXCEPT !.work.tracked = @ \cup {f}]
  <2> HIDE DEF start
  <2>1. /\ DOMAIN marked = DOMAIN start /\ marked.kind = "track" /\ marked.step = "save"
        /\ marked.by = p /\ marked.left = {} /\ marked.subject = f
        /\ marked.work = [Loaded EXCEPT !.tracked = @ \cup {f}]
    BY <1>2
  <2>2. /\ DOMAIN marked.work = Fields /\ marked.work.snapshots = Loaded.snapshots
        /\ marked.work.next = Loaded.next /\ marked.work.tracked = Loaded.tracked \cup {f}
        /\ marked.work.baselines = Loaded.baselines
    BY <1>1, <2>1 DEF Fields
  <2>3. op' = [marked EXCEPT !.work.baselines = Over([g \in {f} |-> state], @)]
    BY <1>2, <1>5
  <2> HIDE DEF marked
  <2>4. /\ DOMAIN op' = DOMAIN marked /\ op'.kind = marked.kind /\ op'.step = marked.step
        /\ op'.by = marked.by /\ op'.left = marked.left /\ op'.subject = marked.subject
        /\ op'.work = [marked.work EXCEPT !.baselines = Over([g \in {f} |-> state], @)]
    BY <1>2, <2>1, <2>3
  <2> QED BY <1>2, <2>1, <2>2, <2>4 DEF Fields, OperationIs
<1>6. CASE f \in Loaded.tracked /\ op' = start /\ store' = store
  BY <1>1, <1>2, <1>3, <1>6 DEF OperationIs
<1>7. ASSUME f \notin Loaded.tracked, NEW state \in BackupStates, op' = based(state),
             \/ state = "absent" /\ disk[f] = Absent /\ store' = store
             \/ /\ state = "existing"
                /\ store' = Over([name \in {BaselineName(f)} |-> disk[f]], store)
             \/ Fault
      PROVE  /\ OperationIs("track", "save")
             /\ op'.by = p /\ op'.left = {} /\ op'.subject = f
             /\ op'.work.snapshots = Loaded.snapshots /\ op'.work.next = Loaded.next
             /\ op'.work.tracked = Loaded.tracked \cup {f}
             /\ \E s \in BackupStates :
                  /\ op'.work.baselines = Over([g \in {f} |-> s], Loaded.baselines)
                  /\ \/ s = "absent" /\ disk[f] = Absent /\ store' = store
                     \/ /\ s = "existing"
                        /\ store' = Over([name \in {BaselineName(f)} |-> disk[f]], store)
                     \/ Fault
  <2> HIDE DEF based
  <2> QED BY <1>5, <1>7
<1> HIDE DEF based, start
<1> QED BY <1>3, <1>4, <1>6, <1>7

(* A file is tracked: a baseline is added.                                  *)
LEMMA TrackKeeps ==
  ASSUME HistoryInv, OperationInv, NEW p \in Processes, NEW f \in Files, TrackEdit(p, f)
  PROVE  HistoryInv' /\ OperationInv'
<1>1. DOMAIN saved = Fields
  BY DEF HistoryInv
<1>2. op = Unlocked /\ saved' = saved /\ (counts' = counts \/ Fault)
  BY <1>1, TrackShape
<1>3. FaultsGrow
  BY <1>2, FaultsCounted
<1>4. /\ Numbered(Loaded) /\ ExactIn(Loaded.snapshots, store)
      /\ counts.faults = 0 => HeldIn(Loaded.snapshots, store)
      /\ Loaded.snapshots = saved.snapshots
  BY <1>2, LoadedSound, LoadedSnapshots DEF HistoryInv
<1>5. /\ OperationIs("track", "save")
      /\ op'.work.snapshots = Loaded.snapshots /\ op'.work.next = Loaded.next
  BY <1>1, TrackShape
<1>6. store' = store \/ store' = Over([name \in {BaselineName(f)} |-> disk[f]], store)
  BY <1>1, TrackShape
<1>7. \A i \in DOMAIN Loaded.snapshots : \A g \in Existing(Loaded.snapshots[i]) :
        BackupName(g, Loaded.snapshots[i].no) \notin {BaselineName(f)}
  BY <1>4, BaselinesApart
<1>8. /\ ExactIn(Loaded.snapshots, store')
      /\ counts.faults = 0 => HeldIn(Loaded.snapshots, store')
  BY <1>4, <1>6, <1>7, MoreBackups
<1>9. Numbered(op'.work)
  BY <1>4, <1>5 DEF Numbered
<1>10. op' # Unlocked
  BY <1>5 DEF Unlocked, OperationIs
<1>11. HistoryInv'
  BY <1>2, <1>3, <1>4, <1>5, <1>8, <1>9, <1>10 DEF HistoryInv, FaultsGrow, Numbered, OperationIs
<1>12. OperationInv'
  BY <1>5 DEF OperationInv, OperationIs
<1> QED BY <1>11, <1>12

(* A rewind begins.                                                        *)
LEMMA RewindBegins ==
  ASSUME HistoryInv, OperationInv, NEW p \in Processes, NEW i, RewindCode(p, i)
  PROVE  HistoryInv' /\ OperationInv'
<1>1. op = Unlocked /\ saved' = saved /\ store' = store /\ counts' = counts
  BY DEF RewindCode
<1>2. /\ DOMAIN Loaded = Fields /\ Numbered(Loaded) /\ ExactIn(Loaded.snapshots, store)
      /\ counts.faults = 0 => HeldIn(Loaded.snapshots, store)
  BY <1>1, LoadedSound
<1>3. /\ DOMAIN op' = {"by", "kind", "subject", "step", "work", "left"}
      /\ op'.kind = "rewind" /\ op'.step = "restore" /\ op'.subject = i /\ op'.work = Loaded
      /\ i \in DOMAIN Loaded.snapshots
  BY DEF RewindCode, Locked
<1>4. op' # Unlocked
  BY <1>3 DEF Unlocked
<1> QED BY <1>1, <1>2, <1>3, <1>4 DEF HistoryInv, OperationInv

(* What pruning leaves: the newest snapshots.                               *)
LEMMA PruneShape ==
  ASSUME HistoryInv, OperationInv, NEW p \in Processes, Prune(p)
  PROVE  /\ op.kind = "snapshot" /\ UNCHANGED <<saved, disk, wild, counts>>
         /\ OperationIs("snapshot", "save") /\ op'.by = op.by /\ op'.left = op.left
         /\ Len(op'.work.snapshots) <= MaxSnapshots
         /\ op'.work.next = op.work.next
         /\ op'.work.tracked = op.work.tracked /\ op'.work.baselines = op.work.baselines
         /\ \E surplus \in 0..Len(op.work.snapshots) : \E old :
              /\ IsPart(old, op.work.snapshots, 1, surplus)
              /\ IsPart(op'.work.snapshots, op.work.snapshots, surplus + 1, Len(op.work.snapshots))
              /\ store' = Left(store, BackupsOf(old))
<1> DEFINE snapshots == op.work.snapshots
           surplus == IF Len(snapshots) > MaxSnapshots THEN Len(snapshots) - MaxSnapshots ELSE 0
           old == SubSeq(snapshots, 1, surplus)
           n == Len(snapshots)
           rest == SubSeq(snapshots, surplus + 1, n)
<1>1. /\ UNCHANGED <<saved, disk, wild, counts>>
      /\ op.step = "prune" /\ op.kind = "snapshot"
      /\ store' = Left(store, BackupsOf(old))
      /\ op' = [op EXCEPT !.step = "save", !.work.snapshots = rest]
  BY DEF Prune, Without, Left, OperationInv
<1>2. IsSequence(snapshots)
  BY DEF HistoryInv, Numbered
<1>3. Len(snapshots) \in Nat /\ surplus \in 0..Len(snapshots) /\ n \in 0..Len(snapshots)
  BY <1>2, BoundsAssumption, SequenceShape
<1>4. n - surplus <= MaxSnapshots
  BY <1>3, BoundsAssumption
<1> HIDE DEF snapshots, surplus, rest
<1>5. /\ DOMAIN op' = DOMAIN op /\ op'.kind = op.kind /\ op'.step = "save"
      /\ op'.by = op.by /\ op'.left = op.left
      /\ op'.work = [op.work EXCEPT !.snapshots = rest]
  BY <1>1 DEF OperationInv
<1>6. /\ OperationIs("snapshot", "save") /\ op'.work.snapshots = rest
      /\ op'.work.next = op.work.next
      /\ op'.work.tracked = op.work.tracked /\ op'.work.baselines = op.work.baselines
  BY <1>1, <1>5 DEF HistoryInv, OperationInv, Fields, OperationIs
<1>7. surplus + 1 \in Nat \ {0} /\ 1 \in Nat \ {0}
  BY <1>3
<1>8. IsPart(old, snapshots, 1, surplus)
  BY <1>2, <1>3, <1>7, Cutting
<1> HIDE DEF n
<1>9. IsPart(rest, snapshots, surplus + 1, n)
  BY <1>2, <1>3, <1>7, Cutting DEF rest
<1>10. Len(rest) <= MaxSnapshots
  <2>1. Len(rest) \in Nat /\ DOMAIN rest = 1..Len(rest)
        /\ \A i \in DOMAIN rest : i + (surplus + 1) - 1 \in surplus + 1..n
    BY <1>9, SequenceShape DEF IsPart
  <2>2. Len(rest) = 0 \/ Len(rest) \in DOMAIN rest
    BY <2>1
  <2>3. Len(rest) = 0 \/ Len(rest) + (surplus + 1) - 1 \in surplus + 1..n
    BY <2>1, <2>2
  <2>4. n \in Nat /\ surplus \in Nat
    BY <1>3 DEF n
  <2> QED BY <1>4, <2>1, <2>3, <2>4, BoundsAssumption
<1> HIDE DEF old
<1> QED BY <1>1, <1>3, <1>5, <1>6, <1>8, <1>9, <1>10 DEF snapshots, n

(* The oldest snapshots go.                                                *)
LEMMA PruneKeeps ==
  ASSUME HistoryInv, OperationInv, NEW p \in Processes, Prune(p)
  PROVE  HistoryInv' /\ OperationInv'
<1> DEFINE h == op.work
           g == op'.work
           fewer == store'
           n == Len(h.snapshots)
<1>1. /\ UNCHANGED <<saved, counts>> /\ OperationIs("snapshot", "save") /\ g.next = h.next
  BY PruneShape
<1>2. PICK surplus \in 0..n : \E old :
        /\ IsPart(old, h.snapshots, 1, surplus)
        /\ IsPart(g.snapshots, h.snapshots, surplus + 1, n)
        /\ fewer = Left(store, BackupsOf(old))
  BY PruneShape
<1>3. PICK old :
        /\ IsPart(old, h.snapshots, 1, surplus)
        /\ IsPart(g.snapshots, h.snapshots, surplus + 1, n)
        /\ fewer = Left(store, BackupsOf(old))
  BY <1>2
<1>4. Numbered(h) /\ ExactIn(h.snapshots, store) /\ Len(h.snapshots) \in Nat
  BY SequenceShape DEF HistoryInv, Numbered
<1> DEFINE first == 1
           m == surplus + 1
<1>5. /\ n \in 0..Len(h.snapshots) /\ surplus \in 0..Len(h.snapshots)
      /\ m \in Nat \ {0} /\ surplus < m /\ first \in Nat \ {0}
  BY <1>4
<1>6. /\ IsPart(g.snapshots, h.snapshots, m, n) /\ IsPart(old, h.snapshots, first, surplus)
      /\ fewer = Left(store, BackupsOf(old)) /\ g.next = h.next
  BY <1>1, <1>3
<1> HIDE DEF h, g, fewer, n, m, first
<1>7. /\ Numbered(g) /\ ExactIn(g.snapshots, fewer)
      /\ HeldIn(h.snapshots, store) => HeldIn(g.snapshots, fewer)
  BY <1>4, <1>5, <1>6, PartDropped
<1>8. ExactIn(saved.snapshots, fewer)
  BY <1>3, FewerBackups DEF HistoryInv
<1>9. op' # Unlocked
  BY <1>1 DEF Unlocked, OperationIs
<1>10. HistoryInv'
  BY <1>1, <1>7, <1>8, <1>9 DEF HistoryInv, OperationIs, h, g, fewer
<1>11. OperationInv'
  BY <1>1 DEF OperationInv, OperationIs
<1> QED BY <1>10, <1>11

(* A file gets its backup back.                                             *)
LEMMA RestoreKeeps ==
  ASSUME HistoryInv, OperationInv, NEW p \in Processes, NEW f \in Files, Restore(p, f)
  PROVE  HistoryInv' /\ OperationInv'
<1>1. UNCHANGED <<saved, store, counts>> /\ op.step = "restore"
      /\ op' = [op EXCEPT !.left = @ \ {f}]
  BY DEF Restore
<1>2. /\ op'.work = op.work /\ op'.kind = op.kind /\ op'.step = op.step
      /\ op'.subject = op.subject /\ DOMAIN op' = DOMAIN op
  BY <1>1 DEF OperationInv
<1>3. op' # Unlocked
  BY <1>1, <1>2 DEF Unlocked
<1> QED BY <1>1, <1>2, <1>3 DEF HistoryInv, OperationInv

(* A file does not get its backup back.                                     *)
LEMMA RestoreFailsKeeps ==
  ASSUME HistoryInv, OperationInv, NEW p \in Processes, NEW f \in Files, RestoreFails(p, f)
  PROVE  HistoryInv' /\ OperationInv'
<1>1. UNCHANGED <<saved, store>> /\ Fault /\ op.step = "restore"
      /\ op' = [op EXCEPT !.left = @ \ {f}]
  BY DEF RestoreFails
<1>2. /\ op'.work = op.work /\ op'.kind = op.kind /\ op'.step = op.step
      /\ op'.subject = op.subject /\ DOMAIN op' = DOMAIN op
  BY <1>1 DEF OperationInv
<1>3. FaultsGrow /\ counts'.faults > 0
  BY <1>1, FaultsCounted DEF Fault, HistoryInv
<1>4. op' # Unlocked
  BY <1>1, <1>2 DEF Unlocked
<1> QED BY <1>1, <1>2, <1>3, <1>4 DEF HistoryInv, OperationInv, FaultsGrow

(* What the return of a file to its baseline leaves.                        *)
LEMMA RestoreBaselineShape ==
  ASSUME HistoryInv, OperationInv, NEW p \in Processes, NEW f \in Files, RestoreBaseline(p, f)
  PROVE  /\ op.kind = "rewind" /\ UNCHANGED <<saved, wild, counts>>
         /\ f \in op.left \ DOMAIN Target.backups
         /\ OperationIs("rewind", "restore") /\ op'.subject = op.subject /\ op'.by = op.by
         /\ op'.left = op.left \ {f}
         /\ op'.work.snapshots = op.work.snapshots /\ op'.work.next = op.work.next
         /\ \/ /\ Resolvable(f)
               /\ disk' = [disk EXCEPT ![f] = IF op.work.baselines[f] = "absent" THEN Absent
                                              ELSE store[BaselineName(f)]]
               /\ store' = IF op.work.baselines[f] = "absent" THEN store
                           ELSE Left(store, {BaselineName(f)})
               /\ op'.work.tracked = op.work.tracked \ {f}
               /\ op'.work.baselines = On(op.work.baselines, Files \ {f})
            \/ /\ ~Resolvable(f) /\ UNCHANGED <<disk, store>>
               /\ op'.work.tracked = op.work.tracked /\ op'.work.baselines = op.work.baselines
<1>1. /\ UNCHANGED <<saved, wild, counts>> /\ op.step = "restore" /\ op.kind = "rewind"
      /\ f \in op.left \ DOMAIN Target.backups
  BY DEF RestoreBaseline, OperationInv
<1>2. ASSUME op' = [op EXCEPT !.left = @ \ {f}]
      PROVE  /\ OperationIs("rewind", "restore") /\ op'.subject = op.subject /\ op'.by = op.by
             /\ op'.left = op.left \ {f} /\ op'.work = op.work
  BY <1>1, <1>2 DEF OperationInv, OperationIs, HistoryInv
<1>3. ASSUME op' = [op EXCEPT !.left = @ \ {f}, !.work.tracked = @ \ {f},
                              !.work.baselines = On(@, Files \ {f})]
      PROVE  /\ OperationIs("rewind", "restore") /\ op'.subject = op.subject /\ op'.by = op.by
             /\ op'.left = op.left \ {f}
             /\ op'.work.snapshots = op.work.snapshots /\ op'.work.next = op.work.next
             /\ op'.work.tracked = op.work.tracked \ {f}
             /\ op'.work.baselines = On(op.work.baselines, Files \ {f})
  <2> DEFINE fewer == [op EXCEPT !.left = @ \ {f}]
             untracked == [fewer EXCEPT !.work.tracked = @ \ {f}]
  <2>1. /\ fewer.work = op.work /\ fewer.kind = op.kind /\ fewer.step = op.step
        /\ fewer.subject = op.subject /\ fewer.by = op.by /\ DOMAIN fewer = DOMAIN op
        /\ fewer.left = op.left \ {f}
    BY DEF OperationInv
  <2>2. op' = [untracked EXCEPT !.work.baselines = On(@, Files \ {f})]
    BY <1>3
  <2> HIDE DEF fewer
  <2>3. /\ untracked.work = [op.work EXCEPT !.tracked = @ \ {f}]
        /\ untracked.kind = op.kind /\ untracked.step = op.step
        /\ untracked.subject = op.subject /\ untracked.by = op.by /\ DOMAIN untracked = DOMAIN op
        /\ untracked.left = op.left \ {f}
    BY <2>1 DEF OperationInv
  <2>4. /\ untracked.work.snapshots = op.work.snapshots /\ untracked.work.next = op.work.next
        /\ untracked.work.tracked = op.work.tracked \ {f}
        /\ untracked.work.baselines = op.work.baselines
        /\ DOMAIN untracked.work = DOMAIN op.work
    BY <2>3 DEF HistoryInv, Fields
  <2> HIDE DEF untracked
  <2>5. /\ op'.work = [untracked.work EXCEPT !.baselines = On(@, Files \ {f})]
        /\ op'.kind = op.kind /\ op'.step = op.step /\ op'.left = op.left \ {f}
        /\ op'.subject = op.subject /\ op'.by = op.by /\ DOMAIN op' = DOMAIN op
    BY <2>2, <2>3 DEF OperationInv
  <2> QED BY <1>1, <2>4, <2>5 DEF HistoryInv, OperationInv, Fields, OperationIs
<1>4. \/ /\ Resolvable(f)
         /\ disk' = [disk EXCEPT ![f] = IF op.work.baselines[f] = "absent" THEN Absent
                                        ELSE store[BaselineName(f)]]
         /\ store' = IF op.work.baselines[f] = "absent" THEN store
                     ELSE Left(store, {BaselineName(f)})
         /\ op' = [op EXCEPT !.left = @ \ {f}, !.work.tracked = @ \ {f},
                             !.work.baselines = On(@, Files \ {f})]
      \/ /\ ~Resolvable(f) /\ UNCHANGED <<disk, store>>
         /\ op' = [op EXCEPT !.left = @ \ {f}]
  BY DEF RestoreBaseline, Without, Left
<1> QED BY <1>1, <1>2, <1>3, <1>4

(* A file that was tracked later gets its baseline back.                    *)
LEMMA RestoreBaselineKeeps ==
  ASSUME HistoryInv, OperationInv, NEW p \in Processes, NEW f \in Files, RestoreBaseline(p, f)
  PROVE  HistoryInv' /\ OperationInv'
<1>1. /\ UNCHANGED <<saved, counts>> /\ op.kind = "rewind"
      /\ OperationIs("rewind", "restore") /\ op'.subject = op.subject
      /\ op'.work.snapshots = op.work.snapshots /\ op'.work.next = op.work.next
      /\ store' = store \/ store' = Left(store, {BaselineName(f)})
  BY RestoreBaselineShape
<1>2. Numbered(op.work) /\ Numbered(saved) /\ ExactIn(op.work.snapshots, store)
      /\ ExactIn(saved.snapshots, store)
  BY DEF HistoryInv
<1>3. ExactIn(op.work.snapshots, store') /\ ExactIn(saved.snapshots, store')
  BY <1>1, <1>2, FewerBackups
<1>4. \A i \in DOMAIN op.work.snapshots : \A g \in Existing(op.work.snapshots[i]) :
        BackupName(g, op.work.snapshots[i].no) \notin {BaselineName(f)}
  BY <1>2, BaselinesApart
<1>5. HeldIn(op.work.snapshots, store) => HeldIn(op.work.snapshots, store')
  BY <1>1, <1>4 DEF HeldIn, Left
<1>6. op' # Unlocked
  BY <1>1 DEF Unlocked, OperationIs
<1>7. Numbered(op'.work)
  BY <1>1, <1>2 DEF Numbered
<1>8. HistoryInv'
  BY <1>1, <1>2, <1>3, <1>5, <1>6, <1>7 DEF HistoryInv, OperationIs
<1>9. OperationInv'
  BY <1>1 DEF OperationInv, OperationIs
<1> QED BY <1>8, <1>9

(* What the end of a rewind leaves: the snapshots up to the target.         *)
LEMMA DiscardShape ==
  ASSUME HistoryInv, OperationInv, NEW p \in Processes, Discard(p)
  PROVE  /\ op.kind = "rewind" /\ UNCHANGED <<saved, disk, wild, counts>>
         /\ op.left = {} /\ op'.left = op.left
         /\ OperationIs("rewind", "save") /\ op'.subject = op.subject /\ op'.by = op.by
         /\ op'.work.next = op.work.next /\ op'.work.baselines = op.work.baselines
         /\ op'.work.tracked = op.work.tracked \cup DOMAIN Target.backups
         /\ op.subject \in 1..Len(op.work.snapshots)
         /\ op.subject \in DOMAIN op'.work.snapshots
         /\ op'.work.snapshots[op.subject] = Target
         /\ IsPart(op'.work.snapshots, op.work.snapshots, 1, op.subject)
         /\ \E later :
              /\ IsPart(later, op.work.snapshots, op.subject + 1, Len(op.work.snapshots))
              /\ store' = Left(store, BackupsOf(later))
<1> DEFINE h == op.work
           k == op.subject + 1
           n == Len(h.snapshots)
           later == SubSeq(h.snapshots, k, n)
           rest == SubSeq(h.snapshots, 1, op.subject)
           more == DOMAIN Target.backups
<1>1. /\ UNCHANGED <<saved, disk, wild, counts>> /\ op.left = {}
      /\ op.step = "restore" /\ op.kind = "rewind"
      /\ store' = Left(store, BackupsOf(later))
      /\ op' = [op EXCEPT !.step = "save", !.work.snapshots = rest,
                          !.work.tracked = @ \cup more]
  BY DEF Discard, Without, Left, OperationInv
<1>2. /\ op'.work.snapshots = rest /\ op'.work.next = h.next
      /\ op'.work.tracked = h.tracked \cup more /\ op'.work.baselines = h.baselines
      /\ OperationIs("rewind", "save") /\ op'.subject = op.subject
      /\ op'.left = op.left /\ op'.by = op.by
  <2> DEFINE saving == [op EXCEPT !.step = "save"]
             listed == [saving EXCEPT !.work.snapshots = rest]
  <2>1. /\ saving.work = h /\ saving.kind = op.kind /\ saving.step = "save"
        /\ saving.by = op.by /\ saving.subject = op.subject /\ saving.left = op.left /\ DOMAIN saving = DOMAIN op
    BY DEF OperationInv
  <2>2. op' = [listed EXCEPT !.work.tracked = @ \cup more]
    BY <1>1
  <2> HIDE DEF saving, rest, more
  <2>3. /\ listed.work = [h EXCEPT !.snapshots = rest]
        /\ listed.kind = op.kind /\ listed.step = "save"
        /\ listed.by = op.by /\ listed.subject = op.subject /\ listed.left = op.left /\ DOMAIN listed = DOMAIN op
    BY <2>1 DEF OperationInv
  <2>4. /\ listed.work.snapshots = rest /\ listed.work.next = h.next
        /\ listed.work.tracked = h.tracked /\ listed.work.baselines = h.baselines
        /\ DOMAIN listed.work = Fields
    BY <2>3 DEF HistoryInv, Fields
  <2> HIDE DEF listed
  <2>5. /\ op'.work = [listed.work EXCEPT !.tracked = @ \cup more]
        /\ op'.kind = op.kind /\ op'.step = "save" /\ op'.left = op.left
        /\ op'.by = op.by /\ op'.subject = op.subject /\ DOMAIN op' = DOMAIN op
    BY <2>2, <2>3 DEF OperationInv
  <2> QED BY <1>1, <2>4, <2>5 DEF Fields, OperationInv, OperationIs
<1>3. IsSequence(h.snapshots) /\ op.subject \in DOMAIN h.snapshots /\ Target = h.snapshots[op.subject]
  BY <1>1 DEF HistoryInv, Numbered, OperationInv, Target
<1>4. Len(h.snapshots) \in Nat /\ op.subject \in 1..Len(h.snapshots)
  BY <1>3, SequenceShape
<1>5. /\ op.subject \in 0..Len(h.snapshots) /\ n \in 0..Len(h.snapshots)
      /\ k \in Nat \ {0} /\ 1 \in Nat \ {0}
  BY <1>4
<1> HIDE DEF h
<1>6. IsPart(rest, h.snapshots, 1, op.subject)
  BY <1>3, <1>5, Cutting
<1>7. op.subject \in DOMAIN rest /\ rest[op.subject] = Target
  <2>1. rest \in Seq({h.snapshots[i] : i \in DOMAIN h.snapshots}) /\ Len(rest) = op.subject
    BY <1>3, <1>4 DEF IsSequence
  <2>2. op.subject \in DOMAIN rest
    BY <1>4, <2>1
  <2>3. rest[op.subject] = h.snapshots[op.subject + 1 - 1]
    BY <1>6, <2>2 DEF IsPart
  <2> QED BY <1>3, <1>4, <2>2, <2>3
<1> HIDE DEF k, n
<1>8. IsPart(later, h.snapshots, k, n)
  BY <1>3, <1>5, Cutting
<1> HIDE DEF later, rest, more
<1>9. /\ IsPart(later, op.work.snapshots, op.subject + 1, Len(op.work.snapshots))
      /\ IsPart(op'.work.snapshots, op.work.snapshots, 1, op.subject)
  BY <1>2, <1>6, <1>8 DEF h, k, n
<1> QED BY <1>1, <1>2, <1>4, <1>7, <1>9 DEF h, more

(* The later snapshots go.                                                 *)
LEMMA DiscardKeeps ==
  ASSUME HistoryInv, OperationInv, NEW p \in Processes, Discard(p)
  PROVE  HistoryInv' /\ OperationInv'
<1> DEFINE h == op.work
           g == op'.work
           fewer == store'
           k == op.subject + 1
           n == Len(h.snapshots)
<1>1. /\ UNCHANGED <<saved, counts>> /\ g.next = h.next
      /\ OperationIs("rewind", "save") /\ op'.subject = op.subject
      /\ op.subject \in DOMAIN g.snapshots /\ op.subject \in 1..Len(h.snapshots)
      /\ IsPart(g.snapshots, h.snapshots, 1, op.subject)
  BY DiscardShape
<1>2. PICK later : IsPart(later, h.snapshots, k, n) /\ fewer = Left(store, BackupsOf(later))
  BY DiscardShape
<1>3. Numbered(h) /\ ExactIn(h.snapshots, store) /\ Len(h.snapshots) \in Nat
  BY SequenceShape DEF HistoryInv, Numbered
<1>4. /\ op.subject \in 0..Len(h.snapshots) /\ n \in 0..Len(h.snapshots)
      /\ k \in Nat \ {0} /\ op.subject < k /\ 1 \in Nat \ {0}
  BY <1>1, <1>3
<1> HIDE DEF h, g, fewer, k, n
<1>5. /\ Numbered(g) /\ ExactIn(g.snapshots, fewer)
      /\ HeldIn(h.snapshots, store) => HeldIn(g.snapshots, fewer)
  BY <1>1, <1>2, <1>3, <1>4, PartDropped
<1>6. ExactIn(saved.snapshots, fewer)
  BY <1>2, FewerBackups DEF HistoryInv
<1>7. op' # Unlocked
  BY <1>1 DEF Unlocked, OperationIs
<1>8. HistoryInv'
  BY <1>1, <1>5, <1>6, <1>7 DEF HistoryInv, OperationIs, h, g, fewer
<1>9. OperationInv'
  BY <1>1 DEF OperationInv, OperationIs, g
<1> QED BY <1>8, <1>9

(* The history is saved, or that fails.                                     *)
LEMMA SaveKeeps ==
  ASSUME HistoryInv, OperationInv, NEW p \in Processes, Save(p)
  PROVE  HistoryInv' /\ OperationInv'
<1>1. /\ store' = store /\ op' = Unlocked
      /\ \/ saved' = op.work /\ counts' = counts
         \/ saved' = saved /\ Fault
  BY DEF Save
<1>2. counts' = counts \/ Fault
  BY <1>1
<1>3. FaultsGrow
  BY <1>2, FaultsCounted
<1>4. Fault => counts'.faults > 0
  BY DEF Fault, HistoryInv
<1>5. /\ op'.work = NoHistory /\ op'.kind = "none" /\ op'.step = "none"
      /\ DOMAIN op' = {"by", "kind", "subject", "step", "work", "left"}
  BY <1>1 DEF Unlocked
<1>6. HistoryInv'
  BY <1>1, <1>3, <1>4, <1>5, Empty DEF HistoryInv, FaultsGrow
<1>7. OperationInv'
  BY <1>1, <1>5 DEF OperationInv, Unlocked
<1> QED BY <1>6, <1>7

LEMMA CrashKeeps ==
  ASSUME HistoryInv, OperationInv, NEW p \in Processes, Crash(p)
  PROVE  HistoryInv' /\ OperationInv'
<1>1. /\ store' = store /\ saved' = saved /\ Fault
      /\ op' = op \/ op' = Unlocked
  BY DEF Crash
<1>2. FaultsGrow /\ counts'.faults > 0
  BY <1>1, FaultsCounted DEF Fault, HistoryInv
<1>3. /\ Unlocked.work = NoHistory /\ Unlocked.kind = "none" /\ Unlocked.step = "none"
      /\ DOMAIN Unlocked = {"by", "kind", "subject", "step", "work", "left"}
  BY DEF Unlocked
<1>4. HistoryInv'
  BY <1>1, <1>2, <1>3, Empty DEF HistoryInv, FaultsGrow
<1>5. OperationInv'
  BY <1>1, <1>3 DEF OperationInv
<1> QED BY <1>4, <1>5

LEMMA HistoryKept ==
  ASSUME HistoryInv, OperationInv, [Next]_vars
  PROVE  HistoryInv' /\ OperationInv'
<1>1. ASSUME NEW f \in Files, Touch(f) PROVE HistoryInv' /\ OperationInv'
  <2>1. UNCHANGED <<saved, store, op>> /\ FaultsGrow
    BY <1>1 DEF Touch, HistoryInv, FaultsGrow
  <2> QED BY <2>1, OthersKeep
<1>2. CASE UNCHANGED vars
  <2>1. UNCHANGED <<saved, store, op>> /\ FaultsGrow
    BY <1>2 DEF vars, HistoryInv, FaultsGrow
  <2> QED BY <2>1, OthersKeep
<1>3. ASSUME NEW p \in Processes,
             \/ Open(p) \/ Prompt(p) \/ Notified(p) \/ Message(p) \/ Compact(p) \/ Tear(p)
             \/ Count(p) \/ Interrupt(p) \/ WriteFile(p) \/ ShowSnapshots(p) \/ Cancel(p) \/ Cut(p)
             \/ \E i \in 1..MaxSnapshots : RewindConversation(p, i)
      PROVE  HistoryInv' /\ OperationInv'
  <2>1. UNCHANGED <<saved, store, op>> /\ FaultsGrow
    BY <1>3, QuietSteps
  <2> QED BY <2>1, OthersKeep
<1>4. ASSUME NEW p \in Processes,
             \/ Copy(p) \/ Prune(p) \/ Save(p) \/ Discard(p) \/ Crash(p)
             \/ \E i \in 1..MaxSnapshots : RewindCode(p, i)
             \/ \E f \in Files : \/ TrackEdit(p, f) \/ Restore(p, f) \/ RestoreBaseline(p, f)
                                 \/ RestoreFails(p, f)
      PROVE  HistoryInv' /\ OperationInv'
  BY <1>4, CopyKeeps, PruneKeeps, SaveKeeps, DiscardKeeps, CrashKeeps, RewindBegins,
     TrackKeeps, RestoreKeeps, RestoreBaselineKeeps, RestoreFailsKeeps
<1> QED BY <1>1, <1>2, <1>3, <1>4 DEF Next

LEMMA HistoryStart == Init => HistoryInv /\ OperationInv
<1> SUFFICES ASSUME Init PROVE HistoryInv /\ OperationInv
  OBVIOUS
<1>1. /\ saved = NoHistory /\ store = <<>> /\ op = Unlocked
      /\ counts = [messages |-> 1, edits |-> 0, faults |-> 0]
  BY DEF Init
<1>2. /\ op.work = NoHistory /\ op.kind = "none" /\ op.step = "none"
      /\ DOMAIN op = {"by", "kind", "subject", "step", "work", "left"}
  BY <1>1 DEF Unlocked
<1> QED BY <1>1, <1>2, Empty DEF HistoryInv, OperationInv

(* A step of a rewind leaves the backups of its target alone, and whatever  *)
(* it saves has the target in it.                                           *)
LEMMA TargetKept ==
  ASSUME HistoryInv, OperationInv, [Next]_vars, op.kind = "rewind"
  PROVE  /\ BackupsOf(<<Target>>) \cap DOMAIN store \subseteq DOMAIN store'
         /\ saved' # saved => \E i \in DOMAIN saved'.snapshots : saved'.snapshots[i] = Target
<1> DEFINE h == op.work
           Backups == {BackupName(f, Target.no) : f \in Existing(Target)}
           Survives == /\ BackupsOf(<<Target>>) \cap DOMAIN store \subseteq DOMAIN store'
                       /\ saved' # saved =>
                            \E i \in DOMAIN saved'.snapshots : saved'.snapshots[i] = Target
<1>1. op # Unlocked /\ op.step # "prune" /\ op.subject \in DOMAIN h.snapshots
      /\ Numbered(h) /\ Target = h.snapshots[op.subject]
  BY DEF OperationInv, HistoryInv, Unlocked, Target
<1>2. BackupsOf(<<Target>>) = Backups
  <2> HIDE DEF h
  <2>1. \A x : x \in BackupsOf(<<Target>>) <=> \E f \in Existing(Target) : x = BackupName(f, Target.no)
    BY DEF BackupsOf
  <2> QED BY <2>1
<1> SUFFICES Survives
  OBVIOUS
<1>3. ASSUME saved' = saved, store' = store PROVE Survives
  BY <1>3
<1>4. ASSUME NEW p \in Processes, NEW f \in Files, RestoreBaseline(p, f) PROVE Survives
  <2>1. saved' = saved /\ (store' = store \/ store' = Left(store, {BaselineName(f)}))
    BY <1>4, RestoreBaselineShape
  <2>2. BaselineName(f) \notin BackupsOf(<<Target>>)
    <3>1. \A g : BackupName(g, h.snapshots[op.subject].no) # BaselineName(f)
      <4> HIDE DEF h
      <4> QED BY <1>1, BaselinesApart
    <3>2. \A g : BackupName(g, Target.no) # BaselineName(f)
      BY <1>1, <3>1
    <3> QED BY <1>2, <3>2
  <2> HIDE DEF h
  <2> QED BY <2>1, <2>2 DEF Left
<1>5. ASSUME NEW p \in Processes, Discard(p) PROVE Survives
  <2> DEFINE k == op.subject + 1
             n == Len(h.snapshots)
             rest == op'.work.snapshots
  <2>1. /\ saved' = saved /\ op.subject \in 1..Len(h.snapshots)
        /\ op.subject \in DOMAIN rest /\ rest[op.subject] = Target
        /\ IsPart(rest, h.snapshots, 1, op.subject)
    BY <1>5, DiscardShape
  <2>2. PICK later : IsPart(later, h.snapshots, k, n) /\ store' = Left(store, BackupsOf(later))
    BY <1>5, DiscardShape
  <2>3. Len(h.snapshots) \in Nat
    BY <1>1, SequenceShape DEF Numbered
  <2>4. /\ op.subject \in 0..Len(h.snapshots) /\ n \in 0..Len(h.snapshots)
        /\ k \in Nat \ {0} /\ op.subject < k /\ 1 \in Nat \ {0}
    BY <2>1, <2>3
  <2> HIDE DEF h, k, n, rest
  <2>5. \A f : BackupName(f, rest[op.subject].no) \notin BackupsOf(later)
    BY <1>1, <2>1, <2>2, <2>4, PartsApart
  <2>6. \A x \in BackupsOf(<<Target>>) : x \notin BackupsOf(later)
    BY <1>2, <2>1, <2>5
  <2> QED BY <2>1, <2>2, <2>6 DEF Left
<1>6. ASSUME NEW p \in Processes, Save(p) PROVE Survives
  BY <1>1, <1>6 DEF Save
<1>7. ASSUME NEW p \in Processes, NEW f \in Files, Restore(p, f) \/ RestoreFails(p, f)
      PROVE  Survives
  BY <1>3, <1>7 DEF Restore, RestoreFails
<1>8. ASSUME NEW p \in Processes,
             \/ Open(p) \/ Prompt(p) \/ Notified(p) \/ Message(p) \/ Compact(p) \/ Tear(p)
             \/ Count(p) \/ Interrupt(p) \/ WriteFile(p) \/ ShowSnapshots(p) \/ Cancel(p) \/ Cut(p)
             \/ \E i \in 1..MaxSnapshots : RewindConversation(p, i)
      PROVE  Survives
  BY <1>3, <1>8, QuietSteps
<1>9. ASSUME NEW p \in Processes, Copy(p) \/ Prune(p) \/ Crash(p)
      PROVE  Survives
  BY <1>1, <1>3, <1>9 DEF Copy, Prune, Crash
<1>10. ASSUME NEW p \in Processes,
              \/ \E i \in 1..MaxSnapshots : RewindCode(p, i)
              \/ \E f \in Files : TrackEdit(p, f)
       PROVE  Survives
  BY <1>1, <1>10 DEF RewindCode, TrackEdit
<1>11. CASE UNCHANGED vars \/ \E f \in Files : Touch(f)
  BY <1>3, <1>11 DEF vars, Touch
<1> HIDE DEF Survives
<1> QED BY <1>4, <1>5, <1>6, <1>7, <1>8, <1>9, <1>10, <1>11 DEF Next

(* ------------------------ what a rewind restores ------------------------ *)

(* The baseline of a file can be had; what is then the file's content.      *)
Available(h, backups, f) ==
  /\ f \in DOMAIN h.baselines
  /\ \/ h.baselines[f] = "absent"
     \/ h.baselines[f] = "existing" /\ BaselineName(f) \in DOMAIN backups
Baseline(h, backups, f) ==
  IF h.baselines[f] = "absent" THEN Absent ELSE backups[BaselineName(f)]

(* A content is that of every snapshot without the file, unless the file was *)
(* changed by others since.                                                  *)
Suits(snapshots, f, content, change) ==
  \A i \in DOMAIN snapshots :
    f \notin DOMAIN snapshots[i].backups
    => content = snapshots[i].was[f] \/ change > snapshots[i].edits

(* Where a rewind finds a file that the target does not have: in its         *)
(* baseline if it is tracked, and otherwise where it is.                     *)
SettledIn(h, f, backups, content, change) ==
  /\ f \in h.tracked => /\ Available(h, backups, f)
                        /\ Suits(h.snapshots, f, Baseline(h, backups, f), change)
  /\ f \notin h.tracked => Suits(h.snapshots, f, content, change)

(* Later snapshots have the files of the earlier ones, and what they say     *)
(* about a file is what it was.                                              *)
Whole(snapshots, edits) ==
  /\ \A i \in DOMAIN snapshots :
       /\ snapshots[i].edits \in Nat /\ snapshots[i].edits <= edits + 1
       /\ \A f \in DOMAIN snapshots[i].backups :
            \/ snapshots[i].backups[f] = "existing"
            \/ snapshots[i].backups[f] = "absent" /\ snapshots[i].was[f] = Absent
  /\ \A i, j \in DOMAIN snapshots :
       i < j => DOMAIN snapshots[i].backups \subseteq DOMAIN snapshots[j].backups

Sources ==
  /\ Whole(saved.snapshots, counts.edits) /\ Whole(op.work.snapshots, counts.edits)
  /\ op.kind # "rewind" =>
       /\ \A f \in Files : SettledIn(saved, f, store, disk[f], wild[f])
       /\ \A i \in DOMAIN saved.snapshots : DOMAIN saved.snapshots[i].backups \subseteq saved.tracked
  /\ \A f \in Files : SettledIn(op.work, f, store, disk[f], wild[f])
  /\ \A i \in DOMAIN op.work.snapshots :
       (op.step = "restore" => i <= op.subject)
       => DOMAIN op.work.snapshots[i].backups \subseteq op.work.tracked
  /\ op.kind \in {"snapshot", "track"} => saved.tracked \subseteq op.work.tracked
  /\ op.kind = "rewind" => op.left \subseteq op.work.tracked \cup DOMAIN Target.backups

SourceInv ==
  /\ DOMAIN disk = Files /\ DOMAIN wild = Files /\ counts.edits \in Nat
  /\ counts.faults = 0 => Sources

(* Steps that leave files and history alone.                                *)
LEMMA SourcesStay ==
  ASSUME SourceInv, UNCHANGED <<saved, store, op, disk, wild>>,
         counts'.edits = counts.edits, counts'.faults = 0 => counts.faults = 0
  PROVE  SourceInv'
BY DEF SourceInv, Sources, Target

(* A change of a file that the history has no part in excuses all           *)
(* snapshots of their duty.                                                 *)
LEMMA Excused ==
  ASSUME NEW snapshots, NEW edits \in Nat, Whole(snapshots, edits), NEW f, NEW content
  PROVE  Suits(snapshots, f, content, edits + 2)
BY DEF Whole, Suits

LEMMA WholeStays ==
  ASSUME NEW snapshots, NEW edits \in Nat, Whole(snapshots, edits)
  PROVE  Whole(snapshots, edits + 1)
BY DEF Whole

LEMMA SourcesChanged ==
  ASSUME SourceInv, UNCHANGED <<saved, store, op>>, NEW f \in Files, NEW content,
         disk' = [disk EXCEPT ![f] = content], wild' = [wild EXCEPT ![f] = NextContent],
         counts'.edits = counts.edits + 1, counts'.faults = counts.faults
  PROVE  SourceInv'
<1>1. DOMAIN disk' = Files /\ DOMAIN wild' = Files /\ counts'.edits \in Nat
  BY DEF SourceInv
<1> SUFFICES ASSUME counts.faults = 0 PROVE Sources'
  BY <1>1 DEF SourceInv
<1>2. Sources /\ counts.edits \in Nat
  BY DEF SourceInv
<1>3. wild'[f] = counts.edits + 2 /\ \A g \in Files \ {f} : disk'[g] = disk[g] /\ wild'[g] = wild[g]
  BY DEF SourceInv, NextContent
<1>4. Whole(saved.snapshots, counts.edits + 1) /\ Whole(op.work.snapshots, counts.edits + 1)
  BY <1>2, WholeStays DEF Sources
<1>5. \A c : Suits(saved.snapshots, f, c, wild'[f]) /\ Suits(op.work.snapshots, f, c, wild'[f])
  BY <1>2, <1>3, Excused DEF Sources
<1>6. \A g \in Files : SettledIn(op.work, g, store, disk'[g], wild'[g])
  BY <1>2, <1>3, <1>5 DEF Sources, SettledIn
<1>7. op.kind # "rewind" => \A g \in Files : SettledIn(saved, g, store, disk'[g], wild'[g])
  BY <1>2, <1>3, <1>5 DEF Sources, SettledIn
<1> QED BY <1>2, <1>4, <1>6, <1>7 DEF Sources, Target

(* A tool writes a tracked file: tracked files are found elsewhere.         *)
LEMMA SourcesWritten ==
  ASSUME HistoryInv, OperationInv, SourceInv, UNCHANGED <<saved, store, op, wild>>,
         NEW f \in saved.tracked \cap Files, NEW content, op.kind # "rewind",
         disk' = [disk EXCEPT ![f] = content],
         counts'.edits = counts.edits + 1, counts'.faults = counts.faults
  PROVE  SourceInv'
<1>1. DOMAIN disk' = Files /\ DOMAIN wild' = Files /\ counts'.edits \in Nat
  BY DEF SourceInv
<1> SUFFICES ASSUME counts.faults = 0 PROVE Sources'
  BY <1>1 DEF SourceInv
<1>2. Sources /\ counts.edits \in Nat
  BY DEF SourceInv
<1>3. \A g \in Files \ {f} : disk'[g] = disk[g]
  BY DEF SourceInv
<1>4. Whole(saved.snapshots, counts.edits + 1) /\ Whole(op.work.snapshots, counts.edits + 1)
  BY <1>2, WholeStays DEF Sources
<1>5. \A g \in Files : SettledIn(saved, g, store, disk'[g], wild[g])
  BY <1>2, <1>3 DEF Sources, SettledIn
<1>6. \A g \in Files : SettledIn(op.work, g, store, disk'[g], wild[g])
  <2>1. CASE op = Unlocked
    <3>1. op.work.snapshots = <<>> /\ op.work.tracked = {}
      BY <2>1 DEF Unlocked, NoHistory
    <3> QED BY <3>1 DEF SettledIn, Suits
  <2>2. CASE op # Unlocked
    <3>1. f \in op.work.tracked
      BY <1>2, <2>2 DEF Sources, OperationInv
    <3> QED BY <1>2, <1>3, <3>1 DEF Sources, SettledIn
  <2> QED BY <2>1, <2>2
<1> QED BY <1>2, <1>4, <1>5, <1>6 DEF Sources, Target

(* What an operation works on.                                              *)
LEMMA LoadedSources ==
  ASSUME HistoryInv, Sources, op = Unlocked
  PROVE  /\ Loaded.tracked = saved.tracked
         /\ Whole(Loaded.snapshots, counts.edits)
         /\ \A f \in Files : SettledIn(Loaded, f, store, disk[f], wild[f])
         /\ \A i \in DOMAIN Loaded.snapshots : DOMAIN Loaded.snapshots[i].backups \subseteq Loaded.tracked
<1>1. /\ DOMAIN saved = Fields /\ IsSequence(saved.snapshots)
      /\ Loaded.snapshots = saved.snapshots /\ Loaded.baselines = saved.baselines
  BY LoadedSnapshots DEF HistoryInv, Numbered
<1>2. op.kind # "rewind"
  BY DEF Unlocked
<1>3. saved.snapshots # <<>> => Len(saved.snapshots) \in DOMAIN saved.snapshots
  BY <1>1 DEF IsSequence
<1>4. Loaded.tracked = saved.tracked
  BY <1>1, <1>2, <1>3 DEF Loaded, Fields, Sources
<1> QED BY <1>1, <1>2, <1>4 DEF Sources, SettledIn, Available, Baseline

(* Baselines do not care about the backups of snapshots.                    *)
LEMMA SameBaselines ==
  ASSUME NEW h, NEW g, g.baselines = h.baselines, NEW f, NEW one, NEW other,
         BaselineName(f) \in DOMAIN one <=> BaselineName(f) \in DOMAIN other,
         BaselineName(f) \in DOMAIN one => one[BaselineName(f)] = other[BaselineName(f)],
         Available(h, one, f)
  PROVE  Available(g, other, f) /\ Baseline(g, other, f) = Baseline(h, one, f)
BY DEF Available, Baseline

LEMMA SettledStays ==
  ASSUME NEW h, NEW g, g.baselines = h.baselines, g.tracked = h.tracked, NEW f, NEW one, NEW other,
         BaselineName(f) \in DOMAIN one <=> BaselineName(f) \in DOMAIN other,
         BaselineName(f) \in DOMAIN one => one[BaselineName(f)] = other[BaselineName(f)],
         NEW content, NEW change, SettledIn(h, f, one, content, change),
         \A c : Suits(h.snapshots, f, c, change) => Suits(g.snapshots, f, c, change)
  PROVE  SettledIn(g, f, other, content, change)
<1>1. CASE f \in h.tracked
  <2>1. Available(h, one, f) /\ Suits(h.snapshots, f, Baseline(h, one, f), change)
    BY <1>1 DEF SettledIn
  <2>2. Available(g, other, f) /\ Baseline(g, other, f) = Baseline(h, one, f)
    BY <2>1, SameBaselines
  <2> QED BY <1>1, <2>1, <2>2 DEF SettledIn
<1>2. CASE f \notin h.tracked
  BY <1>2 DEF SettledIn
<1> QED BY <1>1, <1>2

(* A list of fewer snapshots asks for less.                                 *)
LEMMA FewerSnapshots ==
  ASSUME NEW snapshots, IsSequence(snapshots), NEW m \in Nat \ {0}, NEW n \in 0..Len(snapshots),
         NEW part, IsPart(part, snapshots, m, n)
  PROVE  /\ \A edits : Whole(snapshots, edits) => Whole(part, edits)
         /\ \A f, content, change : Suits(snapshots, f, content, change) => Suits(part, f, content, change)
         /\ \A i \in DOMAIN part : i + m - 1 \in DOMAIN snapshots /\ part[i] = snapshots[i + m - 1]
<1>1. DOMAIN snapshots = 1..Len(snapshots) /\ Len(snapshots) \in Nat
  BY SequenceShape
<1>2. DOMAIN part = 1..Len(part) /\ Len(part) \in Nat
  BY SequenceShape DEF IsPart
<1>3. \A i \in DOMAIN part : i + m - 1 \in DOMAIN snapshots /\ part[i] = snapshots[i + m - 1]
  BY <1>1, <1>2 DEF IsPart
<1>4. \A i, j \in DOMAIN part : i < j => i + m - 1 < j + m - 1
  BY <1>2
<1>5. ASSUME NEW edits, Whole(snapshots, edits) PROVE Whole(part, edits)
  <2>1. \A i \in DOMAIN part :
          /\ part[i].edits \in Nat /\ part[i].edits <= edits + 1
          /\ \A f \in DOMAIN part[i].backups :
               \/ part[i].backups[f] = "existing"
               \/ part[i].backups[f] = "absent" /\ part[i].was[f] = Absent
    BY <1>3, <1>5 DEF Whole
  <2>2. \A i, j \in DOMAIN part : i < j => DOMAIN part[i].backups \subseteq DOMAIN part[j].backups
    BY <1>3, <1>4, <1>5 DEF Whole
  <2> QED BY <2>1, <2>2 DEF Whole
<1>6. ASSUME NEW f, NEW content, NEW change, Suits(snapshots, f, content, change)
      PROVE  Suits(part, f, content, change)
  BY <1>3, <1>6 DEF Suits
<1> QED BY <1>3, <1>5, <1>6

LEMMA SourcesCopied ==
  ASSUME HistoryInv, OperationInv, SourceInv, NEW p \in Processes, Copy(p)
  PROVE  SourceInv'
<1>1. DOMAIN saved = Fields
  BY DEF HistoryInv
<1>2. /\ op = Unlocked /\ UNCHANGED <<saved, disk, wild>> /\ (counts' = counts \/ Fault)
      /\ OperationIs("snapshot", "prune")
      /\ op'.work.tracked = Loaded.tracked /\ op'.work.baselines = Loaded.baselines
  BY <1>1, CopyShape
<1>3. Fault => counts'.edits = counts.edits /\ counts'.faults > 0
  BY DEF Fault, HistoryInv
<1>4. DOMAIN disk' = Files /\ DOMAIN wild' = Files /\ counts'.edits = counts.edits /\ counts.edits \in Nat
  BY <1>2, <1>3 DEF SourceInv
<1> SUFFICES ASSUME counts'.faults = 0 PROVE Sources'
  BY <1>4 DEF SourceInv
<1>5. counts' = counts /\ ~Fault /\ Sources
  BY <1>2, <1>3 DEF SourceInv
<1>6. PICK new, more :
        /\ IsNew(p, new) /\ op'.work.snapshots = Append(Loaded.snapshots, new)
        /\ DOMAIN more = {BackupName(f, new.no) : f \in Existing(new)}
        /\ store' = Over(more, store)
  BY <1>1, CopyShape
<1> DEFINE old == Loaded.snapshots
           list == op'.work.snapshots
<1>7. /\ Loaded.tracked = saved.tracked /\ Whole(old, counts.edits)
      /\ \A f \in Files : SettledIn(Loaded, f, store, disk[f], wild[f])
      /\ \A i \in DOMAIN old : DOMAIN old[i].backups \subseteq Loaded.tracked
      /\ Numbered(Loaded) /\ Loaded.snapshots = saved.snapshots /\ Loaded.baselines = saved.baselines
  BY <1>1, <1>2, <1>5, LoadedSources, LoadedSound, LoadedSnapshots
<1>8. /\ new.edits = counts.edits + 1 /\ new.was = disk /\ new.no = Loaded.next
      /\ DOMAIN new.backups = Loaded.tracked
      /\ \A f \in Loaded.tracked : \/ new.backups[f] = "absent" /\ disk[f] = Absent
                                   \/ new.backups[f] = "existing" /\ disk[f] # Absent
  BY <1>5, <1>6 DEF IsNew
<1>9. \A i \in DOMAIN list : \/ i \in DOMAIN old /\ list[i] = old[i]
                             \/ i \notin DOMAIN old /\ list[i] = new
  <2>1. IsSequence(old)
    BY <1>7 DEF Numbered
  <2> HIDE DEF old
  <2>2. /\ IsSequence(Append(old, new)) /\ Len(Append(old, new)) = Len(old) + 1
        /\ \A i \in 1..Len(old) : Append(old, new)[i] = old[i]
        /\ Append(old, new)[Len(old) + 1] = new
    BY <2>1, Appending
  <2>3. DOMAIN old = 1..Len(old) /\ Len(old) \in Nat /\ DOMAIN Append(old, new) = 1..Len(old) + 1
    BY <2>1, <2>2, SequenceShape
  <2>4. list = Append(old, new)
    BY <1>6 DEF old
  <2> QED BY <2>2, <2>3, <2>4
<1>10. \A i, j \in DOMAIN list : i < j => i \in DOMAIN old
  <2>1. IsSequence(old)
    BY <1>7 DEF Numbered
  <2> HIDE DEF old
  <2>2. /\ IsSequence(Append(old, new)) /\ Len(Append(old, new)) = Len(old) + 1
    BY <2>1, Appending
  <2>3. DOMAIN old = 1..Len(old) /\ Len(old) \in Nat /\ DOMAIN Append(old, new) = 1..Len(old) + 1
    BY <2>1, <2>2, SequenceShape
  <2>4. list = Append(old, new)
    BY <1>6 DEF old
  <2> QED BY <2>3, <2>4
<1> HIDE DEF old, list
<1>11. Whole(list, counts.edits)
  <2>1. \A i \in DOMAIN list :
          /\ list[i].edits \in Nat /\ list[i].edits <= counts.edits + 1
          /\ \A f \in DOMAIN list[i].backups :
               \/ list[i].backups[f] = "existing"
               \/ list[i].backups[f] = "absent" /\ list[i].was[f] = Absent
    BY <1>4, <1>7, <1>8, <1>9 DEF Whole
  <2>2. ASSUME NEW i \in DOMAIN list, NEW j \in DOMAIN list, i < j
        PROVE  DOMAIN list[i].backups \subseteq DOMAIN list[j].backups
    <3>1. i \in DOMAIN old /\ list[i] = old[i]
      BY <1>9, <1>10, <2>2
    <3>2. CASE j \in DOMAIN old
      BY <1>7, <1>9, <2>2, <3>1, <3>2 DEF Whole
    <3>3. CASE j \notin DOMAIN old
      BY <1>7, <1>8, <1>9, <3>1, <3>3 DEF old
    <3> QED BY <3>2, <3>3
  <2> QED BY <2>1, <2>2 DEF Whole
<1>12. \A f : /\ BaselineName(f) \in DOMAIN store <=> BaselineName(f) \in DOMAIN store'
              /\ BaselineName(f) \in DOMAIN store => store[BaselineName(f)] = store'[BaselineName(f)]
  <2>1. \A f : BaselineName(f) \notin DOMAIN more
    BY <1>6, <1>7, <1>8 DEF Numbered, BaselineName, BackupName
  <2> QED BY <1>6, <2>1 DEF Over
<1>13. ASSUME NEW f \in Files PROVE SettledIn(op'.work, f, store', disk[f], wild[f])
  <2>1. SettledIn(Loaded, f, store, disk[f], wild[f])
    BY <1>7
  <2>2. CASE f \in Loaded.tracked
    <3>1. /\ Available(op'.work, store', f)
          /\ Baseline(op'.work, store', f) = Baseline(Loaded, store, f)
      BY <1>2, <1>12, <2>1, <2>2, SameBaselines DEF SettledIn
    <3>2. Suits(list, f, Baseline(Loaded, store, f), wild[f])
      BY <1>8, <1>9, <2>1, <2>2 DEF SettledIn, Suits, old
    <3> QED BY <1>2, <2>2, <3>1, <3>2 DEF SettledIn, list
  <2>3. CASE f \notin Loaded.tracked
    <3>1. Suits(list, f, disk[f], wild[f])
      BY <1>8, <1>9, <2>1, <2>3 DEF SettledIn, Suits, old
    <3> QED BY <1>2, <2>3, <3>1 DEF SettledIn, list
  <2> QED BY <2>2, <2>3
<1>14. ASSUME NEW f \in Files PROVE SettledIn(saved, f, store', disk[f], wild[f])
  <2>1. SettledIn(saved, f, store, disk[f], wild[f])
    BY <1>7 DEF SettledIn, Available, Baseline
  <2> QED BY <1>12, <2>1, SameBaselines DEF SettledIn
<1>15. \A i \in DOMAIN list : DOMAIN list[i].backups \subseteq Loaded.tracked
  BY <1>7, <1>8, <1>9 DEF old
<1>16. op'.kind = "snapshot" /\ op'.step = "prune"
  BY <1>2 DEF OperationIs
<1>17. Whole(saved.snapshots, counts.edits)
       /\ \A i \in DOMAIN saved.snapshots : DOMAIN saved.snapshots[i].backups \subseteq saved.tracked
  BY <1>7 DEF old
<1> QED BY <1>2, <1>5, <1>7, <1>11, <1>13, <1>14, <1>15, <1>16, <1>17 DEF Sources, list

LEMMA SourcesTracked ==
  ASSUME HistoryInv, OperationInv, SourceInv, NEW p \in Processes, NEW f \in Files, TrackEdit(p, f)
  PROVE  SourceInv'
<1>1. DOMAIN saved = Fields
  BY DEF HistoryInv
<1>2. /\ op = Unlocked /\ UNCHANGED <<saved, disk, wild>> /\ (counts' = counts \/ Fault)
      /\ OperationIs("track", "save")
      /\ op'.work.snapshots = Loaded.snapshots
      /\ store' = store \/ store' = Over([name \in {BaselineName(f)} |-> disk[f]], store)
  BY <1>1, TrackShape
<1>3. Fault => counts'.edits = counts.edits /\ counts'.faults > 0
  BY DEF Fault, HistoryInv
<1>4. DOMAIN disk' = Files /\ DOMAIN wild' = Files /\ counts'.edits = counts.edits /\ counts.edits \in Nat
  BY <1>2, <1>3 DEF SourceInv
<1> SUFFICES ASSUME counts'.faults = 0 PROVE Sources'
  BY <1>4 DEF SourceInv
<1>5. counts' = counts /\ ~Fault /\ Sources
  BY <1>2, <1>3 DEF SourceInv
<1>6. /\ Loaded.tracked = saved.tracked /\ Whole(Loaded.snapshots, counts.edits)
      /\ \A g \in Files : SettledIn(Loaded, g, store, disk[g], wild[g])
      /\ \A i \in DOMAIN Loaded.snapshots : DOMAIN Loaded.snapshots[i].backups \subseteq Loaded.tracked
      /\ Loaded.snapshots = saved.snapshots /\ Loaded.baselines = saved.baselines
  BY <1>1, <1>2, <1>5, LoadedSources, LoadedSnapshots
<1>7. op'.kind = "track" /\ op'.step = "save"
  BY <1>2 DEF OperationIs
<1>8. CASE /\ f \in Loaded.tracked /\ store' = store
           /\ op'.work.tracked = Loaded.tracked /\ op'.work.baselines = Loaded.baselines
  <2>1. \A g \in Files : SettledIn(op'.work, g, store', disk[g], wild[g])
    BY <1>2, <1>6, <1>8 DEF SettledIn, Available, Baseline
  <2>2. \A g \in Files : SettledIn(saved, g, store', disk[g], wild[g])
    BY <1>6, <1>8 DEF SettledIn, Available, Baseline
  <2> QED BY <1>2, <1>5, <1>6, <1>7, <1>8, <2>1, <2>2 DEF Sources
<1>9. ASSUME f \notin Loaded.tracked, op'.work.tracked = Loaded.tracked \cup {f}, NEW state,
             op'.work.baselines = Over([g \in {f} |-> state], Loaded.baselines),
             \/ state = "absent" /\ disk[f] = Absent /\ store' = store
             \/ /\ state = "existing"
                /\ store' = Over([name \in {BaselineName(f)} |-> disk[f]], store)
      PROVE  Sources'
  <2>1. Available(op'.work, store', f) /\ Baseline(op'.work, store', f) = disk[f]
    BY <1>9 DEF Available, Baseline, Over
  <2>2. Suits(Loaded.snapshots, f, disk[f], wild[f])
    BY <1>6, <1>9 DEF SettledIn
  <2>3. \A g \in Files \ {f} :
          /\ BaselineName(g) \in DOMAIN store <=> BaselineName(g) \in DOMAIN store'
          /\ BaselineName(g) \in DOMAIN store => store[BaselineName(g)] = store'[BaselineName(g)]
    BY <1>9 DEF Over, BaselineName
  <2>4. ASSUME NEW g \in Files \ {f}, g \in Loaded.tracked
        PROVE  /\ Available(op'.work, store', g)
               /\ Baseline(op'.work, store', g) = Baseline(Loaded, store, g)
               /\ Available(saved, store', g)
               /\ Baseline(saved, store', g) = Baseline(Loaded, store, g)
    <3>1. Available(Loaded, store, g)
      BY <1>6, <2>4 DEF SettledIn
    <3>2. /\ g \in DOMAIN op'.work.baselines <=> g \in DOMAIN Loaded.baselines
          /\ g \in DOMAIN Loaded.baselines => op'.work.baselines[g] = Loaded.baselines[g]
      BY <1>9 DEF Over
    <3> QED BY <1>6, <2>3, <3>1, <3>2 DEF Available, Baseline
  <2>5. ASSUME NEW g \in Files PROVE SettledIn(op'.work, g, store', disk[g], wild[g])
    <3>1. CASE g = f
      BY <1>2, <1>9, <2>1, <2>2, <3>1 DEF SettledIn
    <3>2. CASE g # f /\ g \in Loaded.tracked
      BY <1>2, <1>6, <1>9, <2>4, <3>2 DEF SettledIn
    <3>3. CASE g # f /\ g \notin Loaded.tracked
      BY <1>2, <1>6, <1>9, <3>3 DEF SettledIn
    <3> QED BY <3>1, <3>2, <3>3
  <2>6. ASSUME NEW g \in Files PROVE SettledIn(saved, g, store', disk[g], wild[g])
    <3>1. CASE g \in Loaded.tracked
      BY <1>6, <1>9, <2>4, <3>1 DEF SettledIn
    <3>2. CASE g \notin Loaded.tracked
      BY <1>6, <3>2 DEF SettledIn
    <3> QED BY <3>1, <3>2
  <2>7. \A i \in DOMAIN Loaded.snapshots :
          DOMAIN Loaded.snapshots[i].backups \subseteq op'.work.tracked
    BY <1>6, <1>9
  <2> QED BY <1>2, <1>5, <1>6, <1>7, <1>9, <2>5, <2>6, <2>7 DEF Sources
<1>10. \/ /\ f \in Loaded.tracked /\ store' = store
          /\ op'.work.tracked = Loaded.tracked /\ op'.work.baselines = Loaded.baselines
       \/ /\ f \notin Loaded.tracked
          /\ op'.work.tracked = Loaded.tracked \cup {f}
          /\ \E state :
               /\ op'.work.baselines = Over([g \in {f} |-> state], Loaded.baselines)
               /\ \/ state = "absent" /\ disk[f] = Absent /\ store' = store
                  \/ /\ state = "existing"
                     /\ store' = Over([name \in {BaselineName(f)} |-> disk[f]], store)
                  \/ Fault
  BY <1>1, TrackShape
<1> QED BY <1>5, <1>8, <1>9, <1>10

LEMMA SourcesPruned ==
  ASSUME HistoryInv, OperationInv, SourceInv, NEW p \in Processes, Prune(p)
  PROVE  SourceInv'
<1> DEFINE h == op.work
           g == op'.work
           n == Len(h.snapshots)
<1>1. /\ op.kind = "snapshot" /\ UNCHANGED <<saved, disk, wild, counts>>
      /\ OperationIs("snapshot", "save")
      /\ g.tracked = h.tracked /\ g.baselines = h.baselines
  BY PruneShape
<1> SUFFICES ASSUME counts.faults = 0 PROVE Sources'
  BY <1>1 DEF SourceInv
<1>2. Sources /\ op.step # "restore"
  BY <1>1 DEF SourceInv, OperationInv
<1>3. PICK surplus \in 0..n : \E old :
        /\ IsPart(old, h.snapshots, 1, surplus)
        /\ IsPart(g.snapshots, h.snapshots, surplus + 1, n)
        /\ store' = Left(store, BackupsOf(old))
  BY PruneShape
<1>4. PICK old :
        /\ IsPart(old, h.snapshots, 1, surplus)
        /\ IsPart(g.snapshots, h.snapshots, surplus + 1, n)
        /\ store' = Left(store, BackupsOf(old))
  BY <1>3
<1>5. Numbered(h) /\ IsSequence(h.snapshots) /\ Len(h.snapshots) \in Nat
      /\ DOMAIN h.snapshots = 1..Len(h.snapshots)
  BY SequenceShape DEF HistoryInv, Numbered
<1> DEFINE m == surplus + 1
<1>6. n \in 0..Len(h.snapshots) /\ m \in Nat \ {0} /\ IsPart(g.snapshots, h.snapshots, m, n)
  BY <1>4, <1>5
<1> HIDE DEF m, n
<1>7. /\ \A edits : Whole(h.snapshots, edits) => Whole(g.snapshots, edits)
      /\ \A f, content, change :
           Suits(h.snapshots, f, content, change) => Suits(g.snapshots, f, content, change)
      /\ \A i \in DOMAIN g.snapshots :
           i + m - 1 \in DOMAIN h.snapshots /\ g.snapshots[i] = h.snapshots[i + m - 1]
  <2> HIDE DEF h, g
  <2> QED BY <1>5, <1>6, FewerSnapshots
<1>8. 1 \in Nat \ {0} /\ surplus \in 0..Len(h.snapshots)
  BY <1>4 DEF n
<1>9. \A f : /\ BaselineName(f) \in DOMAIN store <=> BaselineName(f) \in DOMAIN store'
             /\ BaselineName(f) \in DOMAIN store => store[BaselineName(f)] = store'[BaselineName(f)]
  <2> TAKE f
  <2> DEFINE fewer == store'
  <2>1. fewer = Left(store, BackupsOf(old))
    BY <1>4
  <2> HIDE DEF h, fewer
  <2>2. /\ BaselineName(f) \in DOMAIN store <=> BaselineName(f) \in DOMAIN fewer
        /\ BaselineName(f) \in DOMAIN store => store[BaselineName(f)] = fewer[BaselineName(f)]
    BY <1>4, <1>5, <1>8, <2>1, BaselinesStay
  <2> QED BY <2>2 DEF fewer
<1>10. ASSUME NEW f \in Files, SettledIn(h, f, store, disk[f], wild[f])
       PROVE  SettledIn(g, f, store', disk[f], wild[f])
  <2> DEFINE fewer == store'
  <2>1. /\ BaselineName(f) \in DOMAIN store <=> BaselineName(f) \in DOMAIN fewer
        /\ BaselineName(f) \in DOMAIN store => store[BaselineName(f)] = fewer[BaselineName(f)]
    BY <1>9
  <2>2. /\ g.baselines = h.baselines /\ g.tracked = h.tracked
        /\ \A c : Suits(h.snapshots, f, c, wild[f]) => Suits(g.snapshots, f, c, wild[f])
    BY <1>1, <1>7
  <2> HIDE DEF h, g, fewer
  <2>3. SettledIn(g, f, fewer, disk[f], wild[f])
    BY <1>10, <2>1, <2>2, SettledStays
  <2> QED BY <2>3 DEF fewer
<1>11. ASSUME NEW f \in Files, SettledIn(saved, f, store, disk[f], wild[f])
       PROVE  SettledIn(saved, f, store', disk[f], wild[f])
  BY <1>9, <1>11, SameBaselines DEF SettledIn
<1>12. \A i \in DOMAIN g.snapshots : DOMAIN g.snapshots[i].backups \subseteq g.tracked
  BY <1>1, <1>2, <1>7 DEF Sources
<1>13. op'.kind = "snapshot" /\ op'.step = "save"
  BY <1>1 DEF OperationIs
<1>14. Whole(g.snapshots, counts.edits)
  BY <1>2, <1>7 DEF Sources
<1> QED BY <1>1, <1>2, <1>10, <1>11, <1>12, <1>13, <1>14 DEF Sources

LEMMA SourcesLoaded ==
  ASSUME HistoryInv, OperationInv, SourceInv, NEW p \in Processes, NEW i, RewindCode(p, i)
  PROVE  SourceInv'
<1>1. /\ op = Unlocked /\ UNCHANGED <<saved, store, disk, wild, counts>>
      /\ op'.kind = "rewind" /\ op'.step = "restore" /\ op'.subject = i /\ op'.work = Loaded
      /\ op'.left = Loaded.tracked \cup DOMAIN Loaded.snapshots[i].backups
      /\ i \in DOMAIN Loaded.snapshots
  BY DEF RewindCode, Locked
<1> SUFFICES ASSUME counts.faults = 0 PROVE Sources'
  BY <1>1 DEF SourceInv
<1>2. Sources
  BY DEF SourceInv
<1>3. /\ Whole(Loaded.snapshots, counts.edits)
      /\ \A f \in Files : SettledIn(Loaded, f, store, disk[f], wild[f])
      /\ \A j \in DOMAIN Loaded.snapshots : DOMAIN Loaded.snapshots[j].backups \subseteq Loaded.tracked
  BY <1>1, <1>2, LoadedSources
<1> QED BY <1>1, <1>2, <1>3 DEF Sources, Target

LEMMA SourcesRestored ==
  ASSUME HistoryInv, OperationInv, SourceInv, NEW p \in Processes, NEW f \in Files, Restore(p, f)
  PROVE  SourceInv'
<1>1. /\ UNCHANGED <<saved, store, counts, wild>> /\ op.step = "restore" /\ op.kind = "rewind"
      /\ op' = [op EXCEPT !.left = @ \ {f}] /\ f \in op.left \cap DOMAIN Target.backups
      /\ disk' = [disk EXCEPT ![f] = Restored(f)]
  BY DEF Restore, OperationInv
<1>2. /\ op'.work = op.work /\ op'.kind = op.kind /\ op'.step = op.step
      /\ op'.subject = op.subject /\ op'.left = op.left \ {f} /\ Target' = Target
  BY <1>1 DEF OperationInv, Target
<1> SUFFICES ASSUME counts.faults = 0 PROVE Sources'
  BY <1>1 DEF SourceInv
<1>3. Sources /\ \A g \in Files \ {f} : disk'[g] = disk[g]
  BY <1>1 DEF SourceInv
<1>4. op.subject \in DOMAIN op.work.snapshots /\ IsSequence(op.work.snapshots)
  BY <1>1 DEF HistoryInv, Numbered, OperationInv
<1>5. op.subject <= op.subject
  BY <1>4, SequenceShape
<1>6. f \in op.work.tracked
  BY <1>1, <1>3, <1>4, <1>5 DEF Sources, Target
<1>7. \A g \in Files : SettledIn(op.work, g, store, disk'[g], wild[g])
  BY <1>3, <1>6 DEF Sources, SettledIn
<1> QED BY <1>1, <1>2, <1>3, <1>7 DEF Sources

LEMMA SourcesSaved ==
  ASSUME HistoryInv, OperationInv, SourceInv, NEW p \in Processes, Save(p)
  PROVE  SourceInv'
<1>1. /\ UNCHANGED <<disk, store, wild>> /\ op' = Unlocked /\ op.step = "save"
      /\ \/ saved' = op.work /\ counts' = counts
         \/ saved' = saved /\ Fault
  BY DEF Save
<1>2. Fault => counts'.edits = counts.edits /\ counts'.faults > 0
  BY DEF Fault, HistoryInv
<1> SUFFICES ASSUME counts'.faults = 0 PROVE Sources'
  BY <1>1, <1>2 DEF SourceInv
<1>3. saved' = op.work /\ counts' = counts /\ Sources
  BY <1>1, <1>2 DEF SourceInv
<1>4. /\ op'.work.snapshots = <<>> /\ op'.work.tracked = {} /\ op'.kind = "none"
      /\ op'.step = "none"
  BY <1>1 DEF Unlocked, NoHistory
<1>5. /\ Whole(op'.work.snapshots, counts.edits)
      /\ \A f \in Files : SettledIn(op'.work, f, store, disk[f], wild[f])
  BY <1>4 DEF Whole, SettledIn, Suits
<1> QED BY <1>1, <1>3, <1>4, <1>5 DEF Sources

LEMMA SourcesBaselineRestored ==
  ASSUME HistoryInv, OperationInv, SourceInv, NEW p \in Processes, NEW f \in Files,
         RestoreBaseline(p, f)
  PROVE  SourceInv'
<1> DEFINE h == op.work
           g == op'.work
<1>1. /\ op.kind = "rewind" /\ op.step = "restore" /\ UNCHANGED <<saved, wild, counts>>
      /\ f \in op.left \ DOMAIN Target.backups
      /\ OperationIs("rewind", "restore") /\ op'.subject = op.subject
      /\ op'.left = op.left \ {f} /\ g.snapshots = h.snapshots
  BY RestoreBaselineShape DEF RestoreBaseline
<1>2. /\ op.subject \in DOMAIN h.snapshots /\ DOMAIN h.snapshots = 1..Len(h.snapshots)
      /\ Len(h.snapshots) \in Nat /\ Target' = Target /\ Target = h.snapshots[op.subject]
  BY <1>1, SequenceShape DEF HistoryInv, Numbered, OperationInv, Target
<1>3. /\ \/ /\ Resolvable(f)
            /\ disk' = [disk EXCEPT ![f] = IF h.baselines[f] = "absent" THEN Absent
                                           ELSE store[BaselineName(f)]]
            /\ store' = IF h.baselines[f] = "absent" THEN store
                        ELSE Left(store, {BaselineName(f)})
            /\ g.tracked = h.tracked \ {f}
            /\ g.baselines = On(h.baselines, Files \ {f})
         \/ ~Resolvable(f) /\ UNCHANGED disk
  BY RestoreBaselineShape
<1>4. DOMAIN disk' = Files /\ DOMAIN wild' = Files /\ counts'.edits \in Nat
  BY <1>1, <1>3 DEF SourceInv
<1> SUFFICES ASSUME counts.faults = 0 PROVE Sources'
  BY <1>1, <1>4 DEF SourceInv
<1>5. Sources
  BY DEF SourceInv
<1>6. f \in h.tracked
  BY <1>1, <1>5 DEF Sources
<1>7. /\ Available(h, store, f)
      /\ Suits(h.snapshots, f, Baseline(h, store, f), wild[f])
  BY <1>5, <1>6 DEF Sources, SettledIn
<1>8. Resolvable(f)
  BY <1>7 DEF Available, Resolvable
<1>9. /\ disk' = [disk EXCEPT ![f] = Baseline(h, store, f)]
      /\ g.tracked = h.tracked \ {f} /\ g.baselines = On(h.baselines, Files \ {f})
      /\ store' = store \/ store' = Left(store, {BaselineName(f)})
  BY <1>3, <1>8 DEF Baseline
<1>10. disk'[f] = Baseline(h, store, f) /\ \A o \in Files \ {f} : disk'[o] = disk[o]
  BY <1>9 DEF SourceInv
<1>11. ASSUME NEW o \in Files \ {f}, Available(h, store, o)
       PROVE  Available(g, store', o) /\ Baseline(g, store', o) = Baseline(h, store, o)
  <2>1. BaselineName(o) # BaselineName(f)
    BY DEF BaselineName
  <2>2. /\ BaselineName(o) \in DOMAIN store <=> BaselineName(o) \in DOMAIN store'
        /\ BaselineName(o) \in DOMAIN store => store[BaselineName(o)] = store'[BaselineName(o)]
    BY <1>9, <2>1 DEF Left
  <2>3. o \in DOMAIN g.baselines /\ g.baselines[o] = h.baselines[o]
    BY <1>9, <1>11 DEF On, Available
  <2> QED BY <1>11, <2>2, <2>3 DEF Available, Baseline
<1>12. ASSUME NEW o \in Files PROVE SettledIn(g, o, store', disk'[o], wild[o])
  <2>1. SettledIn(h, o, store, disk[o], wild[o])
    BY <1>5 DEF Sources
  <2>2. CASE o = f
    BY <1>1, <1>7, <1>9, <1>10, <2>2 DEF SettledIn
  <2>3. CASE o # f
    BY <1>1, <1>9, <1>10, <1>11, <2>1, <2>3 DEF SettledIn
  <2> QED BY <2>2, <2>3
<1>13. ASSUME NEW i \in DOMAIN h.snapshots, i <= op.subject
       PROVE  DOMAIN h.snapshots[i].backups \subseteq g.tracked
  <2>1. DOMAIN h.snapshots[i].backups \subseteq h.tracked
    BY <1>5, <1>13 DEF Sources
  <2>2. DOMAIN h.snapshots[i].backups \subseteq DOMAIN Target.backups
    <3>1. i = op.subject \/ i < op.subject
      BY <1>2, <1>13
    <3> QED BY <1>2, <1>5, <3>1 DEF Sources, Whole
  <2> QED BY <1>1, <1>9, <2>1, <2>2
<1>14. op'.left \subseteq g.tracked \cup DOMAIN Target.backups
  BY <1>1, <1>5, <1>9 DEF Sources
<1>15. op'.kind = "rewind" /\ op'.step = "restore"
  BY <1>1 DEF OperationIs
<1>16. Whole(saved.snapshots, counts.edits) /\ Whole(g.snapshots, counts.edits)
  BY <1>1, <1>5 DEF Sources
<1> QED BY <1>1, <1>2, <1>12, <1>13, <1>14, <1>15, <1>16 DEF Sources

LEMMA SourcesDiscarded ==
  ASSUME HistoryInv, OperationInv, SourceInv, NEW p \in Processes, Discard(p)
  PROVE  SourceInv'
<1> DEFINE h == op.work
           g == op'.work
           k == op.subject + 1
           n == Len(h.snapshots)
<1>1. /\ op.kind = "rewind" /\ op.step = "restore" /\ UNCHANGED <<saved, disk, wild, counts>>
      /\ op.left = {} /\ op'.left = op.left
      /\ OperationIs("rewind", "save") /\ op'.subject = op.subject
      /\ g.baselines = h.baselines /\ g.tracked = h.tracked \cup DOMAIN Target.backups
      /\ op.subject \in 1..Len(h.snapshots)
      /\ IsPart(g.snapshots, h.snapshots, 1, op.subject)
  BY DiscardShape DEF Discard
<1> SUFFICES ASSUME counts.faults = 0 PROVE Sources'
  BY <1>1 DEF SourceInv
<1>2. Sources
  BY DEF SourceInv
<1>3. PICK later : IsPart(later, h.snapshots, k, n) /\ store' = Left(store, BackupsOf(later))
  BY DiscardShape
<1>4. Numbered(h) /\ IsSequence(h.snapshots) /\ Len(h.snapshots) \in Nat
      /\ DOMAIN h.snapshots = 1..Len(h.snapshots)
  BY SequenceShape DEF HistoryInv, Numbered
<1>5. op.subject \in 0..Len(h.snapshots) /\ op.subject \in DOMAIN h.snapshots /\ 1 \in Nat \ {0}
  BY <1>1, <1>4
<1>6. /\ \A edits : Whole(h.snapshots, edits) => Whole(g.snapshots, edits)
      /\ \A f, content, change :
           Suits(h.snapshots, f, content, change) => Suits(g.snapshots, f, content, change)
      /\ \A i \in DOMAIN g.snapshots :
           i + 1 - 1 \in DOMAIN h.snapshots /\ g.snapshots[i] = h.snapshots[i + 1 - 1]
  <2> HIDE DEF h, g
  <2> QED BY <1>1, <1>4, <1>5, FewerSnapshots
<1>7. \A i \in DOMAIN g.snapshots :
        i \in DOMAIN h.snapshots /\ i <= op.subject /\ g.snapshots[i] = h.snapshots[i]
  BY <1>1, <1>4, <1>6 DEF IsPart
<1>8. g.tracked = h.tracked
  <2>1. op.subject <= op.subject
    BY <1>1
  <2> QED BY <1>1, <1>2, <1>5, <2>1 DEF Sources, Target
<1>9. k \in Nat \ {0} /\ n \in 0..Len(h.snapshots)
  BY <1>1, <1>4
<1>10. \A f : /\ BaselineName(f) \in DOMAIN store <=> BaselineName(f) \in DOMAIN store'
              /\ BaselineName(f) \in DOMAIN store => store[BaselineName(f)] = store'[BaselineName(f)]
  <2> TAKE f
  <2> DEFINE fewer == store'
  <2>1. fewer = Left(store, BackupsOf(later))
    BY <1>3
  <2> HIDE DEF h, k, n, fewer
  <2>2. /\ BaselineName(f) \in DOMAIN store <=> BaselineName(f) \in DOMAIN fewer
        /\ BaselineName(f) \in DOMAIN store => store[BaselineName(f)] = fewer[BaselineName(f)]
    BY <1>3, <1>4, <1>9, <2>1, BaselinesStay
  <2> QED BY <2>2 DEF fewer
<1>11. ASSUME NEW f \in Files PROVE SettledIn(g, f, store', disk[f], wild[f])
  <2>1. SettledIn(h, f, store, disk[f], wild[f])
    BY <1>2 DEF Sources
  <2> DEFINE fewer == store'
  <2>2. /\ BaselineName(f) \in DOMAIN store <=> BaselineName(f) \in DOMAIN fewer
        /\ BaselineName(f) \in DOMAIN store => store[BaselineName(f)] = fewer[BaselineName(f)]
    BY <1>10
  <2>3. /\ g.baselines = h.baselines /\ g.tracked = h.tracked
        /\ \A c : Suits(h.snapshots, f, c, wild[f]) => Suits(g.snapshots, f, c, wild[f])
    BY <1>1, <1>6, <1>8
  <2> HIDE DEF h, g, fewer
  <2>4. SettledIn(g, f, fewer, disk[f], wild[f])
    BY <2>1, <2>2, <2>3, SettledStays
  <2> QED BY <2>4 DEF fewer
<1>12. \A i \in DOMAIN g.snapshots : DOMAIN g.snapshots[i].backups \subseteq g.tracked
  BY <1>2, <1>7, <1>8 DEF Sources
<1>13. op'.kind = "rewind" /\ op'.step = "save"
  BY <1>1 DEF OperationIs
<1>14. Whole(saved.snapshots, counts.edits) /\ Whole(g.snapshots, counts.edits)
  BY <1>2, <1>6 DEF Sources
<1> QED BY <1>1, <1>11, <1>12, <1>13, <1>14 DEF Sources

(* A tool writes a file, tracked or not.                                    *)
LEMMA SourcesWrittenByTool ==
  ASSUME HistoryInv, OperationInv, SourceInv, NEW p \in Processes, WriteFile(p)
  PROVE  SourceInv'
<1>1. UNCHANGED <<saved, store, op>> /\ pc[p] \in Files
  BY DEF WriteFile
<1>2. CASE UNCHANGED <<disk, counts, wild>>
  BY <1>1, <1>2, SourcesStay
<1>3. CASE /\ disk' = [disk EXCEPT ![pc[p]] = NextContent]
           /\ counts' = [counts EXCEPT !.edits = @ + 1]
           /\ wild' = IF pc[p] \in saved.tracked /\ op.kind # "rewind" THEN wild
                      ELSE [wild EXCEPT ![pc[p]] = NextContent]
  <2>1. counts'.edits = counts.edits + 1 /\ counts'.faults = counts.faults
    BY <1>3 DEF HistoryInv
  <2>2. CASE pc[p] \in saved.tracked /\ op.kind # "rewind"
    BY <1>1, <1>3, <2>1, <2>2, SourcesWritten
  <2>3. CASE ~(pc[p] \in saved.tracked /\ op.kind # "rewind")
    BY <1>1, <1>3, <2>1, <2>3, SourcesChanged
  <2> QED BY <2>2, <2>3
<1> QED BY <1>2, <1>3 DEF WriteFile

LEMMA SourcesTouched ==
  ASSUME HistoryInv, SourceInv, NEW f \in Files, Touch(f)
  PROVE  SourceInv'
<1>1. /\ UNCHANGED <<saved, store, op>> /\ wild' = [wild EXCEPT ![f] = NextContent]
      /\ counts' = [counts EXCEPT !.edits = @ + 1]
      /\ disk' = [disk EXCEPT ![f] = NextContent] \/ disk' = [disk EXCEPT ![f] = Absent]
  BY DEF Touch
<1>2. counts'.edits = counts.edits + 1 /\ counts'.faults = counts.faults
  BY <1>1 DEF HistoryInv
<1> QED BY <1>1, <1>2, SourcesChanged

(* After a death or a failing restore nothing is claimed any more.          *)
LEMMA SourcesCrashed ==
  ASSUME HistoryInv, SourceInv, NEW p \in Processes,
         Crash(p) \/ \E f \in Files : RestoreFails(p, f)
  PROVE  SourceInv'
<1>1. UNCHANGED <<disk, wild>> /\ Fault
  BY DEF Crash, RestoreFails
<1>2. counts'.edits = counts.edits /\ counts'.faults > 0
  BY <1>1 DEF Fault, HistoryInv
<1> QED BY <1>1, <1>2 DEF SourceInv

LEMMA SourcesKept ==
  ASSUME HistoryInv, OperationInv, SourceInv, [Next]_vars
  PROVE  SourceInv'
<1>1. CASE UNCHANGED vars
  BY <1>1, SourcesStay DEF vars
<1>2. ASSUME NEW p \in Processes,
             \/ Open(p) \/ Prompt(p) \/ Notified(p) \/ Message(p) \/ Compact(p) \/ Tear(p)
             \/ Count(p) \/ Interrupt(p) \/ ShowSnapshots(p) \/ Cancel(p) \/ Cut(p)
             \/ \E i \in 1..MaxSnapshots : RewindConversation(p, i)
      PROVE  SourceInv'
  <2>1. UNCHANGED <<saved, store, op>>
    BY <1>2, QuietSteps
  <2>2. /\ UNCHANGED <<disk, wild>> /\ counts'.edits = counts.edits
        /\ counts'.faults = 0 => counts.faults = 0
    <3>1. CASE Open(p) \/ Notified(p) \/ Count(p) \/ Interrupt(p)
               \/ ShowSnapshots(p) \/ Cancel(p) \/ Cut(p)
      BY <3>1 DEF Open, Notified, Count, Interrupt, ShowSnapshots, Cancel, Cut
    <3>2. CASE Prompt(p) \/ Message(p) \/ Compact(p)
      BY <3>2 DEF Prompt, Message, Compact, Wrote, Counted, HistoryInv
    <3>3. CASE Tear(p)
      BY <3>3 DEF Tear, Wrote, HistoryInv
    <3>4. CASE \E i \in 1..MaxSnapshots : RewindConversation(p, i)
      BY <3>4 DEF RewindConversation
    <3> QED BY <1>2, <3>1, <3>2, <3>3, <3>4
  <2> QED BY <2>1, <2>2, SourcesStay
<1>3. ASSUME NEW p \in Processes,
             \/ Copy(p) \/ Prune(p) \/ Save(p) \/ Discard(p) \/ WriteFile(p) \/ Crash(p)
             \/ \E i \in 1..MaxSnapshots : RewindCode(p, i)
             \/ \E f \in Files : \/ TrackEdit(p, f) \/ Restore(p, f) \/ RestoreBaseline(p, f)
                                 \/ RestoreFails(p, f)
      PROVE  SourceInv'
  BY <1>3, SourcesCopied, SourcesPruned, SourcesSaved, SourcesDiscarded, SourcesWrittenByTool,
     SourcesCrashed, SourcesLoaded, SourcesTracked, SourcesRestored, SourcesBaselineRestored
<1> QED BY <1>1, <1>2, <1>3, SourcesTouched DEF Next

LEMMA SourcesStart == Init => SourceInv
<1> SUFFICES ASSUME Init PROVE SourceInv
  OBVIOUS
<1>1. /\ saved = NoHistory /\ op = Unlocked /\ wild = [f \in Files |-> 0]
      /\ disk \in [Files -> {Absent, Original}]
      /\ counts = [messages |-> 1, edits |-> 0, faults |-> 0]
  BY DEF Init
<1>2. /\ saved.snapshots = <<>> /\ saved.tracked = {}
      /\ op.work.snapshots = <<>> /\ op.work.tracked = {} /\ op.kind = "none"
  BY <1>1 DEF Unlocked, NoHistory
<1> QED BY <1>1, <1>2 DEF SourceInv, Sources, Whole, SettledIn, Suits

(* A file that a step of a rewind is done with is back.                     *)
LEMMA RestoredKept ==
  ASSUME HistoryInv, OperationInv, SourceInv, [Next]_vars, NEW f \in Files,
         op'.kind = "rewind", f \in op.left \ op'.left, counts'.faults = 0
  PROVE  \/ disk'[f] = Target.was[f]
         \/ f \notin DOMAIN Target.backups /\ wild[f] > Target.edits
<1>1. op' # op
  OBVIOUS
<1>2. PICK p \in Processes : \/ Copy(p) \/ Prune(p) \/ Save(p) \/ Discard(p) \/ Crash(p)
                             \/ \E i \in 1..MaxSnapshots : RewindCode(p, i)
                             \/ \E g \in Files : \/ TrackEdit(p, g) \/ Restore(p, g)
                                                 \/ RestoreBaseline(p, g) \/ RestoreFails(p, g)
  <2>1. ~UNCHANGED vars /\ \A g \in Files : ~Touch(g)
    BY <1>1 DEF vars, Touch
  <2> QED BY <1>1, <2>1, QuietSteps DEF Next
<1>3. counts.faults = 0 /\ ~Fault
  <2>1. ~Fault
    BY DEF Fault, HistoryInv
  <2>2. counts' = counts
    BY <1>2, <2>1 DEF Copy, Prune, Save, Discard, Crash, RewindCode, TrackEdit, Restore,
       RestoreBaseline, RestoreFails
  <2> QED BY <2>1, <2>2
<1>4. Sources /\ op # Unlocked /\ op' # op /\ op' # Unlocked
  BY <1>3 DEF SourceInv, Unlocked
<1>5. /\ ~Copy(p) /\ ~Save(p) /\ ~Crash(p) /\ \A i : ~RewindCode(p, i)
      /\ \A g : ~TrackEdit(p, g) /\ ~RestoreFails(p, g)
  BY <1>4, <1>3 DEF Copy, Save, Crash, RewindCode, TrackEdit, RestoreFails
<1>6. ~Prune(p)
  BY PruneShape DEF OperationIs
<1>7. ~Discard(p)
  BY DiscardShape
<1>8. PICK g \in Files : Restore(p, g) \/ RestoreBaseline(p, g)
  BY <1>2, <1>5, <1>6, <1>7
<1>9. CASE Restore(p, g)
  <2>1. /\ op.kind = "rewind" /\ op' = [op EXCEPT !.left = @ \ {g}]
        /\ g \in DOMAIN Target.backups /\ disk' = [disk EXCEPT ![g] = Restored(g)]
    BY <1>9 DEF Restore, OperationInv
  <2>2. g = f
    BY <2>1 DEF OperationInv
  <2>3. disk'[f] = Restored(f)
    BY <2>1, <2>2 DEF SourceInv
  <2>4. op.subject \in DOMAIN op.work.snapshots /\ Target = op.work.snapshots[op.subject]
    BY <2>1 DEF OperationInv, Target
  <2>5. \/ Target.backups[f] = "existing"
        \/ Target.backups[f] = "absent" /\ Target.was[f] = Absent
    BY <1>4, <2>1, <2>2, <2>4 DEF Sources, Whole
  <2>6. CASE Target.backups[f] = "absent"
    BY <2>3, <2>5, <2>6 DEF Restored
  <2>7. CASE Target.backups[f] = "existing"
    <3>1. f \in Existing(Target)
      BY <2>1, <2>2, <2>7 DEF Existing
    <3>2. BackupName(f, Target.no) \in DOMAIN store
          /\ store[BackupName(f, Target.no)] = Target.was[f]
      BY <1>3, <2>4, <3>1 DEF HistoryInv, HeldIn, ExactIn
    <3> QED BY <2>3, <2>7, <3>2 DEF Restored
  <2> QED BY <2>5, <2>6, <2>7
<1>10. CASE RestoreBaseline(p, g)
  <2>1. /\ op.kind = "rewind" /\ g \in op.left \ DOMAIN Target.backups
        /\ op'.left = op.left \ {g}
        /\ \/ /\ Resolvable(g)
              /\ disk' = [disk EXCEPT ![g] = IF op.work.baselines[g] = "absent" THEN Absent
                                             ELSE store[BaselineName(g)]]
           \/ ~Resolvable(g)
    BY <1>10, RestoreBaselineShape
  <2>2. g = f
    BY <2>1
  <2>3. op.subject \in DOMAIN op.work.snapshots /\ Target = op.work.snapshots[op.subject]
    BY <2>1 DEF OperationInv, Target
  <2>4. f \in op.work.tracked
    BY <1>4, <2>1, <2>2 DEF Sources
  <2>5. /\ Available(op.work, store, f)
        /\ Suits(op.work.snapshots, f, Baseline(op.work, store, f), wild[f])
    BY <1>4, <2>4 DEF Sources, SettledIn
  <2>6. disk'[f] = Baseline(op.work, store, f)
    BY <2>1, <2>2, <2>5 DEF Available, Resolvable, Baseline, SourceInv
  <2> QED BY <2>1, <2>2, <2>3, <2>5, <2>6 DEF Suits
<1> QED BY <1>8, <1>9, <1>10

(* --------------------- places of a sequence, in order ------------------- *)

(* The places of a finite set of positions are numbered in their order. *)
LEMMA InOrder ==
  ASSUME NEW places \in SUBSET Nat, IsFiniteSet(places)
  PROVE  /\ Cardinality(places) \in Nat
         /\ \A i \in places : Rank(places, i) \in 1..Cardinality(places)
         /\ \A i, j \in places : i < j => Rank(places, i) < Rank(places, j)
         /\ \A k \in 1..Cardinality(places) :
              Nth(places, k) \in places /\ Rank(places, Nth(places, k)) = k
<1> DEFINE upTo(i) == {j \in places : j <= i}
           n == Cardinality(places)
           rank == [i \in places |-> Rank(places, i)]
<1>1. n \in Nat
  BY FS_CardinalityType
<1>2. ASSUME NEW i \in places
      PROVE  IsFiniteSet(upTo(i)) /\ Rank(places, i) \in 1..n
  <2>1. upTo(i) \in SUBSET places /\ i \in upTo(i)
    OBVIOUS
  <2>2. IsFiniteSet(upTo(i)) /\ Cardinality(upTo(i)) \in Nat /\ Cardinality(upTo(i)) <= n
    BY <2>1, FS_Subset, FS_CardinalityType
  <2>3. Cardinality(upTo(i)) # 0
    BY <2>1, <2>2, FS_EmptySet
  <2>4. Rank(places, i) = Cardinality(upTo(i))
    BY DEF Rank
  <2> HIDE DEF upTo, n
  <2> QED
    BY <1>1, <2>2, <2>3, <2>4
<1>3. ASSUME NEW i \in places, NEW j \in places, i < j
      PROVE  Rank(places, i) < Rank(places, j)
  <2>1. upTo(i) \in SUBSET upTo(j) /\ upTo(i) # upTo(j)
    <3>1. i \in Nat /\ j \in Nat /\ \A k \in places : k \in Nat
      OBVIOUS
    <3>2. \A k \in places : k <= i => k <= j
      BY <1>3, <3>1
    <3>3. j \in upTo(j) /\ j \notin upTo(i)
      BY <1>3, <3>1
    <3> QED
      BY <3>2, <3>3
  <2>2. /\ Cardinality(upTo(i)) <= Cardinality(upTo(j))
        /\ Cardinality(upTo(i)) # Cardinality(upTo(j))
    <3> HIDE DEF upTo
    <3> QED
      BY <1>2, <2>1, FS_Subset
  <2>3. Cardinality(upTo(i)) = Rank(places, i) /\ Cardinality(upTo(j)) = Rank(places, j)
    BY DEF Rank
  <2> HIDE DEF upTo
  <2> QED
    BY <1>1, <1>2, <2>2, <2>3
<1>4. rank \in Injection(places, 1..n)
  <2>1. rank \in [places -> 1..n]
    BY <1>2
  <2>2. ASSUME NEW i \in places, NEW j \in places, rank[i] = rank[j] PROVE i = j
    <3>1. Rank(places, i) = Rank(places, j)
      BY <2>2, Zenon
    <3>2. Rank(places, i) \in 1..n
      BY <1>2
    <3> HIDE DEF rank, n
    <3>3. ~(i < j) /\ ~(j < i)
      BY <1>1, <1>3, <3>1, <3>2
    <3> QED
      BY <3>3
  <2> HIDE DEF rank
  <2> QED
    BY <2>1, <2>2 DEF Injection, IsInjective
<1>5. IsFiniteSet(1..n) /\ Cardinality(1..n) = n
  BY <1>1, FS_Interval
<1>6. rank \in Surjection(places, 1..n)
  <2> HIDE DEF rank, n
  <2> QED
    BY <1>4, <1>5, FS_Injection DEF n
<1>7. ASSUME NEW k \in 1..n
      PROVE  Nth(places, k) \in places /\ Rank(places, Nth(places, k)) = k
  <2>1. \E i \in places : Rank(places, i) = k
    BY <1>6 DEF Surjection
  <2> QED
    BY <2>1 DEF Nth
<1> QED
  BY <1>1, <1>2, <1>3, <1>7

(* The positions of a sequence are a finite set of numbers. *)
LEMMA Positions ==
  ASSUME NEW S, NEW s \in Seq(S), NEW places \in SUBSET DOMAIN s
  PROVE  /\ places \in SUBSET Nat /\ IsFiniteSet(places)
         /\ Cardinality(places) \in Nat
<1>1. DOMAIN s = 1..Len(s) /\ Len(s) \in Nat
  OBVIOUS
<1>2. IsFiniteSet(1..Len(s))
  BY <1>1, FS_Interval
<1> QED
  BY <1>1, <1>2, FS_Subset, FS_CardinalityType

(* A selection has elements of the sequence. *)
LEMMA SelectedShape ==
  ASSUME NEW S, NEW s \in Seq(S), NEW places \in SUBSET DOMAIN s
  PROVE  Selected(s, places) \in Seq(S)
<1> DEFINE n == Cardinality(places)
           t == Selected(s, places)
<1>1. places \in SUBSET Nat /\ IsFiniteSet(places) /\ n \in Nat
  BY Positions
<1>2. \A k \in 1..n : Nth(places, k) \in places
  BY <1>1, InOrder
<1>3. \A i \in places : s[i] \in S
  OBVIOUS
<1>4. t = [k \in 1..n |-> s[Nth(places, k)]]
  BY DEF Selected
<1> HIDE DEF n, t
<1>5. t \in Seq(S)
  BY <1>1, <1>2, <1>3, <1>4
<1> QED
  BY <1>5 DEF t

(* Some of the places of a sequence, the last of which there is. *)
LEMMA LastPlace ==
  ASSUME NEW places \in SUBSET Nat, IsFiniteSet(places), places # {}
  PROVE  \E i \in places : \A j \in places : j <= i
<1> DEFINE n == Cardinality(places)
<1>1. /\ n \in Nat
      /\ \A i \in places : Rank(places, i) \in 1..n
      /\ \A i, j \in places : i < j => Rank(places, i) < Rank(places, j)
      /\ \A k \in 1..n : Nth(places, k) \in places /\ Rank(places, Nth(places, k)) = k
  BY InOrder
<1> HIDE DEF n
<1>2. n \in 1..n
  <2>1. PICK i \in places : TRUE
    OBVIOUS
  <2>2. Rank(places, i) \in 1..n
    BY <1>1
  <2> QED
    BY <1>1, <2>2
<1>3. PICK i \in places : Rank(places, i) = n
  BY <1>1, <1>2
<1>4. \A j \in places : j \in Nat
  OBVIOUS
<1>5. \A j \in places : ~(i < j)
  BY <1>1, <1>3
<1> QED
  BY <1>3, <1>4, <1>5

(* ----------------------- the log and its checkpoints -------------------- *)

(* What is in the log, the counters, and the number of lines. *)
Fragments ==
  [kind : {"message", "boundary"}, id : Messages, keep : Seq(Messages), whole : BOOLEAN]
LogTyped ==
  /\ log \in Seq(Seq(Fragments) \ {<<>>}) /\ open \in BOOLEAN /\ (open => log # <<>>)
  /\ Len(log) <= counts.messages /\ cuts \in Seq(Nat)
CountsTyped ==
  /\ DOMAIN counts = {"messages", "edits", "faults"}
  /\ counts.messages \in Nat \ {0} /\ counts.edits \in Nat /\ counts.faults \in Nat
  /\ counts.messages + counts.edits <= MaxWrites
FilesTyped ==
  /\ disk \in [Files -> Contents] /\ wild \in [Files -> Contents]
  /\ DOMAIN store \subseteq Names
  /\ \A name \in DOMAIN store : store[name] \in Contents \ {Absent}

(* A checkpoint marks the conversation of its time unless the log was cut   *)
(* below it.  Later lines are not glued to what it counts.                  *)
IntactIn(lengths, at) ==
  at.ended /\ \A c \in DOMAIN lengths : c > at.cuts => lengths[c] >= at.lines
MarksIn(lines, torn, lengths, at) ==
  /\ at \in Checkpoints /\ at.cuts <= Len(lengths)
  /\ IntactIn(lengths, at) => /\ at.lines <= Len(lines) /\ (torn => at.lines < Len(lines))
                              /\ Rebuilt(Prefix(lines, at.lines)) = at.talk
MarkedIn(snapshots, lines, torn, lengths) ==
  \A i \in DOMAIN snapshots : MarksIn(lines, torn, lengths, snapshots[i].at)
Marks(at) == MarksIn(log, open, cuts, at)
Marked(snapshots) == MarkedIn(snapshots, log, open, cuts)

(* The history an operation works on, and what it works for. *)
WorkTyped(o, lines, torn, lengths) ==
  /\ IsHistory(o.work) /\ MarkedIn(o.work.snapshots, lines, torn, lengths)
  /\ o.step # "prune" => Len(o.work.snapshots) <= MaxSnapshots
  /\ o.by \in Processes \cup {None} /\ o.left \subseteq Files
  /\ o.kind = "track" => o.subject \in Files

(* All lists of snapshots, and the checkpoints of the processes, mark. *)
Choosing == {"code_and_conversation", "code_only"}
HistoriesTyped ==
  /\ IsHistory(saved) /\ Marked(saved.snapshots) /\ Len(saved.snapshots) <= MaxSnapshots
  /\ WorkTyped(op, log, open, cuts)
  /\ op.kind = "rewind" => op.by \in Processes /\ pc[op.by] \in Choosing
ProcessesTyped ==
  /\ pc \in [Processes -> Files \cup Steps]
  /\ DOMAIN shown = Processes /\ DOMAIN pending = Processes
  /\ \A p \in Processes : IsList(shown[p]) /\ Marked(shown[p])
  /\ \A p \in Processes :
       pc[p] \in {"counted", "ending", "cutting"} \cup Choosing => Marks(pending[p])
BranchInv == LogTyped /\ CountsTyped /\ FilesTyped /\ HistoriesTyped /\ ProcessesTyped
(* ------------------- what a log says of a conversation ------------------ *)

(* A line has fragments, and what can be read of it is the first of them. *)
LEMMA RecordsTyped ==
  ASSUME NEW lines \in Seq(Seq(Fragments) \ {<<>>})
  PROVE  Records(lines) \in Seq(Fragments)
<1> DEFINE S == Seq(Fragments) \ {<<>>}
           places == {i \in DOMAIN lines : Readable(lines[i])}
           readable == Selected(lines, places)
<1>1. readable \in Seq(S)
  <2>1. lines \in Seq(S) /\ places \in SUBSET DOMAIN lines
    OBVIOUS
  <2> HIDE DEF S, places
  <2> QED
    BY <2>1, SelectedShape
<1>2. \A line \in S : line[1] \in Fragments
  <2> SUFFICES ASSUME NEW line \in S PROVE line[1] \in Fragments
    OBVIOUS
  <2>1. line \in Seq(Fragments) /\ line # <<>>
    OBVIOUS
  <2>2. Head(line) \in Fragments /\ Head(line) = line[1]
    BY <2>1, HeadTailProperties, EmptySeq
  <2> QED
    BY <2>2
<1>3. Records(lines) = [i \in DOMAIN readable |-> readable[i][1]]
  BY DEF Records
<1> HIDE DEF S, readable
<1>4. DOMAIN readable = 1..Len(readable) /\ Len(readable) \in Nat
  BY <1>1
<1>5. \A i \in 1..Len(readable) : readable[i][1] \in Fragments
  BY <1>1, <1>2, <1>4
<1>6. [i \in 1..Len(readable) |-> readable[i][1]] \in Seq(Fragments)
  BY <1>4, <1>5
<1> QED
  BY <1>3, <1>4, <1>6

(* The conversation of a log is made of the messages in it. *)
LEMMA RebuiltTyped ==
  ASSUME NEW lines \in Seq(Seq(Fragments) \ {<<>>})
  PROVE  Rebuilt(lines) \in Seq(Messages)
<1> DEFINE records == Records(lines)
           places(from) == {i \in from..Len(records) : records[i].kind = "message"}
           later(from) == Selected(records, places(from))
           ids(from) == [i \in DOMAIN later(from) |-> later(from)[i].id]
           boundaries == {i \in DOMAIN records : records[i].kind = "boundary"}
           last == CHOOSE i \in boundaries : \A j \in boundaries : j <= i
<1>1. /\ records \in Seq(Fragments) /\ Len(records) \in Nat
      /\ DOMAIN records = 1..Len(records)
      /\ \A i \in 1..Len(records) : records[i] \in Fragments
  <2>1. records \in Seq(Fragments)
    BY RecordsTyped
  <2> HIDE DEF records
  <2> QED
    BY <2>1
<1>2. Rebuilt(lines) = IF boundaries = {} THEN ids(1)
                       ELSE <<records[last].id>> \o records[last].keep \o ids(last + 1)
  BY DEF Rebuilt
<1> HIDE DEF records
<1>3. \A r \in Fragments : r.id \in Messages /\ r.keep \in Seq(Messages)
  BY DEF Fragments
<1>4. ASSUME NEW from \in Nat \ {0} PROVE ids(from) \in Seq(Messages)
  <2> DEFINE s == later(from)
  <2>1. s \in Seq(Fragments)
    <3>1. places(from) \in SUBSET DOMAIN records
      BY <1>1
    <3> HIDE DEF places
    <3> QED
      BY <1>1, <3>1, SelectedShape
  <2>2. ids(from) = [i \in DOMAIN s |-> s[i].id]
    OBVIOUS
  <2> HIDE DEF s, ids
  <2>3. DOMAIN s = 1..Len(s) /\ Len(s) \in Nat /\ \A i \in 1..Len(s) : s[i].id \in Messages
    BY <1>3, <2>1
  <2>4. [i \in 1..Len(s) |-> s[i].id] \in Seq(Messages)
    BY <2>3
  <2> QED
    BY <2>2, <2>3, <2>4
<1>5. CASE boundaries = {}
  <2> HIDE DEF boundaries, ids
  <2>1. Rebuilt(lines) = ids(1)
    BY <1>2, <1>5
  <2>2. 1 \in Nat \ {0}
    OBVIOUS
  <2> QED
    BY <1>4, <2>1, <2>2
<1>6. CASE boundaries # {}
  <2>1. boundaries \in SUBSET Nat /\ IsFiniteSet(boundaries)
    <3>1. boundaries \in SUBSET DOMAIN records
      OBVIOUS
    <3> HIDE DEF boundaries
    <3> QED
      BY <1>1, <3>1, Positions
  <2>2. last \in boundaries
    <3> HIDE DEF boundaries
    <3>1. \E i \in boundaries : \A j \in boundaries : j <= i
      BY <1>6, <2>1, LastPlace
    <3> QED
      BY <3>1
  <2>3. last \in 1..Len(records)
    BY <1>1, <2>2
  <2> DEFINE more == ids(last + 1)
             kept == records[last].keep
             id == records[last].id
  <2> HIDE DEF last, ids
  <2>4. more \in Seq(Messages)
    <3>1. last + 1 \in Nat \ {0}
      BY <1>1, <2>3
    <3> QED
      BY <1>4, <3>1
  <2>5. kept \in Seq(Messages) /\ id \in Messages
    BY <1>1, <1>3, <2>3
  <2>6. Rebuilt(lines) = <<id>> \o kept \o more
    BY <1>2, <1>6
  <2> HIDE DEF more, kept, id
  <2> QED
    BY <2>4, <2>5, <2>6
<1> QED
  BY <1>5, <1>6

(* ------------------------- the lines of a checkpoint -------------------- *)

(* The first lines of a log. *)
LEMMA PrefixShape ==
  ASSUME NEW S, NEW lines \in Seq(S), NEW n \in Nat
  PROVE  /\ Prefix(lines, n) \in Seq(S)
         /\ n <= Len(lines) => Len(Prefix(lines, n)) = n
         /\ n >= Len(lines) => Prefix(lines, n) = lines
         /\ Len(Prefix(lines, n)) <= Len(lines)
         /\ \A i \in 1..Len(Prefix(lines, n)) : Prefix(lines, n)[i] = lines[i]
<1>1. Len(lines) \in Nat
  OBVIOUS
<1>2. CASE n >= Len(lines)
  <2>1. Prefix(lines, n) = lines
    BY <1>2 DEF Prefix
  <2>2. n <= Len(lines) => n = Len(lines)
    BY <1>1, <1>2
  <2> QED
    BY <1>1, <2>1, <2>2
<1>3. CASE ~(n >= Len(lines))
  <2>1. Prefix(lines, n) = SubSeq(lines, 1, n)
    BY <1>3 DEF Prefix
  <2> DEFINE cut == SubSeq(lines, 1, n)
  <2>2. cut \in Seq(S) /\ Len(cut) = n /\ \A i \in 1..Len(cut) : cut[i] = lines[i]
    <3>1. n <= Len(lines)
      BY <1>1, <1>3
    <3> QED
      BY <1>1, <3>1
  <2> HIDE DEF cut
  <2> QED
    BY <1>1, <1>3, <2>1, <2>2 DEF cut
<1> QED
  BY <1>2, <1>3

(* Logs with the same first lines. *)
SameUpTo(one, other, n) ==
  /\ n <= Len(one) /\ n <= Len(other) /\ \A i \in 1..n : one[i] = other[i]

LEMMA SamePrefix ==
  ASSUME NEW S, NEW one \in Seq(S), NEW other \in Seq(S), NEW n \in Nat, SameUpTo(one, other, n)
  PROVE  Prefix(one, n) = Prefix(other, n)
<1> DEFINE p == Prefix(one, n)
           q == Prefix(other, n)
<1>1. p \in Seq(S) /\ q \in Seq(S) /\ Len(p) = n /\ Len(q) = n
  BY PrefixShape DEF SameUpTo
<1>2. /\ \A i \in 1..Len(p) : p[i] = one[i]
      /\ \A i \in 1..Len(q) : q[i] = other[i]
  BY PrefixShape
<1> HIDE DEF p, q
<1>3. \A i \in 1..Len(p) : p[i] = q[i]
  BY <1>1, <1>2 DEF SameUpTo
<1>4. p = q
  BY <1>1, <1>3, SeqEqual
<1> QED
  BY <1>4 DEF p, q

(* What is true of every log that has the lines a checkpoint counts, and no *)
(* torn line among them.                                                    *)
LEMMA MarksOver ==
  ASSUME NEW S, NEW lines \in Seq(S), NEW torn, NEW lengths, NEW at,
         MarksIn(lines, torn, lengths, at),
         NEW lines2 \in Seq(S), NEW torn2, NEW lengths2, Len(lengths) <= Len(lengths2),
         Len(lengths) \in Nat, Len(lengths2) \in Nat,
         IntactIn(lengths2, at) => IntactIn(lengths, at),
         (IntactIn(lengths2, at) /\ IntactIn(lengths, at)) =>
           SameUpTo(lines, lines2, at.lines) /\ (torn2 => at.lines < Len(lines2))
  PROVE  MarksIn(lines2, torn2, lengths2, at)
<1>1. at \in Checkpoints /\ at.cuts <= Len(lengths) /\ at.lines \in Nat /\ at.cuts \in Nat
  BY BoundsAssumption DEF MarksIn, Checkpoints
<1>2. at.cuts <= Len(lengths2)
  BY <1>1
<1>3. SUFFICES ASSUME IntactIn(lengths2, at)
               PROVE  /\ at.lines <= Len(lines2) /\ (torn2 => at.lines < Len(lines2))
                      /\ Rebuilt(Prefix(lines2, at.lines)) = at.talk
  BY <1>1, <1>2 DEF MarksIn
<1>4. SameUpTo(lines, lines2, at.lines) /\ (torn2 => at.lines < Len(lines2))
  BY <1>3
<1>5. Prefix(lines, at.lines) = Prefix(lines2, at.lines)
  BY <1>1, <1>4, SamePrefix
<1>6. Rebuilt(Prefix(lines, at.lines)) = at.talk
  BY <1>3 DEF MarksIn
<1> QED
  BY <1>4, <1>5, <1>6 DEF SameUpTo

(* What is appended starts a line, or goes on with the torn one. *)
LEMMA AppendedShape ==
  ASSUME LogTyped, NEW fragment \in Fragments
  PROVE  /\ Appended(fragment) \in Seq(Seq(Fragments) \ {<<>>})
         /\ Len(Appended(fragment)) = IF open THEN Len(log) ELSE Len(log) + 1
         /\ \A i \in 1..Len(log) : (open => i < Len(log)) => Appended(fragment)[i] = log[i]
         /\ Appended(fragment) # <<>>
<1> DEFINE S == Seq(Fragments) \ {<<>>}
           more == Appended(fragment)
<1>1. log \in Seq(S) /\ Len(log) \in Nat /\ open \in BOOLEAN /\ (open => log # <<>>)
  BY DEF LogTyped
<1>2. CASE open
  <2> DEFINE k == Len(log)
             line == Append(log[k], fragment)
  <2>1. k \in 1..Len(log)
    BY <1>1, <1>2, EmptySeq
  <2>2. log[k] \in Seq(Fragments)
    <3> HIDE DEF k
    <3> QED
      BY <1>1, <2>1
  <2>3. line \in S
    <3> DEFINE torn == log[k]
    <3>1. torn \in Seq(Fragments)
      BY <2>2
    <3> HIDE DEF torn
    <3>2. Append(torn, fragment) \in Seq(Fragments) /\ Append(torn, fragment) # <<>>
      <4>1. Append(torn, fragment) \in Seq(Fragments)
        BY <3>1
      <4>2. Len(Append(torn, fragment)) = Len(torn) + 1 /\ Len(torn) \in Nat
        BY <3>1
      <4>3. Len(Append(torn, fragment)) # 0
        BY <4>2
      <4> QED
        BY <4>1, <4>3, EmptySeq
    <3> QED
      BY <3>2 DEF torn
  <2>4. more = [log EXCEPT ![k] = line]
    BY <1>2 DEF Appended
  <2> HIDE DEF k, line, S, more
  <2>5. more \in Seq(S) /\ Len(more) = Len(log)
        /\ \A i \in 1..Len(log) : i # k => more[i] = log[i]
    BY <1>1, <2>1, <2>3, <2>4, ExceptSeq
  <2>6. \A i \in 1..Len(log) : i < Len(log) => i # k
    BY <1>1 DEF k
  <2>7. more # <<>>
    BY <1>1, <1>2, <2>1, <2>5, EmptySeq
  <2> QED
    BY <1>2, <2>5, <2>6, <2>7 DEF more, S
<1>3. CASE ~open
  <2> DEFINE line == <<fragment>>
  <2>1. line \in S
    OBVIOUS
  <2>2. more = Append(log, line)
    BY <1>3 DEF Appended
  <2> HIDE DEF line, S, more
  <2>3. more \in Seq(S) /\ Len(more) = Len(log) + 1 /\ \A i \in 1..Len(log) : more[i] = log[i]
    BY <1>1, <2>1, <2>2
  <2>4. more # <<>>
    BY <1>1, <2>3, EmptySeq
  <2> QED
    BY <1>3, <2>3, <2>4 DEF more, S
<1> QED
  BY <1>2, <1>3

(* A step on the log: nothing, something appended, or a cut. *)
LogSteps ==
  \/ UNCHANGED <<log, open, cuts>>
  \/ \E fragment \in Fragments :
       log' = Appended(fragment) /\ open' \in BOOLEAN /\ cuts' = cuts
  \/ \E n \in Nat : log' = Prefix(log, n) /\ open' = FALSE /\ cuts' = Append(cuts, n)

(* A log stays a log. *)
LEMMA LogStays ==
  ASSUME LogTyped, LogSteps
  PROVE  /\ log' \in Seq(Seq(Fragments) \ {<<>>}) /\ open' \in BOOLEAN /\ (open' => log' # <<>>)
         /\ cuts' \in Seq(Nat)
         /\ Len(log') \in Nat /\ Len(log') <= Len(log) + 1
         /\ Len(cuts') \in Nat /\ Len(cuts') >= Len(cuts)
         /\ (UNCHANGED log \/ cuts' # cuts) => Len(log') <= Len(log)
<1> DEFINE S == Seq(Fragments) \ {<<>>}
<1>1. /\ log \in Seq(S) /\ Len(log) \in Nat /\ open \in BOOLEAN /\ (open => log # <<>>)
      /\ cuts \in Seq(Nat) /\ Len(cuts) \in Nat
  BY DEF LogTyped
<1>2. CASE UNCHANGED <<log, open, cuts>>
  BY <1>1, <1>2
<1>3. ASSUME NEW fragment \in Fragments,
             log' = Appended(fragment), open' \in BOOLEAN, cuts' = cuts
      PROVE  /\ log' \in Seq(S) /\ log' # <<>> /\ Len(log') \in Nat /\ Len(log') <= Len(log) + 1
             /\ log' = log => Len(log') <= Len(log)
  <2>1. /\ log' \in Seq(S) /\ log' # <<>>
        /\ Len(log') = IF open THEN Len(log) ELSE Len(log) + 1
    BY <1>3, AppendedShape
  <2> HIDE DEF S
  <2>2. Len(log') \in Nat /\ Len(log') <= Len(log) + 1
    BY <1>1, <2>1
  <2> QED
    BY <1>1, <2>1, <2>2
<1>4. ASSUME NEW n \in Nat, log' = Prefix(log, n), open' = FALSE, cuts' = Append(cuts, n)
      PROVE  /\ log' \in Seq(S) /\ Len(log') <= Len(log) /\ Len(log') \in Nat
             /\ Len(log') <= Len(log) + 1
             /\ cuts' \in Seq(Nat) /\ Len(cuts') \in Nat /\ Len(cuts') >= Len(cuts)
  <2> DEFINE cut == Prefix(log, n)
  <2>1. log \in Seq(S)
    BY <1>1
  <2> HIDE DEF S
  <2>2. cut \in Seq(S) /\ Len(cut) <= Len(log)
    BY <2>1, PrefixShape
  <2>3. Len(cut) \in Nat
    BY <2>2
  <2>4. Append(cuts, n) \in Seq(Nat) /\ Len(Append(cuts, n)) = Len(cuts) + 1
    BY <1>1
  <2>5. Len(cut) <= Len(log) + 1 /\ Len(cuts) + 1 >= Len(cuts) /\ Len(cuts) + 1 \in Nat
    BY <1>1, <2>2, <2>3
  <2> HIDE DEF cut
  <2>6. log' = cut /\ cuts' = Append(cuts, n)
    BY <1>4 DEF cut
  <2> QED
    BY <2>2, <2>3, <2>4, <2>5, <2>6
<1> HIDE DEF S
<1>5. CASE \E fragment \in Fragments :
             log' = Appended(fragment) /\ open' \in BOOLEAN /\ cuts' = cuts
  BY <1>1, <1>3, <1>5 DEF S
<1>6. CASE \E n \in Nat : log' = Prefix(log, n) /\ open' = FALSE /\ cuts' = Append(cuts, n)
  BY <1>1, <1>4, <1>6 DEF S
<1> QED
  BY <1>2, <1>5, <1>6 DEF LogSteps

(* What a checkpoint says of the log it keeps saying. *)
LEMMA MarksStay ==
  ASSUME LogTyped, LogSteps, NEW at, MarksIn(log, open, cuts, at)
  PROVE  MarksIn(log', open', cuts', at)
<1> DEFINE S == Seq(Fragments) \ {<<>>}
           lines2 == log'
           lengths2 == cuts'
<1>1. /\ log \in Seq(S) /\ Len(log) \in Nat /\ cuts \in Seq(Nat) /\ Len(cuts) \in Nat
      /\ DOMAIN cuts = 1..Len(cuts)
  BY DEF LogTyped
<1>2. lines2 \in Seq(S) /\ Len(lengths2) \in Nat /\ Len(cuts) <= Len(lengths2)
  BY LogStays
<1>3. /\ at.lines \in Nat /\ at.cuts \in Nat /\ at.cuts <= Len(cuts)
      /\ IntactIn(cuts, at) => at.lines <= Len(log) /\ (open => at.lines < Len(log))
  BY BoundsAssumption DEF MarksIn, Checkpoints
<1> HIDE DEF S
<1>4. CASE UNCHANGED <<log, open, cuts>>
  BY <1>4
<1>5. ASSUME NEW fragment \in Fragments,
             log' = Appended(fragment), open' \in BOOLEAN, cuts' = cuts
      PROVE  MarksIn(log', open', cuts', at)
  <2> DEFINE torn2 == open'
  <2>1. /\ Len(lines2) = IF open THEN Len(log) ELSE Len(log) + 1
        /\ \A i \in 1..Len(log) : (open => i < Len(log)) => lines2[i] = log[i]
    BY <1>5, AppendedShape
  <2>2. open \in BOOLEAN
    BY DEF LogTyped
  <2>3. lengths2 = cuts
    BY <1>5
  <2> HIDE DEF lines2, lengths2, torn2
  <2>4. ASSUME IntactIn(cuts, at)
        PROVE  SameUpTo(log, lines2, at.lines) /\ (torn2 => at.lines < Len(lines2))
    <3>1. at.lines <= Len(log) /\ (open => at.lines < Len(log))
      BY <1>3, <2>4
    <3>2. at.lines <= Len(lines2) /\ at.lines < Len(lines2)
      BY <1>1, <1>3, <2>1, <2>2, <3>1
    <3>3. \A i \in 1..at.lines : i \in 1..Len(log) /\ (open => i < Len(log))
      BY <1>1, <1>3, <3>1
    <3>4. \A i \in 1..at.lines : log[i] = lines2[i]
      BY <2>1, <3>3
    <3> QED
      BY <3>1, <3>2, <3>4 DEF SameUpTo
  <2>5. MarksIn(lines2, torn2, lengths2, at)
    BY <1>1, <1>2, <2>3, <2>4, MarksOver
  <2> QED
    BY <2>5 DEF lines2, lengths2, torn2
<1>6. ASSUME NEW n \in Nat, log' = Prefix(log, n), open' = FALSE, cuts' = Append(cuts, n)
      PROVE  MarksIn(log', open', cuts', at)
  <2> DEFINE torn2 == open'
             k == Len(cuts) + 1
  <2>1. /\ n <= Len(log) => Len(lines2) = n
        /\ n >= Len(log) => lines2 = log
        /\ \A i \in 1..Len(lines2) : lines2[i] = log[i]
    BY <1>1, <1>6, PrefixShape
  <2>2. /\ Len(lengths2) = k /\ lengths2[k] = n /\ DOMAIN lengths2 = 1..k
        /\ \A c \in 1..Len(cuts) : lengths2[c] = cuts[c]
    BY <1>1, <1>6
  <2>3. ~torn2
    BY <1>6
  <2> HIDE DEF lines2, lengths2, torn2
  <2>4. k \in DOMAIN lengths2 /\ k > at.cuts /\ \A c \in DOMAIN cuts : c \in DOMAIN lengths2
    BY <1>1, <1>3, <2>2
  <2> HIDE DEF k
  <2>5. ASSUME IntactIn(lengths2, at)
        PROVE  IntactIn(cuts, at) /\ n >= at.lines
    BY <1>1, <2>2, <2>4, <2>5 DEF IntactIn
  <2>6. ASSUME IntactIn(lengths2, at)
        PROVE  SameUpTo(log, lines2, at.lines) /\ (torn2 => at.lines < Len(lines2))
    <3>1. at.lines <= Len(log) /\ at.lines <= n
      BY <1>3, <2>5, <2>6
    <3>2. at.lines <= Len(lines2)
      BY <1>1, <1>3, <2>1, <3>1
    <3>3. \A i \in 1..at.lines : i \in 1..Len(lines2)
      BY <1>2, <1>3, <3>2
    <3>4. \A i \in 1..at.lines : log[i] = lines2[i]
      BY <2>1, <3>3
    <3> QED
      BY <2>3, <3>1, <3>2, <3>4 DEF SameUpTo
  <2>7. MarksIn(lines2, torn2, lengths2, at)
    BY <1>1, <1>2, <2>5, <2>6, MarksOver
  <2> QED
    BY <2>7 DEF lines2, lengths2, torn2
<1>7. CASE \E fragment \in Fragments :
             log' = Appended(fragment) /\ open' \in BOOLEAN /\ cuts' = cuts
  BY <1>5, <1>7
<1>8. CASE \E n \in Nat : log' = Prefix(log, n) /\ open' = FALSE /\ cuts' = Append(cuts, n)
  BY <1>6, <1>8
<1> QED
  BY <1>4, <1>7, <1>8 DEF LogSteps

(* ------------------------- the log and the counters --------------------- *)

(* A fragment is written and its message counted. *)
LEMMA LogWritten ==
  ASSUME LogTyped, CountsTyped, NEW fragment \in Fragments, NEW ended \in BOOLEAN,
         Wrote(fragment, ended),
         \/ counts' = [counts EXCEPT !.messages = @ + 1]
         \/ counts' = [counts EXCEPT !.messages = @ + 1, !.faults = @ + 1]
  PROVE  LogSteps /\ LogTyped' /\ CountsTyped'
<1>1. Room /\ log' = Appended(fragment) /\ open' \in BOOLEAN /\ cuts' = cuts
  BY DEF Wrote
<1>2. LogSteps
  BY <1>1 DEF LogSteps
<1>3. /\ DOMAIN counts' = {"messages", "edits", "faults"}
      /\ counts'.messages = counts.messages + 1 /\ counts'.edits = counts.edits
      /\ counts'.faults = counts.faults \/ counts'.faults = counts.faults + 1
  BY DEF CountsTyped
<1>4. CountsTyped'
  BY <1>1, <1>3, BoundsAssumption DEF CountsTyped, Room
<1>5. LogTyped'
  <2>1. /\ log' \in Seq(Seq(Fragments) \ {<<>>}) /\ open' \in BOOLEAN /\ (open' => log' # <<>>)
        /\ cuts' \in Seq(Nat) /\ Len(log') \in Nat /\ Len(log') <= Len(log) + 1
    BY <1>2, LogStays
  <2>2. Len(log) \in Nat /\ Len(log) <= counts.messages /\ counts.messages \in Nat
    BY DEF LogTyped, CountsTyped
  <2>3. Len(log') <= counts'.messages
    BY <1>3, <2>1, <2>2
  <2> QED
    BY <2>1, <2>3 DEF LogTyped
<1> QED
  BY <1>2, <1>4, <1>5

(* What other steps count. *)
OtherCounts ==
  \/ counts' = counts
  \/ Fault
  \/ Room /\ counts' = [counts EXCEPT !.edits = @ + 1]

LEMMA OthersCounted ==
  ASSUME CountsTyped, OtherCounts
  PROVE  CountsTyped' /\ counts'.messages = counts.messages
<1>1. \/ counts' = counts
      \/ counts' = [counts EXCEPT !.faults = @ + 1]
      \/ Room /\ counts' = [counts EXCEPT !.edits = @ + 1]
  BY DEF OtherCounts, Fault
<1> QED
  BY <1>1, BoundsAssumption DEF CountsTyped, Room

LEMMA LogAlone ==
  ASSUME LogTyped, CountsTyped, UNCHANGED <<log, open, cuts>>, OtherCounts
  PROVE  LogSteps /\ LogTyped' /\ CountsTyped'
<1>1. CountsTyped' /\ counts'.messages = counts.messages
  BY OthersCounted
<1> QED
  BY <1>1 DEF LogTyped, LogSteps

(* The log is cut to the lines of a checkpoint. *)
LEMMA LogCut ==
  ASSUME LogTyped, CountsTyped, NEW p \in Processes, Cut(p), pending[p] \in Checkpoints
  PROVE  LogSteps /\ LogTyped' /\ CountsTyped'
<1> DEFINE n == pending[p].lines
<1>1. n \in Nat
  BY BoundsAssumption DEF Checkpoints
<1>2. log' = Prefix(log, n) /\ open' = FALSE /\ cuts' = Append(cuts, n) /\ counts' = counts
  BY DEF Cut
<1> HIDE DEF n
<1>3. LogSteps
  BY <1>1, <1>2 DEF LogSteps
<1>4. CountsTyped'
  BY <1>2 DEF CountsTyped
<1>5. /\ log' \in Seq(Seq(Fragments) \ {<<>>}) /\ open' \in BOOLEAN /\ (open' => log' # <<>>)
      /\ cuts' \in Seq(Nat) /\ Len(log') \in Nat
      /\ cuts' # cuts => Len(log') <= Len(log)
  BY <1>3, LogStays
<1>6. cuts' # cuts
  <2>1. cuts \in Seq(Nat)
    BY DEF LogTyped
  <2>2. Len(Append(cuts, n)) = Len(cuts) + 1 /\ Len(cuts) \in Nat
    BY <1>1, <2>1
  <2>3. Len(Append(cuts, n)) # Len(cuts)
    BY <2>2
  <2> QED
    BY <1>2, <2>3
<1>7. Len(log) \in Nat /\ Len(log) <= counts.messages /\ counts.messages \in Nat
  BY DEF LogTyped, CountsTyped
<1>8. Len(log') <= counts.messages
  BY <1>5, <1>6, <1>7
<1> QED
  BY <1>2, <1>3, <1>4, <1>5, <1>8 DEF LogTyped

(* The numbers that are given to messages, and what compaction keeps. *)
LEMMA NextTyped ==
  ASSUME CountsTyped, Room
  PROVE  NextMessage \in Messages
BY BoundsAssumption DEF CountsTyped, Room, NextMessage, Messages

LEMMA LineTyped ==
  ASSUME NEW id \in Messages, NEW keep \in Seq(Messages), NEW whole \in BOOLEAN
  PROVE  /\ Fragment("message", id, keep, whole) \in Fragments
         /\ Line("message", id, keep) \in Fragments
         /\ Line("boundary", id, keep) \in Fragments
BY DEF Fragment, Line, Fragments

LEMMA CompactKeeps ==
  ASSUME LogTyped, NEW kept \in 0..Len(Rebuilt(log)) - 1
  PROVE  SubSeq(Rebuilt(log), Len(Rebuilt(log)) - kept + 1, Len(Rebuilt(log))) \in Seq(Messages)
<1> DEFINE talk == Rebuilt(log)
           first == Len(talk) - kept + 1
           n == Len(talk)
<1>1. log \in Seq(Seq(Fragments) \ {<<>>})
  BY DEF LogTyped
<1>2. talk \in Seq(Messages)
  BY <1>1, RebuiltTyped
<1>3. kept \in 0..Len(talk) - 1
  OBVIOUS
<1> HIDE DEF talk
<1>4. n \in Nat /\ first \in Nat \ {0}
  BY <1>3, <1>2
<1>5. SubSeq(talk, first, n) \in Seq(Messages)
  <2> HIDE DEF first
  <2>1. \A i \in first..n : talk[i] \in Messages
    BY <1>2, <1>4
  <2> QED
    BY <1>2, <1>4
<1> QED
  BY <1>5 DEF talk

(* Every step does one of these. *)
LEMMA LogKept ==
  ASSUME LogTyped, CountsTyped, ProcessesTyped, [Next]_vars
  PROVE  LogSteps /\ LogTyped' /\ CountsTyped'
<1>1. CASE UNCHANGED vars
  BY <1>1, LogAlone DEF vars, OtherCounts
<1>2. ASSUME NEW p \in Processes,
             \/ Open(p) \/ Notified(p) \/ Count(p) \/ Interrupt(p) \/ Prune(p) \/ Discard(p)
             \/ ShowSnapshots(p) \/ Cancel(p)
             \/ \E i \in 1..MaxSnapshots : RewindConversation(p, i) \/ RewindCode(p, i)
             \/ \E f \in Files : Restore(p, f) \/ RestoreBaseline(p, f)
      PROVE  UNCHANGED <<log, open, cuts>> /\ OtherCounts
  <2>1. UNCHANGED <<log, open, cuts, counts>>
    <3>1. CASE Open(p) \/ Notified(p) \/ Count(p) \/ Interrupt(p) \/ ShowSnapshots(p) \/ Cancel(p)
      BY <3>1 DEF Open, Notified, Count, Interrupt, ShowSnapshots, Cancel
    <3>2. CASE Prune(p) \/ Discard(p)
      BY <3>2 DEF Prune, Discard
    <3>3. CASE \E i \in 1..MaxSnapshots : RewindConversation(p, i) \/ RewindCode(p, i)
      BY <3>3 DEF RewindConversation, RewindCode
    <3>4. CASE \E f \in Files : Restore(p, f) \/ RestoreBaseline(p, f)
      BY <3>4 DEF Restore, RestoreBaseline
    <3> QED
      BY <1>2, <3>1, <3>2, <3>3, <3>4
  <2> QED
    BY <2>1 DEF OtherCounts
<1>3. ASSUME NEW p \in Processes,
             \/ Copy(p) \/ Save(p) \/ Crash(p)
             \/ \E f \in Files : TrackEdit(p, f) \/ RestoreFails(p, f)
      PROVE  UNCHANGED <<log, open, cuts>> /\ OtherCounts
  <2>1. CASE Copy(p)
    BY <2>1 DEF Copy, OtherCounts
  <2>2. CASE Save(p)
    BY <2>2 DEF Save, OtherCounts
  <2>3. CASE Crash(p)
    BY <2>3 DEF Crash, OtherCounts
  <2>4. CASE \E f \in Files : TrackEdit(p, f) \/ RestoreFails(p, f)
    BY <2>4 DEF TrackEdit, RestoreFails, OtherCounts
  <2> QED
    BY <1>3, <2>1, <2>2, <2>3, <2>4
<1>4. ASSUME (\E p \in Processes : WriteFile(p)) \/ (\E f \in Files : Touch(f))
      PROVE  UNCHANGED <<log, open, cuts>> /\ OtherCounts
  BY <1>4 DEF WriteFile, Touch, OtherCounts
<1>5. ASSUME NEW p \in Processes, Prompt(p) \/ Message(p) \/ Compact(p) \/ Tear(p)
      PROVE  LogSteps /\ LogTyped' /\ CountsTyped'
  <2>1. Room /\ NextMessage \in Messages
    <3>1. Room
      BY <1>5 DEF Prompt, Message, Compact, Tear, Wrote
    <3> QED
      BY <3>1, NextTyped
  <2>2. <<>> \in Seq(Messages)
    OBVIOUS
  <2>3. CASE Prompt(p) \/ Message(p)
    <3>1. Wrote(Line("message", NextMessage, <<>>), TRUE)
          /\ counts' = [counts EXCEPT !.messages = @ + 1]
      BY <2>3 DEF Prompt, Message, Counted
    <3>2. Line("message", NextMessage, <<>>) \in Fragments
      BY <2>1, <2>2, LineTyped
    <3> QED
      BY <3>1, <3>2, LogWritten
  <2>4. CASE Compact(p)
    <3>1. PICK kept \in 0..Len(Rebuilt(log)) - 1 :
            Wrote(Line("boundary", NextMessage,
                       SubSeq(Rebuilt(log), Len(Rebuilt(log)) - kept + 1, Len(Rebuilt(log)))), TRUE)
      BY <2>4 DEF Compact
    <3> DEFINE tail == SubSeq(Rebuilt(log), Len(Rebuilt(log)) - kept + 1, Len(Rebuilt(log)))
    <3>2. tail \in Seq(Messages)
      BY CompactKeeps
    <3>3. Wrote(Line("boundary", NextMessage, tail), TRUE)
      BY <3>1
    <3> HIDE DEF tail
    <3>4. Line("boundary", NextMessage, tail) \in Fragments
      BY <2>1, <3>2, LineTyped
    <3>5. counts' = [counts EXCEPT !.messages = @ + 1]
      BY <2>4 DEF Compact, Counted
    <3> QED
      BY <3>3, <3>4, <3>5, LogWritten
  <2>5. CASE Tear(p)
    <3>1. PICK whole \in BOOLEAN : Wrote(Fragment("message", NextMessage, <<>>, whole), FALSE)
      BY <2>5 DEF Tear
    <3>2. counts' = [counts EXCEPT !.messages = @ + 1, !.faults = @ + 1]
      BY <2>5 DEF Tear
    <3>3. Fragment("message", NextMessage, <<>>, whole) \in Fragments
      BY <2>1, <2>2, LineTyped
    <3> QED
      BY <3>1, <3>2, <3>3, LogWritten
  <2> QED
    BY <1>5, <2>3, <2>4, <2>5
<1>6. ASSUME NEW p \in Processes, Cut(p)
      PROVE  LogSteps /\ LogTyped' /\ CountsTyped'
  <2>1. pc[p] = "cutting"
    BY <1>6 DEF Cut, Goes
  <2>2. pending[p] \in Checkpoints
    BY <2>1 DEF ProcessesTyped, Marks, MarksIn
  <2> QED
    BY <1>6, <2>2, LogCut
<1>7. CASE UNCHANGED <<log, open, cuts>> /\ OtherCounts
  BY <1>7, LogAlone
<1>8. CASE \E p \in Processes :
        \/ Open(p) \/ Prompt(p) \/ Notified(p) \/ Message(p) \/ Compact(p) \/ Tear(p)
        \/ Count(p) \/ Interrupt(p) \/ Copy(p) \/ Prune(p)
        \/ WriteFile(p) \/ Save(p)
        \/ ShowSnapshots(p) \/ Cancel(p) \/ Discard(p) \/ Cut(p) \/ Crash(p)
        \/ \E i \in 1..MaxSnapshots : RewindConversation(p, i) \/ RewindCode(p, i)
        \/ \E f \in Files : \/ TrackEdit(p, f) \/ Restore(p, f) \/ RestoreBaseline(p, f)
                            \/ RestoreFails(p, f)
  BY <1>2, <1>3, <1>4, <1>5, <1>6, <1>7, <1>8
<1> QED
  BY <1>1, <1>4, <1>7, <1>8 DEF Next

(* ---------------------------- files and backups ------------------------- *)

(* A store of contents of files that exist. *)
IsStore(backups) ==
  /\ DOMAIN backups \subseteq Names
  /\ \A name \in DOMAIN backups : backups[name] \in Contents \ {Absent}

LEMMA FewerStored ==
  ASSUME NEW backups, IsStore(backups), NEW names
  PROVE  IsStore(Left(backups, names))
BY DEF IsStore, Left

LEMMA MoreStored ==
  ASSUME NEW backups, IsStore(backups), NEW more, IsStore(more)
  PROVE  IsStore(Over(more, backups))
BY DEF IsStore, Over

LEMMA NextContentTyped ==
  ASSUME CountsTyped, Room
  PROVE  NextContent \in Contents
BY BoundsAssumption DEF CountsTyped, Room, NextContent, Contents

LEMMA FilesKept ==
  ASSUME HistoryInv, OperationInv, CountsTyped, FilesTyped, HistoriesTyped, [Next]_vars
  PROVE  FilesTyped'
<1>1. IsStore(store) /\ disk \in [Files -> Contents] /\ wild \in [Files -> Contents]
  BY DEF FilesTyped, IsStore
<1>2. SUFFICES IsStore(store') /\ disk' \in [Files -> Contents] /\ wild' \in [Files -> Contents]
  BY DEF FilesTyped, IsStore
<1>3. CASE UNCHANGED <<disk, wild, store>>
  BY <1>1, <1>3
<1>4. ASSUME NEW p \in Processes,
             \/ Open(p) \/ Prompt(p) \/ Notified(p) \/ Message(p) \/ Compact(p) \/ Tear(p)
             \/ Count(p) \/ Interrupt(p) \/ Save(p) \/ ShowSnapshots(p) \/ Cancel(p)
             \/ Cut(p) \/ Crash(p)
             \/ \E i \in 1..MaxSnapshots : RewindConversation(p, i) \/ RewindCode(p, i)
             \/ \E f \in Files : RestoreFails(p, f)
      PROVE  UNCHANGED <<disk, wild, store>>
  <2>1. CASE Open(p) \/ Notified(p) \/ Count(p) \/ Interrupt(p) \/ ShowSnapshots(p) \/ Cancel(p)
    BY <2>1 DEF Open, Notified, Count, Interrupt, ShowSnapshots, Cancel
  <2>2. CASE Prompt(p) \/ Message(p) \/ Compact(p) \/ Tear(p)
    BY <2>2 DEF Prompt, Message, Compact, Tear, Wrote
  <2>3. CASE Save(p) \/ Cut(p) \/ Crash(p)
    BY <2>3 DEF Save, Cut, Crash
  <2>4. CASE \E i \in 1..MaxSnapshots : RewindConversation(p, i) \/ RewindCode(p, i)
    BY <2>4 DEF RewindConversation, RewindCode
  <2>5. CASE \E f \in Files : RestoreFails(p, f)
    BY <2>5 DEF RestoreFails
  <2> QED
    BY <1>4, <2>1, <2>2, <2>3, <2>4, <2>5
<1>5. ASSUME NEW p \in Processes, Copy(p)
      PROVE  IsStore(store') /\ UNCHANGED <<disk, wild>>
  <2>1. DOMAIN saved = Fields
    BY DEF HistoryInv
  <2>2. UNCHANGED <<disk, wild>>
    BY <1>5, <2>1, CopyShape
  <2>3. PICK new, more :
          /\ IsNew(p, new)
          /\ DOMAIN more = {BackupName(f, new.no) : f \in Existing(new)}
          /\ \A f \in Existing(new) : more[BackupName(f, new.no)] = disk[f]
          /\ store' = Over(more, store)
    BY <1>5, <2>1, CopyShape
  <2>4. new.no \in 0..MaxTaken
    <3>1. Loaded.next = saved.next /\ saved.next \in Nat \ {0} /\ saved.next <= MaxTaken
      BY <1>5, <2>1, LoadedSnapshots DEF Copy, HistoryInv, Numbered
    <3> QED
      BY <2>3, <3>1, BoundsAssumption DEF IsNew
  <2>5. \A f \in Existing(new) : f \in Files /\ disk[f] \in Contents \ {Absent}
    <3>1. Loaded.tracked \subseteq Files
      BY <2>1 DEF HistoriesTyped, IsHistory, Loaded, IsList, IsSnapshot
    <3>2. \A f \in Existing(new) : f \in Loaded.tracked /\ disk[f] # Absent
      BY <2>3 DEF IsNew, Existing
    <3> QED
      BY <1>1, <3>1, <3>2
  <2>6. IsStore(more)
    <3>1. \A name \in DOMAIN more : \E f \in Existing(new) : name = <<f, new.no>>
      BY <2>3 DEF BackupName
    <3>2. ASSUME NEW name \in DOMAIN more
          PROVE  name \in Names /\ more[name] \in Contents \ {Absent}
      <4>1. PICK f \in Existing(new) : name = <<f, new.no>>
        BY <3>1
      <4>2. more[name] = disk[f]
        BY <2>3, <4>1 DEF BackupName
      <4> QED
        BY <2>4, <2>5, <4>1, <4>2 DEF Names
    <3> QED
      BY <3>2 DEF IsStore
  <2>7. IsStore(Over(more, store))
    BY <1>1, <2>6, MoreStored
  <2> QED
    BY <2>2, <2>3, <2>7
<1>6. ASSUME NEW p \in Processes, NEW f \in Files, TrackEdit(p, f)
      PROVE  IsStore(store') /\ UNCHANGED <<disk, wild>>
  <2> DEFINE more == [name \in {BaselineName(f)} |-> disk[f]]
  <2>1. /\ UNCHANGED <<disk, wild>>
        /\ store' = store \/ (disk[f] # Absent /\ store' = Over(more, store))
    BY <1>6, TrackShape DEF HistoryInv
  <2>2. disk[f] # Absent => IsStore(more)
    BY <1>1, BoundsAssumption DEF IsStore, Names, BaselineName
  <2> HIDE DEF more
  <2>3. disk[f] # Absent => IsStore(Over(more, store))
    BY <1>1, <2>2, MoreStored
  <2> QED
    BY <1>1, <2>1, <2>3
<1>7. ASSUME NEW p \in Processes, Prune(p)
      PROVE  IsStore(store') /\ UNCHANGED <<disk, wild>>
  <2>1. /\ UNCHANGED <<disk, wild>>
        /\ \E surplus \in 0..Len(op.work.snapshots) : \E old : store' = Left(store, BackupsOf(old))
    BY <1>7, PruneShape
  <2> QED
    BY <1>1, <2>1, FewerStored
<1>8. ASSUME NEW p \in Processes, Discard(p)
      PROVE  IsStore(store') /\ UNCHANGED <<disk, wild>>
  <2>1. UNCHANGED <<disk, wild>> /\ \E later : store' = Left(store, BackupsOf(later))
    BY <1>8, DiscardShape
  <2> QED
    BY <1>1, <2>1, FewerStored
<1>9. ASSUME NEW p \in Processes, NEW f \in Files, Restore(p, f)
      PROVE  disk' \in [Files -> Contents] /\ UNCHANGED <<store, wild>>
  <2>1. disk' = [disk EXCEPT ![f] = Restored(f)] /\ UNCHANGED <<store, wild>>
    BY <1>9 DEF Restore
  <2>2. Restored(f) \in Contents
    BY <1>1, BoundsAssumption DEF Restored, IsStore, Contents, Absent
  <2> QED
    BY <1>1, <2>1, <2>2
<1>10. ASSUME NEW p \in Processes, NEW f \in Files, RestoreBaseline(p, f)
       PROVE  IsStore(store') /\ disk' \in [Files -> Contents] /\ wild' = wild
  <2>1. /\ wild' = wild
        /\ \/ /\ Resolvable(f)
              /\ disk' = [disk EXCEPT ![f] = IF op.work.baselines[f] = "absent" THEN Absent
                                             ELSE store[BaselineName(f)]]
              /\ store' = IF op.work.baselines[f] = "absent" THEN store
                          ELSE Left(store, {BaselineName(f)})
           \/ UNCHANGED <<disk, store>>
    BY <1>10, RestoreBaselineShape
  <2>2. IsStore(Left(store, {BaselineName(f)}))
    BY <1>1, FewerStored
  <2>3. Absent \in Contents
    BY BoundsAssumption DEF Contents, Absent
  <2>4. CASE Resolvable(f)
    <3> DEFINE content == IF op.work.baselines[f] = "absent" THEN Absent
                          ELSE store[BaselineName(f)]
    <3>1. content \in Contents
      BY <1>1, <2>3, <2>4 DEF Resolvable, IsStore
    <3>2. disk' = [disk EXCEPT ![f] = content] \/ disk' = disk
      BY <2>1
    <3> HIDE DEF content
    <3>3. disk' \in [Files -> Contents]
      BY <1>1, <3>1, <3>2
    <3> QED
      BY <1>1, <2>1, <2>2, <3>3
  <2>5. CASE ~Resolvable(f)
    BY <1>1, <2>1, <2>5
  <2> QED
    BY <2>4, <2>5
<1>11. ASSUME NEW p \in Processes, WriteFile(p)
       PROVE  disk' \in [Files -> Contents] /\ wild' \in [Files -> Contents] /\ store' = store
  <2>1. CASE UNCHANGED <<disk, wild>>
    BY <1>1, <1>11, <2>1 DEF WriteFile
  <2>2. CASE /\ Room /\ disk' = [disk EXCEPT ![pc[p]] = NextContent]
             /\ wild' = IF pc[p] \in saved.tracked /\ op.kind # "rewind" THEN wild
                        ELSE [wild EXCEPT ![pc[p]] = NextContent]
    <3>1. NextContent \in Contents
      BY <2>2, NextContentTyped
    <3> QED
      BY <1>1, <1>11, <2>2, <3>1 DEF WriteFile
  <2> QED
    BY <1>11, <2>1, <2>2 DEF WriteFile
<1>12. ASSUME NEW f \in Files, Touch(f)
       PROVE  disk' \in [Files -> Contents] /\ wild' \in [Files -> Contents] /\ store' = store
  <2>1. NextContent \in Contents /\ Absent \in Contents
    BY <1>12, NextContentTyped, BoundsAssumption DEF Touch, Contents, Absent
  <2> QED
    BY <1>1, <1>12, <2>1 DEF Touch
<1>13. CASE UNCHANGED vars
  BY <1>1, <1>13 DEF vars
<1>14. CASE \E p \in Processes :
        \/ Open(p) \/ Prompt(p) \/ Notified(p) \/ Message(p) \/ Compact(p) \/ Tear(p)
        \/ Count(p) \/ Interrupt(p) \/ Copy(p) \/ Prune(p)
        \/ WriteFile(p) \/ Save(p)
        \/ ShowSnapshots(p) \/ Cancel(p) \/ Discard(p) \/ Cut(p) \/ Crash(p)
        \/ \E i \in 1..MaxSnapshots : RewindConversation(p, i) \/ RewindCode(p, i)
        \/ \E f \in Files : \/ TrackEdit(p, f) \/ Restore(p, f) \/ RestoreBaseline(p, f)
                            \/ RestoreFails(p, f)
  BY <1>1, <1>3, <1>4, <1>5, <1>6, <1>7, <1>8, <1>9, <1>10, <1>11, <1>14
<1> QED
  BY <1>1, <1>12, <1>13, <1>14 DEF Next

(* --------------------- the histories and their marks -------------------- *)

(* What every checkpoint keeps from one step to the next. *)
MarksKept == \A at : MarksIn(log, open, cuts, at) => MarksIn(log', open', cuts', at)

LEMMA AllMarksStay ==
  ASSUME LogTyped, LogSteps
  PROVE  MarksKept
<1> SUFFICES ASSUME NEW at, MarksIn(log, open, cuts, at)
             PROVE  MarksIn(log', open', cuts', at)
  BY DEF MarksKept
<1> QED
  BY MarksStay

(* What is loaded is as well typed as what is on disk. *)
LEMMA LoadedTyped ==
  ASSUME DOMAIN saved = Fields, Numbered(saved), IsHistory(saved)
  PROVE  IsHistory(Loaded) /\ Loaded.snapshots = saved.snapshots
<1>1. /\ Loaded.snapshots = saved.snapshots /\ Loaded.next = saved.next
      /\ Loaded.baselines = saved.baselines
  BY LoadedSnapshots
<1>2. Loaded.tracked \subseteq Files
  <2>1. CASE saved.tracked = {} /\ saved.snapshots # <<>>
    <3> DEFINE k == Len(saved.snapshots)
    <3>1. Loaded.tracked = DOMAIN saved.snapshots[k].backups
      BY <2>1 DEF Loaded, Fields
    <3>2. IsList(saved.snapshots)
      BY DEF IsHistory
    <3>3. k \in DOMAIN saved.snapshots
      BY <2>1 DEF Numbered, IsSequence
    <3> QED
      BY <3>1, <3>2, <3>3 DEF IsList, IsSnapshot
  <2>2. CASE ~(saved.tracked = {} /\ saved.snapshots # <<>>)
    BY <2>2 DEF Loaded, IsHistory
  <2> QED
    BY <2>1, <2>2
<1> QED
  BY <1>1, <1>2 DEF IsHistory

(* A part of a list of snapshots. *)
LEMMA PartTyped ==
  ASSUME NEW list, IsSequence(list), NEW m \in Nat \ {0}, NEW n \in 0..Len(list),
         NEW part, IsPart(part, list, m, n), IsList(list),
         NEW lines, NEW torn, NEW lengths, MarkedIn(list, lines, torn, lengths)
  PROVE  /\ IsList(part) /\ MarkedIn(part, lines, torn, lengths)
         /\ Len(part) \in Nat /\ Len(part) <= Len(list)
<1>1. Len(list) \in Nat /\ DOMAIN list = 1..Len(list)
  BY SequenceShape
<1>2. Len(part) \in Nat /\ DOMAIN part = 1..Len(part)
  BY SequenceShape DEF IsPart
<1>3. \A i \in DOMAIN part : i + m - 1 \in DOMAIN list /\ part[i] = list[i + m - 1]
  BY <1>1, <1>2 DEF IsPart
<1>4. IsList(part)
  BY <1>2, <1>3 DEF IsList
<1>5. MarkedIn(part, lines, torn, lengths)
  BY <1>3 DEF MarkedIn
<1>6. Len(part) = 0 \/ Len(part) \in DOMAIN part
  BY <1>2
<1>7. Len(part) = 0 \/ Len(part) + m - 1 \in 1..Len(list)
  BY <1>1, <1>3, <1>6
<1>8. Len(part) <= Len(list)
  BY <1>1, <1>2, <1>7
<1> QED
  BY <1>2, <1>4, <1>5, <1>8

LEMMA NothingTyped ==
  ASSUME NEW lines, NEW torn, NEW lengths
  PROVE  WorkTyped(Unlocked, lines, torn, lengths) /\ Unlocked.kind = "none"
         /\ IsList(<<>>) /\ MarkedIn(<<>>, lines, torn, lengths)
<1>1. DOMAIN <<>> = {} /\ Len(<<>>) = 0 /\ 1..0 = {}
  OBVIOUS
<1>2. IsList(<<>>) /\ MarkedIn(<<>>, lines, torn, lengths)
  BY <1>1 DEF IsList, MarkedIn
<1>3. /\ Unlocked.work = NoHistory /\ Unlocked.by = None /\ Unlocked.left = {}
      /\ Unlocked.kind = "none"
      /\ NoHistory.snapshots = <<>> /\ NoHistory.tracked = {} /\ NoHistory.baselines = <<>>
      /\ NoHistory.next = 1
  BY DEF Unlocked, NoHistory
<1>4. IsHistory(NoHistory)
  BY <1>1, <1>2, <1>3, BoundsAssumption DEF IsHistory
<1>5. Len(<<>>) <= MaxSnapshots
  BY <1>1, BoundsAssumption
<1> QED
  BY <1>2, <1>3, <1>4, <1>5 DEF WorkTyped

(* What the operations work on when it begins, goes on and is saved. *)
WorkKept == WorkTyped(op', log', open', cuts')

LEMMA WorkCopied ==
  ASSUME HistoryInv, CountsTyped, FilesTyped, HistoriesTyped, ProcessesTyped, MarksKept,
         NEW p \in Processes, Copy(p)
  PROVE  WorkKept
<1>1. DOMAIN saved = Fields
  BY DEF HistoryInv
<1>2. /\ OperationIs("snapshot", "prune") /\ op'.by = p /\ op'.left = {}
      /\ op'.work.next = Loaded.next + 1
      /\ op'.work.tracked = Loaded.tracked /\ op'.work.baselines = Loaded.baselines
  BY <1>1, CopyShape
<1>3. PICK new : IsNew(p, new) /\ op'.work.snapshots = Append(Loaded.snapshots, new)
  <2>1. \E new, more : IsNew(p, new) /\ op'.work.snapshots = Append(Loaded.snapshots, new)
    BY <1>1, CopyShape
  <2> QED
    BY <2>1
<1> DEFINE list == Append(Loaded.snapshots, new)
<1>4. IsHistory(Loaded) /\ Loaded.snapshots = saved.snapshots /\ Loaded.next = saved.next
  BY <1>1, LoadedTyped, LoadedSnapshots DEF HistoriesTyped, HistoryInv
<1>5. IsSequence(Loaded.snapshots) /\ Loaded.next \in 1..MaxTaken
  BY <1>4, BoundsAssumption DEF HistoryInv, Numbered, Copy, IsHistory
<1>6. /\ IsSequence(list) /\ Len(list) = Len(Loaded.snapshots) + 1
      /\ \A i \in 1..Len(Loaded.snapshots) : list[i] = Loaded.snapshots[i]
      /\ list[Len(Loaded.snapshots) + 1] = new
  BY <1>5, Appending
<1>7. /\ DOMAIN Loaded.snapshots = 1..Len(Loaded.snapshots) /\ Len(Loaded.snapshots) \in Nat
      /\ DOMAIN list = 1..Len(list)
  BY <1>5, <1>6, SequenceShape
<1> HIDE DEF list
<1>8. \A i \in DOMAIN list : \/ i \in DOMAIN Loaded.snapshots /\ list[i] = Loaded.snapshots[i]
                             \/ list[i] = new
  BY <1>6, <1>7
<1>9. MarksIn(log, open, cuts, new.at)
  <2>1. pc[p] \in {"counted", "ending"}
    BY DEF Copy
  <2> QED
    BY <1>3, <2>1 DEF IsNew, ProcessesTyped, Marks
<1>10. IsSnapshot(new)
  <2>1. new.no \in 1..MaxTaken
    BY <1>3, <1>5 DEF IsNew
  <2>2. /\ DOMAIN new.backups \subseteq Files
        /\ \A f \in DOMAIN new.backups : new.backups[f] \in BackupStates
    BY <1>3, <1>4 DEF IsNew, IsHistory, BackupStates
  <2>3. new.at \in Checkpoints
    BY <1>9 DEF MarksIn
  <2>4. new.was \in [Files -> Contents]
    BY <1>3 DEF IsNew, FilesTyped
  <2>5. new.edits \in Contents
    BY <1>3, BoundsAssumption DEF IsNew, CountsTyped, Contents
  <2> QED
    BY <2>1, <2>2, <2>3, <2>4, <2>5 DEF IsSnapshot
<1>11. IsList(list)
  BY <1>4, <1>7, <1>8, <1>10 DEF IsList, IsHistory
<1>12. \A i \in DOMAIN list : MarksIn(log, open, cuts, list[i].at)
  BY <1>4, <1>8, <1>9 DEF HistoriesTyped, Marked, MarkedIn
<1>13. MarkedIn(list, log', open', cuts')
  BY <1>12 DEF MarkedIn, MarksKept
<1>14. IsHistory(op'.work)
  <2>1. Loaded.next + 1 \in 1..MaxTaken + 1
    BY <1>5, BoundsAssumption
  <2> QED
    BY <1>2, <1>3, <1>4, <1>11, <2>1 DEF IsHistory, list
<1> QED
  BY <1>2, <1>3, <1>13, <1>14 DEF WorkKept, WorkTyped, OperationIs, list

LEMMA WorkTracked ==
  ASSUME HistoryInv, HistoriesTyped, MarksKept, NEW p \in Processes, NEW f \in Files, TrackEdit(p, f)
  PROVE  WorkKept
<1>1. DOMAIN saved = Fields
  BY DEF HistoryInv
<1>2. /\ OperationIs("track", "save") /\ op'.by = p /\ op'.left = {} /\ op'.subject = f
      /\ op'.work.snapshots = Loaded.snapshots /\ op'.work.next = Loaded.next
      /\ \/ op'.work.tracked = Loaded.tracked /\ op'.work.baselines = Loaded.baselines
         \/ /\ op'.work.tracked = Loaded.tracked \cup {f}
            /\ \E state \in BackupStates :
                 op'.work.baselines = Over([g \in {f} |-> state], Loaded.baselines)
  BY <1>1, TrackShape
<1>3. IsHistory(Loaded) /\ Loaded.snapshots = saved.snapshots
  BY <1>1, LoadedTyped DEF HistoriesTyped, HistoryInv
<1>4. /\ op'.work.tracked \subseteq Files /\ DOMAIN op'.work.baselines \subseteq Files
      /\ \A g \in DOMAIN op'.work.baselines : op'.work.baselines[g] \in BackupStates
  BY <1>2, <1>3 DEF IsHistory, Over
<1>5. IsHistory(op'.work)
  BY <1>2, <1>3, <1>4 DEF IsHistory
<1>6. MarkedIn(op'.work.snapshots, log', open', cuts')
  BY <1>2, <1>3 DEF HistoriesTyped, Marked, MarkedIn, MarksKept
<1> QED
  BY <1>2, <1>3, <1>5, <1>6 DEF WorkKept, WorkTyped, HistoriesTyped

LEMMA WorkLoaded ==
  ASSUME HistoryInv, HistoriesTyped, MarksKept, NEW p \in Processes, NEW i, RewindCode(p, i)
  PROVE  WorkKept
<1>1. DOMAIN saved = Fields
  BY DEF HistoryInv
<1>2. IsHistory(Loaded) /\ Loaded.snapshots = saved.snapshots
  BY <1>1, LoadedTyped DEF HistoriesTyped, HistoryInv
<1>3. /\ op'.by = p /\ op'.kind = "rewind" /\ op'.step = "restore" /\ op'.work = Loaded
      /\ op'.left = Loaded.tracked \cup DOMAIN Loaded.snapshots[i].backups
      /\ i \in DOMAIN Loaded.snapshots
  BY DEF RewindCode, Locked
<1>4. op'.left \subseteq Files
  BY <1>2, <1>3 DEF IsHistory, IsList, IsSnapshot
<1>5. MarkedIn(op'.work.snapshots, log', open', cuts')
  BY <1>2, <1>3 DEF HistoriesTyped, Marked, MarkedIn, MarksKept
<1> QED
  BY <1>2, <1>3, <1>4, <1>5 DEF WorkKept, WorkTyped, HistoriesTyped

(* What the operation has loaded, seen from the next state. *)
LEMMA WorkMarked ==
  ASSUME HistoryInv, HistoriesTyped, MarksKept
  PROVE  /\ IsHistory(op.work) /\ MarkedIn(op.work.snapshots, log', open', cuts')
         /\ IsSequence(op.work.snapshots)
BY DEF HistoriesTyped, WorkTyped, MarkedIn, MarksKept, HistoryInv, Numbered

LEMMA WorkPruned ==
  ASSUME HistoryInv, OperationInv, HistoriesTyped, MarksKept, NEW p \in Processes, Prune(p)
  PROVE  WorkKept
<1> DEFINE h == op.work
           g == op'.work
           n == Len(h.snapshots)
<1>1. /\ OperationIs("snapshot", "save") /\ op'.by = op.by /\ op'.left = op.left
      /\ Len(g.snapshots) <= MaxSnapshots
      /\ g.next = h.next /\ g.tracked = h.tracked /\ g.baselines = h.baselines
      /\ \E surplus \in 0..Len(h.snapshots) :
           IsPart(g.snapshots, h.snapshots, surplus + 1, Len(h.snapshots))
  BY PruneShape
<1>2. /\ IsHistory(h) /\ MarkedIn(h.snapshots, log', open', cuts') /\ IsSequence(h.snapshots)
      /\ IsList(h.snapshots)
  BY WorkMarked DEF IsHistory
<1>3. PICK surplus \in 0..Len(h.snapshots) : IsPart(g.snapshots, h.snapshots, surplus + 1, n)
  BY <1>1
<1> DEFINE m == surplus + 1
           lines == log'
           torn == open'
           lengths == cuts'
<1>4. m \in Nat \ {0} /\ n \in 0..Len(h.snapshots)
  BY <1>2, SequenceShape
<1>5. IsPart(g.snapshots, h.snapshots, m, n) /\ MarkedIn(h.snapshots, lines, torn, lengths)
  BY <1>2, <1>3
<1> HIDE DEF h, g, n, m, lines, torn, lengths
<1>6. IsList(g.snapshots) /\ MarkedIn(g.snapshots, lines, torn, lengths)
  BY <1>2, <1>4, <1>5, PartTyped
<1>7. IsHistory(g)
  BY <1>1, <1>2, <1>6 DEF IsHistory
<1> QED
  BY <1>1, <1>6, <1>7 DEF WorkKept, WorkTyped, HistoriesTyped, OperationIs, g, lines, torn, lengths

LEMMA WorkDiscarded ==
  ASSUME HistoryInv, OperationInv, HistoriesTyped, MarksKept, NEW p \in Processes, Discard(p)
  PROVE  WorkKept
<1> DEFINE h == op.work
           g == op'.work
           n == op.subject
<1>1. /\ op.kind = "rewind" /\ op'.left = op.left
      /\ OperationIs("rewind", "save") /\ op'.subject = op.subject /\ op'.by = op.by
      /\ g.next = h.next /\ g.baselines = h.baselines
      /\ g.tracked = h.tracked \cup DOMAIN Target.backups
      /\ n \in 1..Len(h.snapshots)
      /\ IsPart(g.snapshots, h.snapshots, 1, n)
  BY DiscardShape
<1>2. /\ IsHistory(h) /\ MarkedIn(h.snapshots, log', open', cuts') /\ IsSequence(h.snapshots)
      /\ IsList(h.snapshots)
  BY WorkMarked DEF IsHistory
<1>3. op.step = "restore"
  BY DEF Discard
<1>4. /\ DOMAIN h.snapshots = 1..Len(h.snapshots) /\ Len(h.snapshots) \in Nat
      /\ Len(h.snapshots) <= MaxSnapshots
  BY <1>2, <1>3, SequenceShape DEF HistoriesTyped, WorkTyped
<1>5. DOMAIN Target.backups \subseteq Files
  <2>1. Target = h.snapshots[n] /\ n \in DOMAIN h.snapshots
    BY <1>1, <1>4 DEF Target
  <2> QED
    BY <1>2, <2>1 DEF IsList, IsSnapshot
<1> DEFINE m == 1
           lines == log'
           torn == open'
           lengths == cuts'
<1>6. m \in Nat \ {0} /\ n \in 0..Len(h.snapshots)
  BY <1>1, <1>4
<1>7. IsPart(g.snapshots, h.snapshots, m, n) /\ MarkedIn(h.snapshots, lines, torn, lengths)
  BY <1>1, <1>2
<1> HIDE DEF h, g, n, m, lines, torn, lengths
<1>8. /\ IsList(g.snapshots) /\ MarkedIn(g.snapshots, lines, torn, lengths)
      /\ Len(g.snapshots) \in Nat /\ Len(g.snapshots) <= Len(h.snapshots)
  BY <1>2, <1>6, <1>7, PartTyped
<1>9. Len(g.snapshots) <= MaxSnapshots
  BY <1>4, <1>8, BoundsAssumption
<1>10. IsHistory(g)
  BY <1>1, <1>2, <1>5, <1>8 DEF IsHistory
<1> QED
  BY <1>1, <1>8, <1>9, <1>10 DEF WorkKept, WorkTyped, HistoriesTyped, OperationIs, g, lines, torn, lengths

LEMMA WorkRestored ==
  ASSUME HistoryInv, OperationInv, HistoriesTyped, MarksKept, NEW p \in Processes, NEW f \in Files,
         Restore(p, f) \/ RestoreBaseline(p, f) \/ RestoreFails(p, f)
  PROVE  WorkKept
<1>1. /\ op'.by = op.by /\ op'.left = op.left \ {f} /\ op'.kind = op.kind /\ op'.kind = "rewind"
      /\ op.step = "restore" /\ op'.step = op.step
      /\ op'.work.snapshots = op.work.snapshots /\ op'.work.next = op.work.next
      /\ \/ op'.work.tracked = op.work.tracked /\ op'.work.baselines = op.work.baselines
         \/ /\ op'.work.tracked = op.work.tracked \ {f}
            /\ op'.work.baselines = On(op.work.baselines, Files \ {f})
  <2>1. CASE Restore(p, f) \/ RestoreFails(p, f)
    <3>1. op.step = "restore" /\ op' = [op EXCEPT !.left = @ \ {f}]
      BY <2>1 DEF Restore, RestoreFails
    <3> QED
      BY <3>1 DEF OperationInv
  <2>2. CASE RestoreBaseline(p, f)
    <3>1. op.step = "restore" /\ op.kind = "rewind"
      BY <2>2 DEF RestoreBaseline, OperationInv
    <3> QED
      BY <2>2, <3>1, RestoreBaselineShape DEF OperationIs
  <2> QED
    BY <2>1, <2>2
<1>2. IsHistory(op.work) /\ MarkedIn(op.work.snapshots, log', open', cuts')
  BY WorkMarked
<1>3. IsHistory(op'.work)
  BY <1>1, <1>2 DEF IsHistory, On
<1> QED
  BY <1>1, <1>2, <1>3 DEF WorkKept, WorkTyped, HistoriesTyped

LEMMA WorkStays ==
  ASSUME HistoriesTyped, MarksKept, op' = op \/ op' = Unlocked
  PROVE  WorkKept
<1>1. CASE op' = op
  BY <1>1 DEF WorkKept, WorkTyped, HistoriesTyped, MarkedIn, MarksKept
<1>2. CASE op' = Unlocked
  <2> DEFINE lines == log'
             torn == open'
             lengths == cuts'
  <2> HIDE DEF lines, torn, lengths
  <2>1. WorkTyped(Unlocked, lines, torn, lengths)
    BY NothingTyped
  <2> QED
    BY <1>2, <2>1 DEF WorkKept, lines, torn, lengths
<1> QED
  BY <1>1, <1>2

(* Every step leaves a history that was there, or that was being saved. *)
LEMMA WorkStepped ==
  ASSUME HistoryInv, OperationInv, CountsTyped, FilesTyped, HistoriesTyped, ProcessesTyped,
         MarksKept, [Next]_vars
  PROVE  /\ WorkKept
         /\ saved' = saved \/ (saved' = op.work /\ op.step = "save")
<1>1. ASSUME op' = op \/ op' = Unlocked, saved' = saved \/ (saved' = op.work /\ op.step = "save")
      PROVE  WorkKept /\ (saved' = saved \/ (saved' = op.work /\ op.step = "save"))
  BY <1>1, WorkStays
<1>2. CASE UNCHANGED vars
  BY <1>1, <1>2 DEF vars
<1>3. ASSUME NEW p \in Processes,
             \/ Open(p) \/ Prompt(p) \/ Notified(p) \/ Message(p) \/ Compact(p) \/ Tear(p)
             \/ Count(p) \/ Interrupt(p) \/ WriteFile(p) \/ ShowSnapshots(p) \/ Cancel(p) \/ Cut(p)
             \/ \E i \in 1..MaxSnapshots : RewindConversation(p, i)
      PROVE  op' = op /\ saved' = saved
  BY <1>3, QuietSteps
<1>4. ASSUME NEW p \in Processes, Save(p) \/ Crash(p)
      PROVE  /\ op' = op \/ op' = Unlocked
             /\ saved' = saved \/ (saved' = op.work /\ op.step = "save")
  BY <1>4 DEF Save, Crash
<1>5. ASSUME NEW f \in Files, Touch(f)
      PROVE  op' = op /\ saved' = saved
  BY <1>5 DEF Touch
<1>6. ASSUME NEW p \in Processes, Copy(p)
      PROVE  WorkKept /\ saved' = saved
  BY <1>6, WorkCopied DEF Copy
<1>7. ASSUME NEW p \in Processes, NEW f \in Files, TrackEdit(p, f)
      PROVE  WorkKept /\ saved' = saved
  BY <1>7, WorkTracked DEF TrackEdit
<1>8. ASSUME NEW p \in Processes, NEW i \in 1..MaxSnapshots, RewindCode(p, i)
      PROVE  WorkKept /\ saved' = saved
  BY <1>8, WorkLoaded DEF RewindCode
<1>9. ASSUME NEW p \in Processes, Prune(p)
      PROVE  WorkKept /\ saved' = saved
  BY <1>9, WorkPruned DEF Prune
<1>10. ASSUME NEW p \in Processes, Discard(p)
       PROVE  WorkKept /\ saved' = saved
  BY <1>10, WorkDiscarded DEF Discard
<1>11. ASSUME NEW p \in Processes, NEW f \in Files,
              Restore(p, f) \/ RestoreBaseline(p, f) \/ RestoreFails(p, f)
       PROVE  WorkKept /\ saved' = saved
  BY <1>11, WorkRestored DEF Restore, RestoreBaseline, RestoreFails
<1>12. CASE \E p \in Processes :
        \/ Open(p) \/ Prompt(p) \/ Notified(p) \/ Message(p) \/ Compact(p) \/ Tear(p)
        \/ Count(p) \/ Interrupt(p) \/ Copy(p) \/ Prune(p)
        \/ WriteFile(p) \/ Save(p)
        \/ ShowSnapshots(p) \/ Cancel(p) \/ Discard(p) \/ Cut(p) \/ Crash(p)
        \/ \E i \in 1..MaxSnapshots : RewindConversation(p, i) \/ RewindCode(p, i)
        \/ \E f \in Files : \/ TrackEdit(p, f) \/ Restore(p, f) \/ RestoreBaseline(p, f)
                            \/ RestoreFails(p, f)
  BY <1>1, <1>3, <1>4, <1>6, <1>7, <1>8, <1>9, <1>10, <1>11, <1>12
<1> QED
  BY <1>1, <1>2, <1>5, <1>12 DEF Next

(* -------------------------- what processes do --------------------------- *)

(* The checkpoint a process needs next, and the list it looks at. *)
Awaiting == {"counted", "ending", "cutting"} \cup Choosing
Ready(step, at, list, lines, torn, lengths) ==
  /\ step \in Files \cup Steps
  /\ step \in Awaiting => MarksIn(lines, torn, lengths, at)
  /\ IsList(list) /\ MarkedIn(list, lines, torn, lengths)
ReadyNext(p) == Ready(pc'[p], pending'[p], shown'[p], log', open', cuts')

LEMMA ReadyNow ==
  ASSUME ProcessesTyped, NEW p \in Processes
  PROVE  Ready(pc[p], pending[p], shown[p], log, open, cuts)
BY DEF ProcessesTyped, Ready, Awaiting, Marks, Marked

(* A process that another one leaves alone. *)
LEMMA ReadyStays ==
  ASSUME ProcessesTyped, MarksKept, NEW p \in Processes,
         shown'[p] = shown[p] \/ shown'[p] = <<>>,
         pc'[p] \in Awaiting => (pc[p] \in Awaiting /\ pending'[p] = pending[p]),
         pc'[p] \in Files \cup Steps
  PROVE  ReadyNext(p)
<1>1. Ready(pc[p], pending[p], shown[p], log, open, cuts)
  BY ReadyNow
<1>2. pc'[p] \in Awaiting => MarksIn(log', open', cuts', pending'[p])
  BY <1>1 DEF Ready, MarksKept
<1> DEFINE lines == log'
           torn == open'
           lengths == cuts'
<1>3. MarkedIn(shown[p], lines, torn, lengths)
  BY <1>1 DEF Ready, MarkedIn, MarksKept
<1> HIDE DEF lines, torn, lengths
<1>4. IsList(<<>>) /\ MarkedIn(<<>>, lines, torn, lengths)
  BY NothingTyped
<1>5. IsList(shown'[p]) /\ MarkedIn(shown'[p], lines, torn, lengths)
  BY <1>1, <1>3, <1>4 DEF Ready
<1> QED
  BY <1>2, <1>5 DEF ReadyNext, Ready, lines, torn, lengths

(* A process changes its own place, checkpoint and list only. *)
Only(p) ==
  /\ pc' \in [Processes -> Files \cup Steps]
  /\ DOMAIN shown' = Processes /\ DOMAIN pending' = Processes
  /\ \A q \in Processes \ {p} :
       pc'[q] = pc[q] /\ pending'[q] = pending[q] /\ shown'[q] = shown[q]

LEMMA OthersReady ==
  ASSUME ProcessesTyped, MarksKept, NEW p \in Processes, Only(p), ReadyNext(p)
  PROVE  ProcessesTyped'
<1>1. ASSUME NEW q \in Processes \ {p} PROVE ReadyNext(q)
  <2>1. pc'[q] = pc[q] /\ pending'[q] = pending[q] /\ shown'[q] = shown[q]
    BY <1>1 DEF Only
  <2>2. pc'[q] \in Files \cup Steps
    BY <2>1 DEF ProcessesTyped
  <2> QED
    BY <2>1, <2>2, ReadyStays
<1>2. \A q \in Processes : ReadyNext(q)
  BY <1>1
<1>3. \A q \in Processes :
        /\ pc'[q] \in Files \cup Steps
        /\ pc'[q] \in Awaiting => MarksIn(log', open', cuts', pending'[q])
        /\ IsList(shown'[q]) /\ MarkedIn(shown'[q], log', open', cuts')
  BY <1>2 DEF ReadyNext, Ready
<1> QED
  BY <1>3 DEF ProcessesTyped, Only, Awaiting, Marks, Marked

LEMMA OneGoes ==
  ASSUME ProcessesTyped, NEW p \in Processes, NEW to \in Files \cup Steps,
         pc' = [pc EXCEPT ![p] = to],
         pending' = pending \/ \E at : pending' = [pending EXCEPT ![p] = at],
         shown' = shown \/ \E list : shown' = [shown EXCEPT ![p] = list]
  PROVE  Only(p) /\ pc'[p] = to
<1>1. pc \in [Processes -> Files \cup Steps] /\ DOMAIN shown = Processes /\ DOMAIN pending = Processes
  BY DEF ProcessesTyped
<1>2. pc' \in [Processes -> Files \cup Steps] /\ pc'[p] = to
      /\ \A q \in Processes \ {p} : pc'[q] = pc[q]
  BY <1>1
<1>3. DOMAIN pending' = Processes /\ \A q \in Processes \ {p} : pending'[q] = pending[q]
  BY <1>1
<1>4. DOMAIN shown' = Processes /\ \A q \in Processes \ {p} : shown'[q] = shown[q]
  BY <1>1
<1> QED
  BY <1>2, <1>3, <1>4 DEF Only

(* A process goes where no checkpoint is needed. *)
LEMMA PlainStep ==
  ASSUME ProcessesTyped, MarksKept, NEW p \in Processes, NEW to \in (Files \cup Steps) \ Awaiting,
         pc' = [pc EXCEPT ![p] = to],
         pending' = pending \/ \E at : pending' = [pending EXCEPT ![p] = at],
         shown' = shown \/ shown' = [shown EXCEPT ![p] = <<>>]
  PROVE  ProcessesTyped'
<1>1. Only(p) /\ pc'[p] = to
  BY OneGoes
<1>2. shown'[p] = shown[p] \/ shown'[p] = <<>>
  BY DEF ProcessesTyped
<1>3. ReadyNext(p)
  BY <1>1, <1>2, ReadyStays
<1> QED
  BY <1>1, <1>3, OthersReady

(* Nobody goes anywhere. *)
LEMMA StillStep ==
  ASSUME ProcessesTyped, MarksKept, UNCHANGED <<pc, pending, shown>>
  PROVE  ProcessesTyped'
<1>1. ASSUME NEW p \in Processes PROVE ReadyNext(p)
  <2>1. pc'[p] = pc[p] /\ pending'[p] = pending[p] /\ shown'[p] = shown[p]
    OBVIOUS
  <2>2. pc'[p] \in Files \cup Steps
    BY <2>1 DEF ProcessesTyped
  <2> QED
    BY <2>1, <2>2, ReadyStays
<1>2. \A p \in Processes :
        /\ pc'[p] \in Awaiting => MarksIn(log', open', cuts', pending'[p])
        /\ IsList(shown'[p]) /\ MarkedIn(shown'[p], log', open', cuts')
  BY <1>1 DEF ReadyNext, Ready
<1>3. /\ pc' \in [Processes -> Files \cup Steps]
      /\ DOMAIN shown' = Processes /\ DOMAIN pending' = Processes
  BY DEF ProcessesTyped
<1> QED
  BY <1>2, <1>3 DEF ProcessesTyped, Awaiting, Marks, Marked

(* The steps have names of their own. *)
LEMMA StepNames ==
  /\ \A to \in {"off", "idle", "starting", "run", "tracking", "dialog"} :
       to \in (Files \cup Steps) \ Awaiting
  /\ \A f \in Files : f \in (Files \cup Steps) \ Awaiting
  /\ \A to \in Awaiting : to \in Files \cup Steps
BY NamesAssumption DEF Steps, Awaiting, Choosing

(* The lines of the log are counted: the checkpoint marks the conversation. *)
LEMMA CountMarks ==
  ASSUME LogTyped, CountsTyped
  PROVE  MarksIn(log, open, cuts, [lines |-> LineCount, talk |-> Rebuilt(log),
                                   cuts |-> Len(cuts), ended |-> ~open])
<1> DEFINE at == [lines |-> LineCount, talk |-> Rebuilt(log), cuts |-> Len(cuts), ended |-> ~open]
<1>1. log \in Seq(Seq(Fragments) \ {<<>>}) /\ cuts \in Seq(Nat) /\ open \in BOOLEAN
  BY DEF LogTyped
<1>2. Rebuilt(log) \in Seq(Messages)
  BY <1>1, RebuiltTyped
<1>3. Len(log) \in Nat /\ Len(cuts) \in Nat
  BY <1>1
<1>4. Len(log) \in 0..MaxWrites
  BY <1>3, BoundsAssumption DEF LogTyped, CountsTyped
<1>5. /\ at.lines = Len(log) /\ at.talk = Rebuilt(log) /\ at.cuts = Len(cuts) /\ at.ended = ~open
      /\ at \in Checkpoints
  BY <1>1, <1>2, <1>3, <1>4 DEF Checkpoints, LineCount
<1> HIDE DEF at
<1>6. Prefix(log, Len(log)) = log
  BY <1>3 DEF Prefix
<1>7. MarksIn(log, open, cuts, at)
  <2>1. at.cuts <= Len(cuts) /\ at.lines <= Len(log)
    BY <1>3, <1>5
  <2>2. Rebuilt(Prefix(log, at.lines)) = at.talk
    BY <1>5, <1>6
  <2>3. IntactIn(cuts, at) => ~open
    BY <1>5 DEF IntactIn
  <2> QED
    BY <1>5, <2>1, <2>2, <2>3 DEF MarksIn
<1> QED
  BY <1>7 DEF at

LEMMA Counts ==
  ASSUME LogTyped, CountsTyped, ProcessesTyped, MarksKept, NEW p \in Processes, Count(p)
  PROVE  ProcessesTyped'
<1> DEFINE at == [lines |-> LineCount, talk |-> Rebuilt(log), cuts |-> Len(cuts), ended |-> ~open]
<1>1. MarksIn(log, open, cuts, at)
  BY CountMarks
<1>2. /\ shown' = shown /\ pending' = [pending EXCEPT ![p] = at]
      /\ UNCHANGED <<log, open, cuts>>
      /\ \E to \in {"counted", "ending"} : pc' = [pc EXCEPT ![p] = to]
  BY DEF Count, Goes
<1> HIDE DEF at
<1>3. PICK to \in {"counted", "ending"} : pc' = [pc EXCEPT ![p] = to]
  BY <1>2
<1>4. to \in Files \cup Steps
  BY DEF Steps
<1>5. Only(p) /\ pc'[p] = to
  BY <1>2, <1>3, <1>4, OneGoes
<1>6. pending'[p] = at /\ shown'[p] = shown[p]
  BY <1>2 DEF ProcessesTyped
<1>7. IsList(shown[p]) /\ MarkedIn(shown[p], log, open, cuts)
  BY DEF ProcessesTyped, Marked
<1>8. ReadyNext(p)
  BY <1>1, <1>2, <1>4, <1>5, <1>6, <1>7 DEF ReadyNext, Ready
<1> QED
  BY <1>5, <1>8, OthersReady

(* A snapshot is chosen: its checkpoint is the one to go back to. *)
LEMMA Chooses ==
  ASSUME ProcessesTyped, MarksKept, NEW p \in Processes, NEW i, Chosen(p, i),
         NEW to \in Awaiting, pc' = [pc EXCEPT ![p] = to], UNCHANGED <<log, open, cuts>>
  PROVE  ProcessesTyped'
<1> DEFINE at == shown[p][i].at
<1>1. i \in DOMAIN shown[p] /\ pending' = [pending EXCEPT ![p] = at]
      /\ shown' = [shown EXCEPT ![p] = <<>>]
  BY DEF Chosen
<1>2. MarksIn(log, open, cuts, at)
  BY <1>1 DEF ProcessesTyped, Marked, MarkedIn
<1> HIDE DEF at
<1>3. to \in Files \cup Steps
  BY StepNames
<1>4. Only(p) /\ pc'[p] = to
  BY <1>1, <1>3, OneGoes
<1>5. pending'[p] = at /\ shown'[p] = <<>>
  BY <1>1 DEF ProcessesTyped
<1>6. IsList(<<>>) /\ MarkedIn(<<>>, log, open, cuts)
  BY NothingTyped
<1>7. ReadyNext(p)
  BY <1>2, <1>3, <1>4, <1>5, <1>6 DEF ReadyNext, Ready
<1> QED
  BY <1>4, <1>7, OthersReady

(* The list of snapshots is shown. *)
LEMMA Shows ==
  ASSUME HistoriesTyped, ProcessesTyped, MarksKept, NEW p \in Processes, ShowSnapshots(p)
  PROVE  ProcessesTyped'
<1>1. /\ shown' = [shown EXCEPT ![p] = saved.snapshots] /\ pending' = pending
      /\ pc' = [pc EXCEPT ![p] = "dialog"] /\ UNCHANGED <<log, open, cuts>>
  BY DEF ShowSnapshots, Goes
<1>2. "dialog" \in (Files \cup Steps) \ Awaiting
  BY StepNames
<1>3. Only(p) /\ pc'[p] = "dialog"
  BY <1>1, <1>2, OneGoes
<1>4. shown'[p] = saved.snapshots
  BY <1>1 DEF ProcessesTyped
<1>5. IsList(saved.snapshots) /\ MarkedIn(saved.snapshots, log, open, cuts)
  BY DEF HistoriesTyped, IsHistory, Marked
<1>6. ReadyNext(p)
  BY <1>1, <1>2, <1>3, <1>4, <1>5 DEF ReadyNext, Ready
<1> QED
  BY <1>3, <1>6, OthersReady

(* The history is saved: a rewind goes on to cut the log. *)
LEMMA Saves ==
  ASSUME OperationInv, HistoriesTyped, ProcessesTyped, MarksKept, NEW p \in Processes, Save(p)
  PROVE  ProcessesTyped'
<1>1. PICK next \in After(p) :
        /\ pc' = [pc EXCEPT ![p] = next]
        /\ pending' = IF next = "cutting" THEN pending ELSE [pending EXCEPT ![p] = <<>>]
  BY DEF Save
<1>2. shown' = shown /\ op.by = p /\ op.step = "save"
  BY DEF Save
<1>3. op # Unlocked
  BY <1>2 DEF Unlocked
<1>4. \/ op.kind = "track" /\ next = op.subject
      \/ op.kind = "rewind" /\ next \in {"idle", "cutting"}
      \/ op.kind = "snapshot" /\ next \in {"run", "idle"}
  BY <1>1, <1>3 DEF OperationInv, After
<1>5. op.kind = "track" => op.subject \in Files
  BY DEF HistoriesTyped, WorkTyped
<1>6. CASE next # "cutting"
  <2>1. next \in (Files \cup Steps) \ Awaiting
    BY <1>4, <1>5, <1>6, StepNames
  <2> QED
    BY <1>1, <1>2, <1>6, <2>1, PlainStep
<1>7. CASE next = "cutting"
  <2>1. op.kind = "rewind"
    BY <1>4, <1>5, <1>7, NamesAssumption DEF Steps
  <2>2. pc[p] \in Awaiting
    BY <1>2, <2>1 DEF HistoriesTyped, Awaiting
  <2>3. "cutting" \in Files \cup Steps
    BY DEF Steps
  <2>4. Only(p) /\ pc'[p] = "cutting"
    BY <1>1, <1>2, <1>7, <2>3, OneGoes
  <2>5. pending'[p] = pending[p] /\ shown'[p] = shown[p]
    BY <1>1, <1>2, <1>7
  <2>6. ReadyNext(p)
    BY <2>2, <2>3, <2>4, <2>5, ReadyStays
  <2> QED
    BY <2>4, <2>6, OthersReady
<1> QED
  BY <1>6, <1>7

LEMMA ProcessesKept ==
  ASSUME HistoryInv, OperationInv, LogTyped, CountsTyped, HistoriesTyped, ProcessesTyped,
         MarksKept, [Next]_vars
  PROVE  ProcessesTyped'
<1>1. CASE UNCHANGED <<pc, pending, shown>>
  BY <1>1, StillStep
<1>2. CASE UNCHANGED vars
  BY <1>1, <1>2 DEF vars
<1>3. ASSUME NEW p \in Processes, Open(p) \/ Notified(p) \/ Interrupt(p) \/ Cancel(p)
      PROVE  ProcessesTyped'
  <2>1. /\ \E to \in {"idle", "starting"} : pc' = [pc EXCEPT ![p] = to]
        /\ pending' = pending
        /\ shown' = shown \/ shown' = [shown EXCEPT ![p] = <<>>]
    BY <1>3 DEF Open, Notified, Interrupt, Cancel, Goes
  <2>2. PICK to \in {"idle", "starting"} : pc' = [pc EXCEPT ![p] = to]
    BY <2>1
  <2>3. to \in (Files \cup Steps) \ Awaiting
    BY StepNames
  <2> QED
    BY <2>1, <2>2, <2>3, PlainStep
<1>4. ASSUME NEW p \in Processes, Prompt(p) \/ Tear(p) \/ Cut(p) \/ Crash(p)
      PROVE  ProcessesTyped'
  <2>1. CASE Prompt(p)
    <3>1. pc' = [pc EXCEPT ![p] = "starting"] /\ pending' = pending /\ shown' = shown
      BY <2>1 DEF Prompt, Goes, Wrote
    <3>2. "starting" \in (Files \cup Steps) \ Awaiting
      BY StepNames
    <3> QED
      BY <3>1, <3>2, PlainStep
  <2>2. CASE Tear(p) \/ Crash(p)
    <3>1. pc' = [pc EXCEPT ![p] = "off"] /\ pending' = [pending EXCEPT ![p] = <<>>]
          /\ (shown' = shown \/ shown' = [shown EXCEPT ![p] = <<>>])
      BY <2>2 DEF Tear, Crash, Goes, Wrote
    <3>2. "off" \in (Files \cup Steps) \ Awaiting
      BY StepNames
    <3> QED
      BY <3>1, <3>2, PlainStep
  <2>3. CASE Cut(p)
    <3>1. pc' = [pc EXCEPT ![p] = "idle"] /\ pending' = [pending EXCEPT ![p] = <<>>]
          /\ shown' = shown
      BY <2>3 DEF Cut, Goes
    <3>2. "idle" \in (Files \cup Steps) \ Awaiting
      BY StepNames
    <3> QED
      BY <3>1, <3>2, PlainStep
  <2> QED
    BY <1>4, <2>1, <2>2, <2>3
<1>5. ASSUME NEW p \in Processes, WriteFile(p)
      PROVE  ProcessesTyped'
  <2>1. pc' = [pc EXCEPT ![p] = "run"] /\ pending' = pending /\ shown' = shown
    BY <1>5 DEF WriteFile
  <2>2. "run" \in (Files \cup Steps) \ Awaiting
    BY StepNames
  <2> QED
    BY <2>1, <2>2, PlainStep
<1>6. ASSUME NEW p \in Processes, NEW f \in Files, TrackEdit(p, f)
      PROVE  ProcessesTyped'
  <2>1. pc' = [pc EXCEPT ![p] = "tracking"] /\ pending' = pending /\ shown' = shown
    BY <1>6 DEF TrackEdit, Goes
  <2>2. "tracking" \in (Files \cup Steps) \ Awaiting
    BY StepNames
  <2> QED
    BY <2>1, <2>2, PlainStep
<1>7. ASSUME NEW p \in Processes,
             \/ Message(p) \/ Compact(p) \/ Copy(p) \/ Prune(p) \/ Discard(p)
             \/ \E f \in Files : Restore(p, f) \/ RestoreBaseline(p, f) \/ RestoreFails(p, f)
      PROVE  UNCHANGED <<pc, pending, shown>>
  <2>1. CASE Message(p) \/ Compact(p)
    BY <2>1 DEF Message, Compact, Wrote
  <2>2. CASE Copy(p)
    BY <2>2 DEF Copy
  <2>3. CASE Prune(p) \/ Discard(p)
    BY <2>3 DEF Prune, Discard
  <2>4. CASE \E f \in Files : Restore(p, f) \/ RestoreBaseline(p, f) \/ RestoreFails(p, f)
    BY <2>4 DEF Restore, RestoreBaseline, RestoreFails
  <2> QED
    BY <1>7, <2>1, <2>2, <2>3, <2>4
<1>8. ASSUME NEW f \in Files, Touch(f)
      PROVE  UNCHANGED <<pc, pending, shown>>
  BY <1>8 DEF Touch
<1>9. ASSUME NEW p \in Processes, NEW i \in 1..MaxSnapshots,
             RewindConversation(p, i) \/ RewindCode(p, i)
      PROVE  ProcessesTyped'
  <2>1. /\ Chosen(p, i) /\ UNCHANGED <<log, open, cuts>>
        /\ \E to \in Awaiting : pc' = [pc EXCEPT ![p] = to]
    <3>1. CASE RewindConversation(p, i)
      BY <3>1 DEF RewindConversation, Goes, Awaiting
    <3>2. CASE RewindCode(p, i)
      BY <3>2 DEF RewindCode, Goes, Awaiting, Choosing
    <3> QED
      BY <1>9, <3>1, <3>2
  <2>2. PICK to \in Awaiting : pc' = [pc EXCEPT ![p] = to]
    BY <2>1
  <2> QED
    BY <2>1, <2>2, Chooses
<1>10. CASE \E p \in Processes :
        \/ Open(p) \/ Prompt(p) \/ Notified(p) \/ Message(p) \/ Compact(p) \/ Tear(p)
        \/ Count(p) \/ Interrupt(p) \/ Copy(p) \/ Prune(p)
        \/ WriteFile(p) \/ Save(p)
        \/ ShowSnapshots(p) \/ Cancel(p) \/ Discard(p) \/ Cut(p) \/ Crash(p)
        \/ \E i \in 1..MaxSnapshots : RewindConversation(p, i) \/ RewindCode(p, i)
        \/ \E f \in Files : \/ TrackEdit(p, f) \/ Restore(p, f) \/ RestoreBaseline(p, f)
                            \/ RestoreFails(p, f)
  BY <1>1, <1>3, <1>4, <1>5, <1>6, <1>7, <1>9, <1>10, Counts, Shows, Saves
<1> QED
  BY <1>1, <1>2, <1>8, <1>10 DEF Next

(* The process that rewinds is in the rewind until the operation is over.   *)
LEMMA ChooserStays ==
  ASSUME HistoryInv, OperationInv, HistoriesTyped, ProcessesTyped, [Next]_vars
  PROVE  op'.kind = "rewind" => op'.by \in Processes /\ pc'[op'.by] \in Choosing
<1>1. SUFFICES ASSUME op'.kind = "rewind" PROVE op'.by \in Processes /\ pc'[op'.by] \in Choosing
  OBVIOUS
<1>2. op' # Unlocked
  BY <1>1 DEF Unlocked
<1>3. CASE UNCHANGED <<op, pc>>
  BY <1>1, <1>3 DEF HistoriesTyped
<1>4. ASSUME NEW p \in Processes, op' = op, NEW to, pc' = [pc EXCEPT ![p] = to],
             pc[p] \notin Choosing
      PROVE  op'.by \in Processes /\ pc'[op'.by] \in Choosing
  <2>1. op.by \in Processes /\ pc[op.by] \in Choosing
    BY <1>1, <1>4 DEF HistoriesTyped
  <2>2. op.by # p
    BY <1>4, <2>1
  <2>3. pc'[op.by] = pc[op.by]
    BY <1>4, <2>1, <2>2 DEF ProcessesTyped
  <2> QED
    BY <1>4, <2>1, <2>3
<1>5. ASSUME NEW p \in Processes,
             \/ Open(p) \/ Prompt(p) \/ Notified(p) \/ Tear(p) \/ Count(p) \/ Interrupt(p)
             \/ WriteFile(p) \/ ShowSnapshots(p) \/ Cancel(p) \/ Cut(p)
             \/ \E i \in 1..MaxSnapshots : RewindConversation(p, i)
      PROVE  op'.by \in Processes /\ pc'[op'.by] \in Choosing
  <2>1. op' = op
    BY <1>5, QuietSteps
  <2>2. /\ \E to : pc' = [pc EXCEPT ![p] = to]
        /\ pc[p] \in Files \cup {"off", "idle", "starting", "run", "dialog", "cutting"}
    <3>1. CASE Open(p) \/ Prompt(p) \/ Notified(p) \/ Interrupt(p) \/ ShowSnapshots(p)
               \/ Cancel(p) \/ Cut(p)
      BY <3>1 DEF Open, Prompt, Notified, Interrupt, ShowSnapshots, Cancel, Cut, Goes
    <3>2. CASE Tear(p) \/ Count(p)
      BY <3>2 DEF Tear, Count, Goes
    <3>3. CASE WriteFile(p)
      BY <3>3 DEF WriteFile
    <3>4. CASE \E i \in 1..MaxSnapshots : RewindConversation(p, i)
      BY <3>4 DEF RewindConversation, Goes
    <3> QED
      BY <1>5, <3>1, <3>2, <3>3, <3>4
  <2>3. pc[p] \notin Choosing
    BY <2>2, NamesAssumption DEF Choosing, Steps
  <2> QED
    BY <1>4, <2>1, <2>2, <2>3
<1>6. ASSUME NEW p \in Processes, Message(p) \/ Compact(p)
      PROVE  UNCHANGED <<op, pc>>
  BY <1>6 DEF Message, Compact, Wrote
<1>7. ASSUME NEW f \in Files, Touch(f)
      PROVE  UNCHANGED <<op, pc>>
  BY <1>7 DEF Touch
<1>8. CASE UNCHANGED vars
  BY <1>3, <1>8 DEF vars
<1>9. ASSUME NEW p \in Processes,
             \/ Discard(p)
             \/ \E f \in Files : Restore(p, f) \/ RestoreBaseline(p, f) \/ RestoreFails(p, f)
      PROVE  op'.by \in Processes /\ pc'[op'.by] \in Choosing
  <2>1. op'.by = op.by /\ op.kind = "rewind" /\ pc' = pc
    <3>1. CASE Discard(p)
      BY <3>1, DiscardShape DEF Discard
    <3>2. ASSUME NEW f \in Files, Restore(p, f) \/ RestoreFails(p, f)
          PROVE  op'.by = op.by /\ op.kind = "rewind" /\ pc' = pc
      BY <3>2 DEF Restore, RestoreFails, OperationInv
    <3>3. ASSUME NEW f \in Files, RestoreBaseline(p, f)
          PROVE  op'.by = op.by /\ op.kind = "rewind" /\ pc' = pc
      <4>1. pc' = pc
        BY <3>3 DEF RestoreBaseline
      <4> QED
        BY <3>3, <4>1, RestoreBaselineShape
    <3> QED
      BY <1>9, <3>1, <3>2, <3>3
  <2> QED
    BY <2>1 DEF HistoriesTyped
<1>10. ASSUME NEW p \in Processes, NEW i \in 1..MaxSnapshots, RewindCode(p, i)
       PROVE  op'.by \in Processes /\ pc'[op'.by] \in Choosing
  <2>1. op'.by = p
    BY <1>10 DEF RewindCode, Locked
  <2>2. PICK to \in Choosing : pc' = [pc EXCEPT ![p] = to]
    BY <1>10 DEF RewindCode, Goes, Choosing
  <2> QED
    BY <2>1, <2>2 DEF ProcessesTyped
<1>11. ASSUME NEW p \in Processes, Save(p) \/ Crash(p)
       PROVE  op'.by \in Processes /\ pc'[op'.by] \in Choosing
  <2>1. CASE Save(p)
    BY <1>2, <2>1 DEF Save
  <2>2. CASE Crash(p)
    <3>1. op' = op /\ op.by # p /\ pc' = [pc EXCEPT ![p] = "off"]
      BY <1>2, <2>2 DEF Crash
    <3>2. op.by \in Processes /\ pc[op.by] \in Choosing
      BY <1>1, <3>1 DEF HistoriesTyped
    <3> QED
      BY <3>1, <3>2 DEF ProcessesTyped
  <2> QED
    BY <1>11, <2>1, <2>2
<1>12. ASSUME NEW p \in Processes,
              Copy(p) \/ Prune(p) \/ \E f \in Files : TrackEdit(p, f)
       PROVE  FALSE
  <2>1. CASE Copy(p)
    BY <1>1, <2>1, CopyShape DEF HistoryInv, OperationIs
  <2>2. CASE Prune(p)
    BY <1>1, <2>2, PruneShape DEF OperationIs
  <2>3. CASE \E f \in Files : TrackEdit(p, f)
    BY <1>1, <2>3, TrackShape DEF HistoryInv, OperationIs
  <2> QED
    BY <1>12, <2>1, <2>2, <2>3
<1>13. CASE \E p \in Processes :
        \/ Open(p) \/ Prompt(p) \/ Notified(p) \/ Message(p) \/ Compact(p) \/ Tear(p)
        \/ Count(p) \/ Interrupt(p) \/ Copy(p) \/ Prune(p)
        \/ WriteFile(p) \/ Save(p)
        \/ ShowSnapshots(p) \/ Cancel(p) \/ Discard(p) \/ Cut(p) \/ Crash(p)
        \/ \E i \in 1..MaxSnapshots : RewindConversation(p, i) \/ RewindCode(p, i)
        \/ \E f \in Files : \/ TrackEdit(p, f) \/ Restore(p, f) \/ RestoreBaseline(p, f)
                            \/ RestoreFails(p, f)
  BY <1>3, <1>5, <1>6, <1>9, <1>10, <1>11, <1>12, <1>13
<1> QED
  BY <1>3, <1>7, <1>8, <1>13 DEF Next

LEMMA BranchKept ==
  ASSUME HistoryInv, OperationInv, BranchInv, [Next]_vars
  PROVE  BranchInv'
<1>1. LogTyped /\ CountsTyped /\ FilesTyped /\ HistoriesTyped /\ ProcessesTyped
  BY DEF BranchInv
<1>2. LogSteps /\ LogTyped' /\ CountsTyped'
  BY <1>1, LogKept
<1>3. MarksKept
  BY <1>1, <1>2, AllMarksStay
<1>4. FilesTyped'
  BY <1>1, FilesKept
<1>5. ProcessesTyped'
  BY <1>1, <1>3, ProcessesKept
<1>6. WorkKept /\ (saved' = saved \/ (saved' = op.work /\ op.step = "save"))
  BY <1>1, <1>3, WorkStepped
<1>7. op'.kind = "rewind" => op'.by \in Processes /\ pc'[op'.by] \in Choosing
  BY <1>1, ChooserStays
<1>8. /\ IsHistory(saved') /\ MarkedIn(saved'.snapshots, log', open', cuts')
      /\ Len(saved'.snapshots) <= MaxSnapshots
  <2>1. CASE saved' = saved
    BY <1>1, <1>3, <2>1 DEF HistoriesTyped, Marked, MarkedIn, MarksKept
  <2>2. CASE saved' = op.work /\ op.step = "save"
    BY <1>1, <1>3, <2>2 DEF HistoriesTyped, WorkTyped, MarkedIn, MarksKept
  <2> QED
    BY <1>6, <2>1, <2>2
<1>9. HistoriesTyped'
  BY <1>6, <1>7, <1>8 DEF HistoriesTyped, Marked, WorkKept
<1> QED
  BY <1>2, <1>4, <1>5, <1>9 DEF BranchInv

LEMMA BranchStart == Init => BranchInv
<1> SUFFICES ASSUME Init PROVE BranchInv
  OBVIOUS
<1>1. /\ log = <<<<Line("message", 1, <<>>)>>>> /\ open = FALSE /\ cuts = <<>>
      /\ counts = [messages |-> 1, edits |-> 0, faults |-> 0]
      /\ disk \in [Files -> {Absent, Original}] /\ wild = [f \in Files |-> 0] /\ store = <<>>
      /\ saved = NoHistory /\ op = Unlocked
      /\ pc = [p \in Processes |-> "off"] /\ shown = [p \in Processes |-> <<>>]
      /\ pending = [p \in Processes |-> <<>>]
  BY DEF Init
<1>2. CountsTyped
  BY <1>1, BoundsAssumption DEF CountsTyped
<1>3. LogTyped
  <2> DEFINE first == Line("message", 1, <<>>)
             line == <<first>>
  <2>1. first \in Fragments
    <3>1. 1 \in Messages /\ <<>> \in Seq(Messages)
      BY BoundsAssumption DEF Messages
    <3> QED
      BY <3>1, LineTyped
  <2> HIDE DEF first
  <2>2. line \in Seq(Fragments) \ {<<>>}
    BY <2>1
  <2>3. log = <<line>>
    BY <1>1 DEF first
  <2> HIDE DEF line
  <2>4. log \in Seq(Seq(Fragments) \ {<<>>}) /\ Len(log) = 1
    BY <2>2, <2>3
  <2>5. Len(log) <= counts.messages
    BY <1>1, <2>4
  <2>6. cuts \in Seq(Nat)
    BY <1>1
  <2> QED
    BY <1>1, <2>4, <2>5, <2>6 DEF LogTyped
<1>4. FilesTyped
  <2>1. /\ 0 \in Contents /\ Absent \in Contents /\ Original \in Contents
        /\ DOMAIN <<>> = {}
    BY BoundsAssumption DEF Contents, Absent, Original
  <2>2. disk \in [Files -> Contents] /\ wild \in [Files -> Contents]
    BY <1>1, <2>1
  <2>3. DOMAIN store = {}
    BY <1>1, <2>1
  <2> QED
    BY <2>2, <2>3 DEF FilesTyped
<1>5. /\ WorkTyped(Unlocked, log, open, cuts) /\ Unlocked.kind = "none"
      /\ IsList(<<>>) /\ MarkedIn(<<>>, log, open, cuts)
  BY NothingTyped
<1>6. HistoriesTyped
  <2>1. IsHistory(NoHistory) /\ NoHistory.snapshots = <<>>
    BY <1>5 DEF WorkTyped, Unlocked, NoHistory
  <2>2. Len(<<>>) <= MaxSnapshots
    BY BoundsAssumption
  <2> QED
    BY <1>1, <1>5, <2>1, <2>2 DEF HistoriesTyped, Marked
<1>7. ProcessesTyped
  <2>1. "off" \in (Files \cup Steps) \ Awaiting
    BY StepNames
  <2> QED
    BY <1>1, <1>5, <2>1 DEF ProcessesTyped, Marked, Awaiting
<1> QED
  BY <1>2, <1>3, <1>4, <1>6, <1>7 DEF BranchInv

(* The invariant says that a snapshot's line count is right.                *)
LEMMA BranchMeans ==
  ASSUME BranchInv
  PROVE  BranchExact
<1>1. LogTyped /\ FilesTyped /\ HistoriesTyped /\ ProcessesTyped
  BY DEF BranchInv
<1>2. \A i \in DOMAIN log : Len(log[i]) >= 1
  <2> SUFFICES ASSUME NEW i \in DOMAIN log PROVE Len(log[i]) >= 1
    OBVIOUS
  <2> DEFINE line == log[i]
  <2>1. line \in Seq(Fragments) /\ line # <<>>
    BY <1>1 DEF LogTyped
  <2> HIDE DEF line
  <2>2. Len(line) \in Nat /\ Len(line) # 0
    BY <2>1, EmptySeq
  <2>3. Len(line) >= 1
    BY <2>2
  <2> QED
    BY <2>3 DEF line
<1>3. TypeOK
  BY <1>1, <1>2 DEF TypeOK, LogTyped, FilesTyped, HistoriesTyped, WorkTyped, ProcessesTyped
<1>4. ASSUME NEW i \in DOMAIN saved.snapshots, Intact(saved.snapshots[i].at)
      PROVE  Rebuilt(Prefix(log, saved.snapshots[i].at.lines)) = saved.snapshots[i].at.talk
  <2> DEFINE at == saved.snapshots[i].at
  <2>1. MarksIn(log, open, cuts, at)
    BY <1>1 DEF HistoriesTyped, Marked, MarkedIn
  <2>2. IntactIn(cuts, at)
    BY <1>4 DEF Intact, IntactIn
  <2> HIDE DEF at
  <2>3. Rebuilt(Prefix(log, at.lines)) = at.talk
    BY <2>1, <2>2 DEF MarksIn
  <2> QED
    BY <2>3 DEF at
<1> QED
  BY <1>3, <1>4 DEF BranchExact

(* ------------------------------- theorems ------------------------------- *)

(* Whatever is pruned, rewound, written by other processes or cut short: a  *)
(* backup that a snapshot of the history names holds what the file held     *)
(* when the snapshot was taken, and only a fault can have lost it.          *)
THEOREM BackupsStayExact == Spec => []BackupsExact
<1>1. HistoryInv /\ OperationInv => BackupsExact
  BY DEF HistoryInv, ExactIn, HeldIn, BackupsExact
<1>2. HistoryInv /\ OperationInv /\ [Next]_vars => HistoryInv' /\ OperationInv'
  BY HistoryKept
<1> QED BY <1>1, <1>2, HistoryStart, PTL DEF Spec

(* Wherever a rewind dies, its target is still in the list and the backups  *)
(* the target had are still there, so that the rewind can be repeated.      *)
THEOREM TargetStays == Spec => TargetSurvives
<1>1. HistoryInv /\ OperationInv /\ [Next]_vars
      => [op.kind = "rewind" =>
            /\ BackupsOf(<<Target>>) \cap DOMAIN store \subseteq DOMAIN store'
            /\ saved' # saved => \E i \in DOMAIN saved'.snapshots : saved'.snapshots[i] = Target]_vars
  BY TargetKept
<1>2. HistoryInv /\ OperationInv /\ [Next]_vars => HistoryInv' /\ OperationInv'
  BY HistoryKept
<1> QED BY <1>1, <1>2, HistoryStart, PTL DEF Spec, TargetSurvives
(* Until something fails, a rewind leaves every file as it was at the       *)
(* snapshot; a file that the target does not have may differ if something   *)
(* other than the edit tools changed it since.                              *)
THEOREM RewindRestores == Spec => RestoredExact
<1>1. HistoryInv /\ OperationInv /\ SourceInv /\ [Next]_vars
      => [\A f \in Files :
            (op'.kind = "rewind" /\ f \in op.left \ op'.left /\ counts'.faults = 0)
            => \/ disk'[f] = Target.was[f]
               \/ f \notin DOMAIN Target.backups /\ wild[f] > Target.edits]_vars
  BY RestoredKept
<1>2. HistoryInv /\ OperationInv /\ SourceInv /\ [Next]_vars
      => HistoryInv' /\ OperationInv' /\ SourceInv'
  BY HistoryKept, SourcesKept
<1> QED BY <1>1, <1>2, HistoryStart, SourcesStart, PTL DEF Spec, RestoredExact

(* As long as the log was not cut below it, the line count of a snapshot    *)
(* gives back the conversation of its time: however many messages and       *)
(* summaries follow, whatever is torn by a death or cut by other rewinds.   *)
THEOREM LineCountsHold == Spec => []BranchExact
<1>1. HistoryInv /\ OperationInv /\ BranchInv /\ [Next]_vars
      => HistoryInv' /\ OperationInv' /\ BranchInv'
  BY HistoryKept, BranchKept
<1> QED
  BY <1>1, BranchMeans, HistoryStart, BranchStart, PTL DEF Spec
=============================================================================
