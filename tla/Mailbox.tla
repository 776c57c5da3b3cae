------------------------------- MODULE Mailbox ------------------------------
(***************************************************************************)
(* One member's inbox (teams/file-mailbox.ts): a JSON array of messages,   *)
(* each read or unread, that several processes update under the file lock  *)
(* of FileMutex by reading it, writing a temporary copy and renaming it    *)
(* over the file.  A process may die, and the file system may refuse,      *)
(* between any two of those calls.                                         *)
(***************************************************************************)
EXTENDS Naturals, FiniteSets, Sequences, SequencesExt, Subsequences

CONSTANTS
  Procs,       \* processes that use the inbox; each runs one operation at a time
  Messages,    \* messages that can be sent, each by one send
  Predicates,  \* sets of messages receiveMatching can ask for
  MaxRead,     \* MAX_READ_MESSAGES, read messages kept on disk
  MaxRequeues, \* bound: requeue operations of a behaviour
  Mortal,      \* processes that may be killed
  Torn         \* what a reader finds in a file that is only partly written

ASSUME TornAssumption == Torn \notin Seq([id : Messages, read : BOOLEAN])
ASSUME BoundsAssumption == /\ MaxRead \in Nat /\ MaxRequeues \in Nat
                           /\ Mortal \subseteq Procs
                           /\ Predicates \subseteq SUBSET Messages

VARIABLES
  file,     \* the array in the inbox file
  tmp,      \* content of each process's temporary file, Torn when none
  owners,   \* owner of the file lock
  dead,     \* processes that were killed
  pc,       \* where each process is in its operation
  op,       \* its operation: kind, and the messages it is about
  snap,     \* the array it read and changed in memory
  hands,    \* messages its last receive returned to it
  sent,     \* messages whose send has begun
  requeues, \* requeue operations begun
  put, got, \* history: times a message was stored unread, and marked read
  returned  \* history: times a message was returned to a consumer

vars == <<file, tmp, owners, dead, pc, op, snap, hands, sent, requeues,
          put, got, returned>>

Lock == INSTANCE FileMutex
          WITH Contenders <- Procs, ProcOf <- [p \in Procs |-> p]

Entry == [id : Messages, read : BOOLEAN]
Idle == [kind |-> "none", msgs |-> {}]
Kinds == {"send", "receive", "requeue"}

Unread(s, m) == Cardinality({i \in DOMAIN s : s[i] = [id |-> m, read |-> FALSE]})
ReadCount(s) == Cardinality({i \in DOMAIN s : s[i].read})
Alive(p) == p \notin dead

TypeOK ==
  /\ file \in Seq(Entry) \cup {Torn}
  /\ tmp \in [Procs -> Seq(Entry) \cup {Torn}]
  /\ \A p \in Procs : tmp[p] # Torn => pc[p] = "rename"
  /\ owners \subseteq Procs
  /\ dead \subseteq Procs
  /\ pc \in [Procs -> {"idle", "lock", "load", "write", "rename", "unlock"}]
  /\ op \in [Procs -> [kind : Kinds \cup {"none"}, msgs : SUBSET Messages]]
  /\ snap \in [Procs -> Seq(Entry)]
  /\ hands \in [Procs -> SUBSET Messages]
  /\ sent \subseteq Messages
  /\ requeues \in 0..MaxRequeues
  /\ put \in [Messages -> Nat] /\ got \in [Messages -> Nat]
  /\ returned \in [Messages -> Nat]

Init ==
  /\ file = <<>>
  /\ tmp = [p \in Procs |-> Torn]
  /\ Lock!Init
  /\ pc = [p \in Procs |-> "idle"]
  /\ op = [p \in Procs |-> Idle]
  /\ snap = [p \in Procs |-> <<>>]
  /\ hands = [p \in Procs |-> {}]
  /\ sent = {} /\ requeues = 0
  /\ put = [m \in Messages |-> 0] /\ got = [m \in Messages |-> 0]
  /\ returned = [m \in Messages |-> 0]
-----------------------------------------------------------------------------
(* Mutant: the oldest messages go, read or not. *)
Prune_Oldest(s) ==
  IF Len(s) > MaxRead + 1 THEN SubSeq(s, Len(s) - MaxRead, Len(s)) ELSE s

(* pruneRead: the oldest read messages beyond the cap go, unread ones stay. *)
Dropped(s) ==
  {i \in DOMAIN s :
     s[i].read /\ Cardinality({j \in 1..i : s[j].read}) + MaxRead <= ReadCount(s)}
Prune(s) == Selected(s, DOMAIN s \ Dropped(s))

Store(s, msgs) == s \o SetToSeq({[id |-> m, read |-> FALSE] : m \in msgs})
MarkRead(s, msgs) ==
  [i \in DOMAIN s |-> IF s[i].id \in msgs THEN [s[i] EXCEPT !.read = TRUE] ELSE s[i]]
(* Mutant: the read flag is not looked at. *)
Matching_AnyFlag(s, msgs) == {m \in msgs : \E i \in DOMAIN s : s[i].id = m}

Matching(s, msgs) == {m \in msgs : Unread(s, m) > 0}

(* The array an operation writes over the one it has read. *)
Updated(o, s) ==
  Prune(IF o.kind = "receive" THEN MarkRead(s, o.msgs) ELSE Store(s, o.msgs))

Begin(p, kind, msgs) ==
  /\ pc[p] = "idle" /\ Alive(p)
  /\ pc' = [pc EXCEPT ![p] = "lock"]
  /\ op' = [op EXCEPT ![p] = [kind |-> kind, msgs |-> msgs]]
  /\ UNCHANGED <<file, tmp, owners, dead, snap, put, got, returned>>

Send(p, m) ==
  /\ m \notin sent
  /\ Begin(p, "send", {m})
  /\ sent' = sent \cup {m}
  /\ UNCHANGED <<hands, requeues>>

(* receive is receiveMatching with a predicate that accepts everything. *)
Receive(p, msgs) ==
  /\ Begin(p, "receive", msgs)
  /\ hands' = [hands EXCEPT ![p] = {}]
  /\ UNCHANGED <<sent, requeues>>

(* A consumer that waited for some messages hands the others back. *)
Requeue(p, msgs) ==
  /\ msgs # {} /\ msgs \subseteq hands[p] /\ requeues < MaxRequeues
  /\ Begin(p, "requeue", msgs)
  /\ hands' = [hands EXCEPT ![p] = @ \ msgs]
  /\ requeues' = requeues + 1
  /\ UNCHANGED sent

(* Mutant: the file is read without the lock. *)
Acquire_NoLock(p) ==
  /\ pc[p] = "lock" /\ Alive(p)
  /\ owners' = owners \cup {p}
  /\ pc' = [pc EXCEPT ![p] = "load"]
  /\ UNCHANGED <<file, tmp, dead, op, snap, hands, sent, requeues, put, got, returned>>

Acquire(p) ==
  /\ pc[p] = "lock" /\ Lock!Acquire(p)
  /\ pc' = [pc EXCEPT ![p] = "load"]
  /\ UNCHANGED <<file, tmp, op, snap, hands, sent, requeues, put, got, returned>>

(* withFileSyncLock throws when the lock is not free in time. *)
LockTimeout(p) ==
  /\ pc[p] = "lock" /\ Alive(p) /\ owners # {}
  /\ pc' = [pc EXCEPT ![p] = "idle"]
  /\ op' = [op EXCEPT ![p] = Idle]
  /\ UNCHANGED <<file, tmp, owners, dead, snap, hands, sent, requeues, put, got, returned>>

(* readAll; a receive that matches nothing writes nothing. *)
Load(p) ==
  /\ pc[p] = "load" /\ Alive(p) /\ file # Torn
  /\ snap' = [snap EXCEPT ![p] = file]
  /\ LET nothing == op[p].kind = "receive" /\ Matching(file, op[p].msgs) = {}
     IN  /\ pc' = [pc EXCEPT ![p] = IF nothing THEN "unlock" ELSE "write"]
         /\ op' = IF op[p].kind = "receive"
                    THEN [op EXCEPT ![p].msgs = Matching(file, @)] ELSE op
  /\ UNCHANGED <<file, tmp, owners, dead, hands, sent, requeues, put, got, returned>>

WriteTmp(p) ==
  /\ pc[p] = "write" /\ Alive(p)
  /\ tmp' = [tmp EXCEPT ![p] = Updated(op[p], snap[p])]
  /\ pc' = [pc EXCEPT ![p] = "rename"]
  /\ UNCHANGED <<file, owners, dead, op, snap, hands, sent, requeues, put, got, returned>>

Rename(p) ==
  /\ pc[p] = "rename" /\ Alive(p)
  /\ file' = tmp[p]
  /\ tmp' = [tmp EXCEPT ![p] = Torn]
  /\ pc' = [pc EXCEPT ![p] = "unlock"]
  /\ LET count(h) == [m \in Messages |-> IF m \in op[p].msgs THEN h[m] + 1 ELSE h[m]]
     IN  IF op[p].kind = "receive" THEN got' = count(got) /\ UNCHANGED put
                                   ELSE put' = count(put) /\ UNCHANGED got
  /\ UNCHANGED <<owners, dead, op, snap, hands, sent, requeues, returned>>

(* An unreadable array or a failed write: the lock is released and the     *)
(* temporary file removed while the error leaves the operation.            *)
Fail(p) ==
  /\ \/ pc[p] = "load" /\ file = Torn
     \/ pc[p] \in {"write", "rename"}
  /\ Lock!Release(p)
  /\ tmp' = [tmp EXCEPT ![p] = Torn]
  /\ pc' = [pc EXCEPT ![p] = "idle"]
  /\ op' = [op EXCEPT ![p] = Idle]
  /\ UNCHANGED <<file, snap, hands, sent, requeues, put, got, returned>>

Unlock(p) ==
  /\ pc[p] = "unlock" /\ Lock!Release(p)
  /\ pc' = [pc EXCEPT ![p] = "idle"]
  /\ op' = [op EXCEPT ![p] = Idle]
  /\ LET result == IF op[p].kind = "receive" THEN op[p].msgs ELSE {}
     IN  /\ hands' = [hands EXCEPT ![p] = @ \cup result]
         /\ returned' = [m \in Messages |->
                           IF m \in result THEN returned[m] + 1 ELSE returned[m]]
  /\ UNCHANGED <<file, tmp, snap, sent, requeues, put, got>>

(* The lock of a dead process is reclaimed by the next contenders. *)
Crash(p) ==
  /\ p \in Mortal /\ Lock!Die(p)
  /\ UNCHANGED <<file, tmp, pc, op, snap, hands, sent, requeues, put, got, returned>>

Reclaim(p) ==
  /\ Lock!Reclaim(p)
  /\ UNCHANGED <<file, tmp, pc, op, snap, hands, sent, requeues, put, got, returned>>

Step(p) == Acquire(p) \/ Load(p) \/ WriteTmp(p) \/ Rename(p) \/ Unlock(p)

Next == \E p \in Procs :
  \/ \E m \in Messages : Send(p, m)
  \/ \E msgs \in Predicates : Receive(p, msgs)
  \/ \E msgs \in SUBSET Messages : Requeue(p, msgs)
  \/ Step(p) \/ LockTimeout(p) \/ Fail(p) \/ Crash(p) \/ Reclaim(p)

Spec == Init /\ [][Next]_vars
-----------------------------------------------------------------------------
(* No update is lost and pruning drops no unread message: the inbox holds  *)
(* as many unread copies of a message as were stored and not yet taken.    *)
(* And a stored copy is returned to at most one consumer, and to one       *)
(* unless that consumer died between the rename and its return.            *)
UnreadConserved == \A m \in Messages : Unread(file, m) + got[m] = put[m]
DeliveredOnce ==
  /\ \A m \in Messages : returned[m] <= got[m] /\ got[m] <= put[m]
  /\ dead = {} /\ (\A p \in Procs : pc[p] # "unlock") => returned = got
MessagesKept == TypeOK /\ file # Torn /\ UnreadConserved /\ DeliveredOnce

(* The array a process has read is still the file's content while it       *)
(* changes and replaces it, crashes and reclaim included.                  *)
SnapshotFresh ==
  \A p \in Procs : pc[p] \in {"write", "rename"} /\ Alive(p) => snap[p] = file
=============================================================================
