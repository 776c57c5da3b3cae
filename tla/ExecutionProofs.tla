--------------------------- MODULE ExecutionProofs --------------------------
(* Proofs about what runs beside a conversation: the turns of the          *)
(* workspace (WorkspaceQueue: exclusive work, consent across changes of    *)
(* the permission mode, turns in the order of asking), the shell command   *)
(* that holds one (ShellCommand: its turn outlasts its shell, its sandbox  *)
(* is taken down once), and the background tasks (TaskManager: every       *)
(* result is told, once, and stays what was told).                         *)
EXTENDS WorkspaceQueue, ShellCommand, TaskManager, FiniteSetTheorems, TLAPS

(* At most one call is at its turn, and only while the map has a queue; a  *)
(* call at work is at its turn.                                            *)
OneHolder == \A a, b \in Holders : a = b
QueueWhileHeld == Holders # {} => current # 0
WorkHolds == \A c \in work : pc[c] \in {"running", "returned"}
Bookkeeping ==
  /\ pc \in [Calls -> Steps]
  /\ \E S : queues \in Seq(S)
  /\ work \subseteq Calls
ExclusiveInv == Bookkeeping /\ OneHolder /\ QueueWhileHeld /\ WorkHolds

LEMMA InitExclusive == Init => ExclusiveInv
<1> SUFFICES ASSUME Init PROVE ExclusiveInv OBVIOUS
<1> queues \in Seq({}) BY DEF Init
<1> QED BY DEF Init, ExclusiveInv, Bookkeeping, OneHolder, QueueWhileHeld, WorkHolds,
          Holders, Steps

(* Changing elements of a sequence leaves a sequence.                      *)
LEMMA StillSequence ==
  ASSUME NEW s, NEW S, s \in Seq(S), NEW t, DOMAIN t = DOMAIN s,
         t = [i \in DOMAIN s |-> t[i]]
  PROVE  \E T : t \in Seq(T)
<1> DEFINE T == {t[i] : i \in DOMAIN s}
<1>1. Len(s) \in Nat /\ DOMAIN s = 1..Len(s) OBVIOUS
<1>2. \A i \in 1..Len(s) : t[i] \in T BY <1>1
<1>3. t \in [1..Len(s) -> T]
  <2> HIDE DEF T
  <2> QED BY <1>1, <1>2
<1> HIDE DEF T
<1>4. t \in Seq(T) BY <1>1, <1>3
<1> QED BY <1>4

LEMMA AppendedSequence ==
  ASSUME NEW s, NEW S, s \in Seq(S), NEW x
  PROVE  /\ \E T : Append(s, x) \in Seq(T)
         /\ Len(s) + 1 # 0
<1>1. s \in Seq(S \cup {x}) OBVIOUS
<1>2. Append(s, x) \in Seq(S \cup {x}) BY <1>1
<1> QED BY <1>2

(* A release passes the turn to one call at most.                          *)
LEMMA ReleaseKeepsExclusive ==
  ASSUME ExclusiveInv, NEW c \in Calls, pc[c] \in {"granted", "returned"}, c \notin work,
         Release(c), work' = work, safe' = safe
  PROVE  ExclusiveInv'
<1> DEFINE step == [pc EXCEPT ![c] = "done"]
<1>1. step \in [Calls -> Steps] /\ \A d \in Calls : d # c => step[d] = pc[d]
  BY DEF ExclusiveInv, Bookkeeping, Steps
<1>2. step[c] = "done" BY DEF ExclusiveInv, Bookkeeping
<1>3. CASE Turnless(c)
  <2>1. pc' = step /\ UNCHANGED <<queues, current>> BY <1>3 DEF Release
  <2> HIDE DEF step
  <2>2. Holders' = Holders BY <1>1, <1>2, <1>3, <2>1 DEF Holders, Turnless
  <2> QED BY <1>1, <2>1, <2>2 DEF ExclusiveInv, Bookkeeping, OneHolder, QueueWhileHeld, WorkHolds
<1>4. CASE ~Turnless(c)
  <2> HIDE DEF step
  <2>1. HandOver(queueOf[c], step) BY <1>4 DEF Release, step
  <2>2. c \in Holders BY <1>4 DEF Holders
  <2>3. \A d \in Holders : d = c BY <2>2 DEF ExclusiveInv, OneHolder
  <2>4. (\E T : queues' \in Seq(T))
    <3>1. PICK S : queues \in Seq(S) BY DEF ExclusiveInv, Bookkeeping
    <3>2. DOMAIN queues' = DOMAIN queues /\ queues' = [i \in DOMAIN queues |-> queues'[i]]
      BY <2>1, <3>1 DEF HandOver
    <3> QED BY <3>1, <3>2, StillSequence
  <2>5. CASE queues[queueOf[c]].pending = <<>>
    <3>1. pc' = step /\ current' = 0 BY <2>1, <2>5 DEF HandOver
    <3>2. Holders' = {} BY <1>1, <1>2, <2>3, <3>1 DEF Holders, Turnless
    <3> QED BY <1>1, <2>4, <3>1, <3>2
          DEF ExclusiveInv, Bookkeeping, OneHolder, QueueWhileHeld, WorkHolds
  <2>6. CASE queues[queueOf[c]].pending # <<>>
    <3> DEFINE next == Head(queues[queueOf[c]].pending)
    <3>1. pc' = Granted(next, step) /\ UNCHANGED current BY <2>1, <2>6 DEF HandOver
    <3> HIDE DEF next
    <3>2. /\ pc' \in [Calls -> Steps]
          /\ \A d \in Calls : d # next => pc'[d] = step[d]
          /\ next \in Calls => pc'[next] = IF step[next] = "waiting" THEN "granted" ELSE step[next]
      BY <1>1, <3>1 DEF Granted, Steps
    <3>3. \A d \in Holders' : d = next BY <1>1, <1>2, <2>3, <3>2 DEF Holders, Turnless
    <3>4. current' # 0 BY <2>2, <3>1 DEF ExclusiveInv, QueueWhileHeld
    <3>5. \A d \in work : pc'[d] = pc[d]
      BY <1>1, <3>2 DEF ExclusiveInv, WorkHolds, Bookkeeping
    <3> QED BY <2>4, <3>2, <3>3, <3>4, <3>5
          DEF ExclusiveInv, Bookkeeping, OneHolder, QueueWhileHeld, WorkHolds
  <2> QED BY <2>5, <2>6
<1> QED BY <1>3, <1>4

LEMMA NextExclusive == ExclusiveInv /\ [Next]_vars => ExclusiveInv'
<1> SUFFICES ASSUME ExclusiveInv, [Next]_vars PROVE ExclusiveInv' OBVIOUS
<1> safe' = safe BY DEF Next, vars
<1> USE DEF Goto
<1>1. ASSUME NEW c \in Calls,
             Ask(c) \/ Submit(c) \/ Interrupted(c) \/ Skip(c)
      PROVE  ExclusiveInv'
  <2>1. Holders' = Holders /\ UNCHANGED <<queues, current, work>>
    BY <1>1 DEF Ask, Submit, Interrupted, Skip, Holders, Turnless,
                ExclusiveInv, Bookkeeping
  <2>2. pc' \in [Calls -> Steps] /\ \A d \in work : pc'[d] = pc[d]
    BY <1>1 DEF Ask, Submit, Interrupted, Skip,
                ExclusiveInv, Bookkeeping, WorkHolds, Steps
  <2> QED BY <2>1, <2>2 DEF ExclusiveInv, Bookkeeping, OneHolder, QueueWhileHeld, WorkHolds
<1>2. ASSUME NEW c \in Calls, Open(c) PROVE ExclusiveInv'
  <2>1. PICK S : queues \in Seq(S) BY DEF ExclusiveInv, Bookkeeping
  <2>2. /\ \E T : queues' \in Seq(T)
        /\ current' # 0
    BY <1>2, <2>1, AppendedSequence DEF Open
  <2>3. Holders = {} BY <1>2 DEF Open, ExclusiveInv, QueueWhileHeld
  <2>4. pc' = [pc EXCEPT ![c] = "granted"] /\ work' = work /\ pc[c] = "submitted"
    BY <1>2 DEF Open
  <2>5. \A d \in Holders' : d = c
    BY <2>3, <2>4 DEF Holders, Turnless, ExclusiveInv, Bookkeeping
  <2>6. pc' \in [Calls -> Steps] /\ \A d \in work : pc'[d] = pc[d]
    BY <2>4 DEF ExclusiveInv, Bookkeeping, WorkHolds, Steps
  <2> QED BY <2>2, <2>4, <2>5, <2>6
        DEF ExclusiveInv, Bookkeeping, OneHolder, QueueWhileHeld, WorkHolds
<1>3. ASSUME NEW c \in Calls, Wait(c) PROVE ExclusiveInv'
  <2>1. PICK S : queues \in Seq(S) BY DEF ExclusiveInv, Bookkeeping
  <2>2. DOMAIN queues' = DOMAIN queues /\ queues' = [i \in DOMAIN queues |-> queues'[i]]
    BY <1>3, <2>1 DEF Wait
  <2>3. \E T : queues' \in Seq(T) BY <2>1, <2>2, StillSequence
  <2>4. pc' = [pc EXCEPT ![c] = "waiting"] /\ work' = work /\ current' = current
        /\ pc[c] = "submitted"
    BY <1>3 DEF Wait
  <2>5. Holders' = Holders BY <2>4 DEF Holders, Turnless, ExclusiveInv, Bookkeeping
  <2>6. pc' \in [Calls -> Steps] /\ \A d \in work : pc'[d] = pc[d]
    BY <2>4 DEF ExclusiveInv, Bookkeeping, WorkHolds, Steps
  <2> QED BY <2>3, <2>4, <2>5, <2>6
        DEF ExclusiveInv, Bookkeeping, OneHolder, QueueWhileHeld, WorkHolds
<1>4. ASSUME NEW c \in Calls, Start(c) \/ Return(c) PROVE ExclusiveInv'
  <2>1. Holders' = Holders /\ UNCHANGED <<queues, current>>
    BY <1>4 DEF Start, Return, Holders, Turnless, ExclusiveInv, Bookkeeping
  <2>2. pc' \in [Calls -> Steps] /\ work' \subseteq Calls
    BY <1>4 DEF Start, Return, ExclusiveInv, Bookkeeping, Steps
  <2>3. \A d \in work' : pc'[d] \in {"running", "returned"}
    BY <1>4 DEF Start, Return, ExclusiveInv, Bookkeeping, WorkHolds
  <2> QED BY <2>1, <2>2, <2>3 DEF ExclusiveInv, Bookkeeping, OneHolder, QueueWhileHeld, WorkHolds
<1>5. ASSUME NEW c \in Calls, Refuse(c) PROVE ExclusiveInv'
  <2>1. c \notin work BY <1>5 DEF Refuse, ExclusiveInv, WorkHolds
  <2> QED BY <1>5, <2>1, ReleaseKeepsExclusive DEF Refuse
<1>6. ASSUME NEW c \in Calls, Finish(c) PROVE ExclusiveInv'
  BY <1>6, ReleaseKeepsExclusive DEF Finish
<1>7. ASSUME NEW c \in Calls, WorkOver(c) PROVE ExclusiveInv'
  BY <1>7 DEF WorkOver, ExclusiveInv, Bookkeeping, OneHolder, QueueWhileHeld, WorkHolds,
              Holders, Turnless
<1>8. ASSUME NEW sig \in Signals, Abort(sig) PROVE ExclusiveInv'
  <2>1. PICK S : queues \in Seq(S) BY DEF ExclusiveInv, Bookkeeping
  <2>2. DOMAIN queues' = DOMAIN queues /\ queues' = [i \in DOMAIN queues |-> queues'[i]]
    BY <1>8, <2>1 DEF Abort
  <2>3. \E T : queues' \in Seq(T) BY <2>1, <2>2, StillSequence
  <2>4. /\ work' = work /\ current' = current
        /\ pc' \in [Calls -> Steps]
        /\ \A c \in Calls : pc'[c] # pc[c] => pc[c] = "waiting" /\ pc'[c] = "done"
    BY <1>8 DEF Abort, ExclusiveInv, Bookkeeping, Steps
  <2>5. Holders' = Holders BY <2>4 DEF Holders, Turnless
  <2>6. \A d \in work : pc'[d] = pc[d] BY <2>4 DEF ExclusiveInv, Bookkeeping, WorkHolds
  <2> QED BY <2>3, <2>4, <2>5, <2>6
        DEF ExclusiveInv, Bookkeeping, OneHolder, QueueWhileHeld, WorkHolds
<1>9. ASSUME (\E m \in Modes : SetMode(m)) \/ UNCHANGED vars PROVE ExclusiveInv'
  BY <1>9 DEF SetMode, vars, ExclusiveInv, Bookkeeping, OneHolder, QueueWhileHeld, WorkHolds,
              Holders, Turnless
<1> QED BY <1>1, <1>2, <1>3, <1>4, <1>5, <1>6, <1>7, <1>8, <1>9 DEF Next, Step

LEMMA ExclusiveInvariant == Spec => []ExclusiveInv
<1> QED BY InitExclusive, NextExclusive, PTL DEF Spec

(* However many agents share the workspace, no two mutating calls are ever *)
(* at work in it together.                                                 *)
THEOREM ExclusiveWork == Spec => []WorkExclusive
<1>1. ExclusiveInv => WorkExclusive
  <2> SUFFICES ASSUME ExclusiveInv PROVE WorkExclusive OBVIOUS
  <2>1. (work \ safe) \subseteq Holders
    BY DEF ExclusiveInv, Bookkeeping, WorkHolds, Holders, Turnless
  <2>2. \A a, b \in work \ safe : a = b BY <2>1 DEF ExclusiveInv, OneHolder
  <2>3. work \ safe = {} \/ \E c : work \ safe = {c} BY <2>2
  <2>4. CASE work \ safe = {}
    BY <2>4, FS_EmptySet DEF WorkExclusive
  <2>5. CASE \E c : work \ safe = {c}
    <3>1. PICK c : work \ safe = {c} BY <2>5
    <3>2. Cardinality({c}) = 1 BY FS_Singleton
    <3> QED BY <3>1, <3>2 DEF WorkExclusive
  <2> QED BY <2>3, <2>4, <2>5
<1> QED BY <1>1, ExclusiveInvariant, PTL
-----------------------------------------------------------------------------
(* A submitted call that its approval's mode asks about was answered.      *)
Approvals ==
  /\ pc \in [Calls -> Steps]
  /\ mode \in Modes /\ approved \in [Calls -> Modes]
  /\ \A c \in Calls : pc[c] \notin {"idle", "asked"} /\ Effect[c][approved[c]] = "ask"
       => c \in answered

LEMMA InitApprovals == Init => Approvals
<1> QED BY DEF Init, Approvals, Steps

(* Where a release takes the calls.                                        *)
LEMMA ReleaseMoves ==
  ASSUME Approvals, NEW c \in Calls, pc[c] \in {"granted", "returned"}, Release(c)
  PROVE  /\ pc' \in [Calls -> Steps]
         /\ \A d \in Calls : \/ pc'[d] = pc[d]
                             \/ pc'[d] = "done" /\ d = c
                             \/ pc[d] = "waiting" /\ pc'[d] = "granted"
<1> DEFINE step == [pc EXCEPT ![c] = "done"]
<1>1. step \in [Calls -> Steps] /\ step[c] = "done" /\ \A d \in Calls : d # c => step[d] = pc[d]
  BY DEF Approvals, Steps
<1>2. \/ pc' = step
      \/ pc' = Granted(Head(queues[queueOf[c]].pending), step)
  BY DEF Release, HandOver
<1> HIDE DEF step
<1> QED BY <1>1, <1>2 DEF Granted, Steps

(* A step keeps the record of approvals, and starts a call only as they    *)
(* allow.                                                                  *)
LEMMA NextApprovals ==
  ASSUME Approvals, [Next]_vars
  PROVE  Approvals' /\ ((\A c \in Calls : StartsWithConsent(c)) \/ UNCHANGED vars)
<1> USE DEF Goto
<1> DEFINE consented == \A c \in Calls : StartsWithConsent(c)
<1>1. ASSUME NEW c \in Calls, Ask(c) \/ Submit(c) PROVE Approvals' /\ consented
  <2>1. Approvals' BY <1>1 DEF Ask, Submit, Approvals, Steps
  <2>2. consented BY <1>1 DEF Ask, Submit, Approvals, StartsWithConsent
  <2> QED BY <2>1, <2>2
<1>2. ASSUME NEW c \in Calls,
             Interrupted(c) \/ Skip(c) \/ Open(c) \/ Wait(c) \/ WorkOver(c) \/ Return(c)
      PROVE  Approvals' /\ consented
  <2>1. UNCHANGED <<mode, approved, answered>> /\ pc' \in [Calls -> Steps]
        /\ \A d \in Calls : pc'[d] = pc[d] \/ (pc[d] \notin {"idle", "asked"}
                                               /\ pc'[d] # "running")
    BY <1>2 DEF Interrupted, Skip, Open, Wait, WorkOver, Return, Approvals, Steps
  <2>2. Approvals' BY <2>1 DEF Approvals
  <2>3. consented BY <2>1 DEF StartsWithConsent
  <2> QED BY <2>2, <2>3
<1>3. ASSUME NEW c \in Calls, Start(c) PROVE Approvals' /\ consented
  <2>1. Effect[c][mode] \in {"allow", "ask", "deny"} BY CallsAssumption DEF Approvals
  <2>2. StartsWithConsent(c) BY <1>3, <2>1 DEF Start, Blocked, Approvals, StartsWithConsent
  <2>3. \A d \in Calls : d # c => StartsWithConsent(d)
    BY <1>3 DEF Start, Approvals, StartsWithConsent
  <2>4. Approvals' BY <1>3 DEF Start, Approvals, Steps
  <2> QED BY <2>2, <2>3, <2>4
<1>4. ASSUME NEW c \in Calls, Refuse(c) \/ Finish(c) PROVE Approvals' /\ consented
  <2>1. pc[c] \in {"granted", "returned"} /\ Release(c) /\ UNCHANGED <<mode, approved, answered>>
    BY <1>4 DEF Refuse, Finish
  <2>2. Approvals' BY <2>1, ReleaseMoves DEF Approvals
  <2>3. consented BY <2>1, ReleaseMoves DEF StartsWithConsent
  <2> QED BY <2>2, <2>3
<1>5. ASSUME NEW sig \in Signals, Abort(sig) PROVE Approvals' /\ consented
  <2>1. UNCHANGED <<mode, approved, answered>> /\ pc' \in [Calls -> Steps]
        /\ \A d \in Calls : pc'[d] = pc[d] \/ (pc[d] = "waiting" /\ pc'[d] = "done")
    BY <1>5 DEF Abort, Approvals, Steps
  <2>2. Approvals' BY <2>1 DEF Approvals
  <2>3. consented BY <2>1 DEF StartsWithConsent
  <2> QED BY <2>2, <2>3
<1>6. ASSUME NEW m \in Modes, SetMode(m) PROVE Approvals' /\ consented
  BY <1>6 DEF SetMode, Approvals, StartsWithConsent
<1>7. ASSUME UNCHANGED vars PROVE Approvals'
  BY <1>7 DEF vars, Approvals
<1> QED BY <1>1, <1>2, <1>3, <1>4, <1>5, <1>6, <1>7 DEF Next, Step

(* No call starts in a mode that denies it, nor in one that asks about it  *)
(* without the user's answer, whatever the modes were in between.          *)
THEOREM ConsentGiven == Spec => Consent
<1>1. Spec => []Approvals
  <2>1. Approvals /\ [Next]_vars => Approvals' BY NextApprovals
  <2> QED BY <2>1, InitApprovals, PTL DEF Spec
<1>2. ASSUME Approvals, [Next]_vars
      PROVE  [\A c \in Calls : StartsWithConsent(c)]_vars
  BY <1>2, NextApprovals
<1> QED BY <1>1, <1>2, PTL DEF Spec, Consent
-----------------------------------------------------------------------------
(* The places of a finite set of positions are numbered in their order. *)
LEMMA InOrder ==
  ASSUME NEW places \in SUBSET Nat, IsFiniteSet(places)
  PROVE  /\ Cardinality(places) \in Nat
         /\ \A i \in places : Rank(places, i) \in 1..Cardinality(places)
         /\ \A i, j \in places : i < j => Rank(places, i) < Rank(places, j)
         /\ \A k \in 1..Cardinality(places) :
              Nth(places, k) \in places /\ Rank(places, Nth(places, k)) = k
<1> DEFINE upTo(i) == {j \in places : j <= i}
           n == Cardinality(places)
           rank == [i \in places |-> Rank(places, i)]
<1>1. n \in Nat
  BY FS_CardinalityType
<1>2. ASSUME NEW i \in places
      PROVE  IsFiniteSet(upTo(i)) /\ Rank(places, i) \in 1..n
  <2>1. upTo(i) \in SUBSET places /\ i \in upTo(i)
    OBVIOUS
  <2>2. IsFiniteSet(upTo(i)) /\ Cardinality(upTo(i)) \in Nat /\ Cardinality(upTo(i)) <= n
    BY <2>1, FS_Subset, FS_CardinalityType
  <2>3. Cardinality(upTo(i)) # 0
    BY <2>1, <2>2, FS_EmptySet
  <2>4. Rank(places, i) = Cardinality(upTo(i))
    BY DEF Rank
  <2> HIDE DEF upTo, n
  <2> QED
    BY <1>1, <2>2, <2>3, <2>4
<1>3. ASSUME NEW i \in places, NEW j \in places, i < j
      PROVE  Rank(places, i) < Rank(places, j)
  <2>1. upTo(i) \in SUBSET upTo(j) /\ upTo(i) # upTo(j)
    <3>1. i \in Nat /\ j \in Nat /\ \A k \in places : k \in Nat
      OBVIOUS
    <3>2. \A k \in places : k <= i => k <= j
      BY <1>3, <3>1
    <3>3. j \in upTo(j) /\ j \notin upTo(i)
      BY <1>3, <3>1
    <3> QED
      BY <3>2, <3>3
  <2>2. /\ Cardinality(upTo(i)) <= Cardinality(upTo(j))
        /\ Cardinality(upTo(i)) # Cardinality(upTo(j))
    <3> HIDE DEF upTo
    <3> QED
      BY <1>2, <2>1, FS_Subset
  <2>3. Cardinality(upTo(i)) = Rank(places, i) /\ Cardinality(upTo(j)) = Rank(places, j)
    BY DEF Rank
  <2> HIDE DEF upTo
  <2> QED
    BY <1>1, <1>2, <2>2, <2>3
<1>4. rank \in Injection(places, 1..n)
  <2>1. rank \in [places -> 1..n]
    BY <1>2
  <2>2. ASSUME NEW i \in places, NEW j \in places, rank[i] = rank[j] PROVE i = j
    <3>1. Rank(places, i) = Rank(places, j)
      BY <2>2, Zenon
    <3>2. Rank(places, i) \in 1..n
      BY <1>2
    <3> HIDE DEF rank, n
    <3>3. ~(i < j) /\ ~(j < i)
      BY <1>1, <1>3, <3>1, <3>2
    <3> QED
      BY <3>3
  <2> HIDE DEF rank
  <2> QED
    BY <2>1, <2>2 DEF Injection, IsInjective
<1>5. IsFiniteSet(1..n) /\ Cardinality(1..n) = n
  BY <1>1, FS_Interval
<1>6. rank \in Surjection(places, 1..n)
  <2> HIDE DEF rank, n
  <2> QED
    BY <1>4, <1>5, FS_Injection DEF n
<1>7. ASSUME NEW k \in 1..n
      PROVE  Nth(places, k) \in places /\ Rank(places, Nth(places, k)) = k
  <2>1. \E i \in places : Rank(places, i) = k
    BY <1>6 DEF Surjection
  <2> QED
    BY <2>1 DEF Nth
<1> QED
  BY <1>1, <1>2, <1>3, <1>7

(* The positions of a sequence are a finite set of numbers. *)
LEMMA Positions ==
  ASSUME NEW S, NEW s \in Seq(S), NEW places \in SUBSET DOMAIN s
  PROVE  /\ places \in SUBSET Nat /\ IsFiniteSet(places)
         /\ Cardinality(places) \in Nat
<1>1. DOMAIN s = 1..Len(s) /\ Len(s) \in Nat
  OBVIOUS
<1>2. IsFiniteSet(1..Len(s))
  BY <1>1, FS_Interval
<1> QED
  BY <1>1, <1>2, FS_Subset, FS_CardinalityType


(* What is selected of a sequence are elements of it, no place twice.      *)
LEMMA SelectedOnce ==
  ASSUME NEW S, NEW s \in Seq(S), NEW places \in SUBSET DOMAIN s
  PROVE  /\ Selected(s, places) \in Seq(S)
         /\ \A k \in DOMAIN Selected(s, places) :
              \E i \in places : Selected(s, places)[k] = s[i]
         /\ (\A i, j \in DOMAIN s : s[i] = s[j] => i = j) =>
              \A k, l \in DOMAIN Selected(s, places) :
                Selected(s, places)[k] = Selected(s, places)[l] => k = l
<1> DEFINE n == Cardinality(places)
           t == Selected(s, places)
<1>1. /\ n \in Nat
      /\ \A k \in 1..n : Nth(places, k) \in places /\ Rank(places, Nth(places, k)) = k
  BY Positions, InOrder
<1>2. t = [k \in 1..n |-> s[Nth(places, k)]]
  BY DEF Selected
<1>3. \A i \in places : i \in DOMAIN s /\ s[i] \in S
  OBVIOUS
<1> HIDE DEF n, t
<1>4. DOMAIN t = 1..n /\ \A k \in 1..n : Nth(places, k) \in places /\ t[k] = s[Nth(places, k)]
  BY <1>1, <1>2
<1>5. t \in Seq(S)
  BY <1>1, <1>2, <1>3
<1>6. ASSUME \A i, j \in DOMAIN s : s[i] = s[j] => i = j,
             NEW k \in 1..n, NEW l \in 1..n, t[k] = t[l]
      PROVE  k = l
  <2>1. Nth(places, k) = Nth(places, l)
    BY <1>3, <1>4, <1>6
  <2> QED
    BY <1>1, <2>1
<1> QED
  BY <1>4, <1>5, <1>6 DEF t

(* The line when nobody is at its turn, and behind a call that is.         *)
LEMMA Nobody == SetToSeq({}) = <<>>
<1>1. Cardinality({}) = 0
  BY FS_EmptySet
<1>2. 1..0 = {}
  OBVIOUS
<1>3. <<>> \in [1..0 -> {}] /\ \A f \in [1..0 -> {}] : f = <<>>
  BY <1>2
<1>4. IsInjective(<<>>)
  BY DEF IsInjective
<1> QED
  BY <1>1, <1>3, <1>4 DEF SetToSeq

LEMMA LineFrom ==
  ASSUME NEW c \in Calls, NEW p \in Seq(Calls)
  PROVE  SetToSeq({c}) \o p = <<c>> \o p
<1>1. Cardinality({c}) = 1
  BY FS_Singleton
<1>2. <<c>> \in [1..1 -> {c}] /\ \A f \in [1..1 -> {c}] : f = <<c>>
  OBVIOUS
<1>3. IsInjective(<<c>>)
  BY DEF IsInjective
<1> QED
  BY <1>1, <1>2, <1>3 DEF SetToSeq

(* A call's turn is one of the queue in the map, and who stands in that    *)
(* queue waits for a turn of it, once.                                     *)
Waiting(p) ==
  /\ \A i, j \in DOMAIN p : p[i] = p[j] => i = j
  /\ \A i \in DOMAIN p : pc[p[i]] = "waiting" /\ ~Turnless(p[i]) /\ queueOf[p[i]] = current
TurnInv ==
  /\ TypeOK
  /\ OneHolder
  /\ current = 0 <=> Holders = {}
  /\ \A c \in Holders : queueOf[c] = current
  /\ Waiting(Pending)

Queue == [running : BOOLEAN, pending : Seq(Calls)]

LEMMA QueuesTyped == TypeOK => queues \in Seq(Queue)
<1> QED
  BY DEF TypeOK, Queue

LEMMA InitTurns == Init => TurnInv /\ TurnsOfCalls!Init
<1> SUFFICES ASSUME Init PROVE TurnInv /\ TurnsOfCalls!Init
  OBVIOUS
<1>1. Holders = {} /\ current = 0 /\ Pending = <<>>
  BY DEF Init, Holders, Pending
<1>2. TypeOK
  BY DEF Init, TypeOK, Steps
<1>3. TurnInv
  BY <1>1, <1>2 DEF TurnInv, OneHolder, Waiting
<1>4. Line = <<>>
  <2>1. SetToSeq({}) = <<>>
    BY Nobody
  <2> QED
    BY <1>1, <2>1 DEF Line
<1> QED
  BY <1>3, <1>4 DEF TurnsOfCalls!Init

(* The line is empty when the map has no queue, and else the call at its   *)
(* turn with the queue behind it.                                          *)
LEMMA LineShape ==
  ASSUME TurnInv
  PROVE  /\ Pending \in Seq(Calls)
         /\ \/ Holders = {} /\ current = 0 /\ Pending = <<>> /\ Line = <<>>
            \/ \E h \in Calls :
                 /\ Holders = {h} /\ current \in DOMAIN queues /\ current # 0
                 /\ Pending = queues[current].pending
                 /\ Line = <<h>> \o Pending
<1>1. Pending \in Seq(Calls)
  <2>1. CASE current = 0
    BY <2>1 DEF Pending
  <2>2. CASE current # 0
    <3>1. current \in DOMAIN queues
      BY <2>2 DEF TurnInv, TypeOK
    <3>2. queues[current] \in Queue
      BY <3>1, QueuesTyped DEF TurnInv
    <3> QED
      BY <2>2, <3>2 DEF Pending, Queue
  <2> QED
    BY <2>1, <2>2
<1>2. CASE Holders = {}
  <2>1. current = 0 /\ Pending = <<>>
    BY <1>2 DEF TurnInv, Pending
  <2>2. SetToSeq({}) = <<>>
    BY Nobody
  <2> QED
    BY <1>1, <1>2, <2>1, <2>2 DEF Line
<1>3. CASE Holders # {}
  <2>1. PICK h \in Calls : Holders = {h}
    BY <1>3 DEF TurnInv, OneHolder, Holders
  <2>2. current # 0 /\ current \in DOMAIN queues
    BY <1>3 DEF TurnInv, TypeOK
  <2>3. Line = <<h>> \o Pending
    BY <1>1, <2>1, LineFrom DEF Line
  <2> QED
    BY <1>1, <2>1, <2>2, <2>3 DEF Pending
<1> QED
  BY <1>2, <1>3

(* A step that moves no call into or out of the line.                      *)
LEMMA QuietStep ==
  ASSUME TurnInv, TypeOK', UNCHANGED <<safe, queues, current, queueOf>>, Holders' = Holders,
         \A c \in Calls : pc[c] = "waiting" => pc'[c] = "waiting"
  PROVE  TurnInv' /\ Line' = Line
<1>1. Pending' = Pending
  BY DEF Pending
<1>2. Line' = Line
  BY <1>1 DEF Line
<1>3. \A i \in DOMAIN Pending : Pending[i] \in Calls
  BY LineShape
<1> DEFINE p == Pending
<1>4. Waiting(p)'
  <2>1. Waiting(p) /\ p' = p
    BY <1>1 DEF TurnInv
  <2> HIDE DEF p
  <2>2. \A i \in DOMAIN p : p[i] \in Calls
    BY <1>3 DEF p
  <2> QED
    BY <2>1, <2>2 DEF Waiting, Turnless
<1> QED
  BY <1>2, <1>4 DEF TurnInv, OneHolder

(* What the steps of a call that keep its place in the line do.            *)
LEMMA CallMoves ==
  ASSUME TurnInv, safe' = safe, NEW c \in Calls,
         \/ Ask(c) \/ Submit(c) \/ Interrupted(c) \/ Skip(c)
         \/ Start(c) \/ Return(c) \/ WorkOver(c)
  PROVE  TurnInv' /\ Line' = Line
<1>1. UNCHANGED <<safe, queues, current, queueOf>>
  BY DEF Ask, Submit, Interrupted, Skip, Start, Return, WorkOver
<1>2. TypeOK'
  BY <1>1 DEF TurnInv, TypeOK, Steps, Goto, Ask, Submit, Interrupted, Skip, Start, Return, WorkOver
<1>3. /\ Holders' = Holders
      /\ \A d \in Calls : pc[d] = "waiting" => pc'[d] = "waiting"
  BY <1>1 DEF TurnInv, TypeOK, Goto, Holders, Turnless, Ask, Submit, Interrupted, Skip, Start,
              Return, WorkOver
<1> QED
  BY <1>1, <1>2, <1>3, QuietStep

(* A call that finds no queue is the first in its line.                    *)
LEMMA OpenJoins ==
  ASSUME TurnInv, safe' = safe, NEW c \in Calls, Open(c)
  PROVE  TurnInv' /\ TurnsOfCalls!Join(c)
<1> DEFINE n == Len(queues) + 1
           new == [running |-> TRUE, pending |-> <<>>]
<1>1. /\ queues \in Seq([running : BOOLEAN, pending : Seq(Calls)])
      /\ pc \in [Calls -> Steps] /\ queueOf \in [Calls -> 0..Len(queues)]
  BY DEF TurnInv, TypeOK
<1>2. new \in [running : BOOLEAN, pending : Seq(Calls)]
  OBVIOUS
<1>3. /\ queues' = Append(queues, new) /\ current' = n
      /\ queueOf' = [queueOf EXCEPT ![c] = n] /\ pc' = [pc EXCEPT ![c] = "granted"]
      /\ UNCHANGED <<safe, mode, approved, answered, aborted, work>>
      /\ current = 0 /\ pc[c] = "submitted" /\ c \notin safe
  BY DEF Open, Goto, Turnless
<1>4. Holders = {} /\ Line = <<>>
  BY <1>3, LineShape DEF TurnInv
<1>5. Holders' = {c}
  BY <1>1, <1>3, <1>4 DEF Holders, Turnless
<1> HIDE DEF new
<1>6. /\ queues' \in Seq([running : BOOLEAN, pending : Seq(Calls)])
      /\ Len(queues') = n /\ n \in DOMAIN queues' /\ queues'[n] = new
      /\ n \in Nat /\ n # 0 /\ Len(queues) \in Nat
  BY <1>1, <1>2, <1>3
<1>7. new.running = TRUE /\ new.pending = <<>>
  BY DEF new
<1> HIDE DEF n
<1>8. TypeOK'
  <2>1. queueOf' \in [Calls -> 0..Len(queues')]
    <3>1. n \in 0..n /\ \A i \in 0..Len(queues) : i \in 0..n
      BY <1>6 DEF n
    <3> QED
      BY <1>1, <1>3, <1>6, <3>1
  <2>2. pc' \in [Calls -> Steps]
    BY <1>1, <1>3 DEF Steps
  <2>3. current' \in {0} \cup {q \in DOMAIN queues' : queues'[q].running}
    BY <1>3, <1>6, <1>7
  <2> QED
    BY <1>3, <1>6, <2>1, <2>2, <2>3 DEF TurnInv, TypeOK
<1>9. Pending' = <<>>
  BY <1>3, <1>6, <1>7 DEF Pending
<1>10. TurnInv'
  <2>1. queueOf'[c] = current'
    BY <1>1, <1>3
  <2> QED
    BY <1>3, <1>5, <1>6, <1>8, <1>9, <2>1 DEF TurnInv, OneHolder, Waiting
<1>11. Line' = <<c>>
  <2>1. SetToSeq({c}) \o <<>> = <<c>> \o <<>>
    <3>1. <<>> \in Seq(Calls)
      OBVIOUS
    <3> QED
      BY <3>1, LineFrom
  <2>2. <<c>> \o <<>> = <<c>>
    OBVIOUS
  <2> QED
    BY <1>5, <1>9, <2>1, <2>2 DEF Line
<1>12. ~TurnsOfCalls!Contains(Line, c) /\ Append(Line, c) = <<c>>
  BY <1>4 DEF TurnsOfCalls!Contains
<1> QED
  BY <1>10, <1>11, <1>12 DEF TurnsOfCalls!Join

(* A call that finds the workspace taken is the last in the line.          *)
LEMMA WaitJoins ==
  ASSUME TurnInv, safe' = safe, NEW c \in Calls, Wait(c)
  PROVE  TurnInv' /\ TurnsOfCalls!Join(c)
<1> DEFINE p == Pending
           r == Append(p, c)
<1>1. /\ queues \in Seq([running : BOOLEAN, pending : Seq(Calls)])
      /\ pc \in [Calls -> Steps] /\ queueOf \in [Calls -> 0..Len(queues)]
  BY DEF TurnInv, TypeOK
<1>2. /\ queues' = [queues EXCEPT ![current].pending = Append(@, c)]
      /\ queueOf' = [queueOf EXCEPT ![c] = current] /\ pc' = [pc EXCEPT ![c] = "waiting"]
      /\ UNCHANGED <<safe, current, mode, approved, answered, aborted, work>>
      /\ current # 0 /\ pc[c] = "submitted" /\ c \notin safe
  BY DEF Wait, Goto, Turnless
<1>3. PICK h \in Calls : /\ Holders = {h} /\ current \in DOMAIN queues
                         /\ p = queues[current].pending /\ Line = <<h>> \o p
  BY <1>2, LineShape
<1>4. p \in Seq(Calls) /\ Waiting(p)
  BY LineShape DEF TurnInv
<1>5. Holders' = Holders
  BY <1>1, <1>2 DEF Holders, Turnless
<1>6. /\ queues' \in Seq([running : BOOLEAN, pending : Seq(Calls)])
      /\ DOMAIN queues' = DOMAIN queues /\ Len(queues') = Len(queues)
      /\ \A q \in DOMAIN queues : queues'[q].running = queues[q].running
      /\ queues'[current].pending = Append(queues[current].pending, c)
  <2> DEFINE q == [queues[current] EXCEPT !.pending = Append(@, c)]
  <2>1. queues[current] \in Queue
    BY <1>3, QueuesTyped DEF TurnInv
  <2>2. q \in Queue /\ q.running = queues[current].running
        /\ q.pending = Append(queues[current].pending, c)
    BY <2>1 DEF Queue
  <2>3. queues' = [queues EXCEPT ![current] = q]
    BY <1>2
  <2> HIDE DEF q
  <2>4. queues \in Seq(Queue)
    BY QueuesTyped DEF TurnInv
  <2>5. /\ queues' \in Seq(Queue) /\ DOMAIN queues' = DOMAIN queues /\ Len(queues') = Len(queues)
        /\ \A i \in DOMAIN queues : i # current => queues'[i] = queues[i]
        /\ queues'[current] = q
    BY <1>3, <2>2, <2>3, <2>4
  <2> QED
    BY <2>2, <2>5 DEF Queue
<1>7. Pending' = r
  BY <1>2, <1>3, <1>6 DEF Pending
<1> HIDE DEF p
<1>8. TypeOK'
  <2>1. queueOf' \in [Calls -> 0..Len(queues')]
    BY <1>1, <1>2, <1>3, <1>6
  <2>2. pc' \in [Calls -> Steps]
    BY <1>1, <1>2 DEF Steps
  <2>3. current' \in {0} \cup {q \in DOMAIN queues' : queues'[q].running}
    BY <1>2, <1>3, <1>6 DEF TurnInv, TypeOK
  <2> QED
    BY <1>2, <1>6, <2>1, <2>2, <2>3 DEF TurnInv, TypeOK
<1>9. /\ r \in Seq(Calls) /\ DOMAIN r = 1..(Len(p) + 1) /\ Len(p) \in Nat
      /\ \A i \in 1..Len(p) : i \in DOMAIN p /\ r[i] = p[i]
      /\ r[Len(p) + 1] = c
  BY <1>4
<1>10. ASSUME NEW i \in DOMAIN r PROVE i \in 1..Len(p) \/ i = Len(p) + 1
  BY <1>9
<1> HIDE DEF r
<1>11. \A i \in 1..Len(p) : p[i] \in Calls /\ p[i] # c /\ pc[p[i]] = "waiting" /\ p[i] \notin safe
                               /\ queueOf[p[i]] = current
  BY <1>2, <1>4, <1>9 DEF Waiting, Turnless
<1>12. \A i \in DOMAIN r : pc'[r[i]] = "waiting" /\ r[i] \notin safe' /\ queueOf'[r[i]] = current'
  <2> TAKE i \in DOMAIN r
  <2>1. CASE i \in 1..Len(p)
    <3>1. r[i] = p[i]
      BY <1>9, <2>1
    <3> QED
      BY <1>1, <1>2, <1>11, <2>1, <3>1
  <2>2. CASE i = Len(p) + 1
    BY <1>1, <1>2, <1>9, <2>2
  <2> QED
    BY <1>10, <2>1, <2>2
<1>13. \A i, j \in DOMAIN r : r[i] = r[j] => i = j
  <2> SUFFICES ASSUME NEW i \in DOMAIN r, NEW j \in DOMAIN r, r[i] = r[j] PROVE i = j
    OBVIOUS
  <2>1. CASE i \in 1..Len(p) /\ j \in 1..Len(p)
    BY <1>4, <1>9, <2>1 DEF Waiting
  <2>2. CASE i \in 1..Len(p) /\ j = Len(p) + 1
    BY <1>9, <1>11, <2>2
  <2>3. CASE i = Len(p) + 1 /\ j \in 1..Len(p)
    BY <1>9, <1>11, <2>3
  <2> QED
    BY <1>10, <2>1, <2>2, <2>3
<1>14. TurnInv'
  <2>1. Waiting(Pending)'
    BY <1>7, <1>12, <1>13 DEF Waiting, Turnless
  <2>2. h # c /\ queueOf'[h] = current'
    <3>1. pc[h] # "submitted" /\ queueOf[h] = current
      BY <1>3 DEF Holders, TurnInv
    <3> QED
      BY <1>1, <1>2, <3>1
  <2> QED
    BY <1>2, <1>3, <1>5, <1>8, <2>1, <2>2 DEF TurnInv, OneHolder
<1>15. Line' = Append(Line, c)
  <2>1. Line' = <<h>> \o r
    BY <1>3, <1>5, <1>7, <1>9, LineFrom DEF Line
  <2>2. <<h>> \o Append(p, c) = Append(<<h>> \o p, c)
    BY <1>4
  <2> QED
    BY <1>3, <2>1, <2>2 DEF r
<1>16. ~TurnsOfCalls!Contains(Line, c)
  <2>1. h # c
    BY <1>2, <1>3 DEF Holders
  <2>2. DOMAIN (<<h>> \o p) = 1..(Len(p) + 1) /\ (<<h>> \o p)[1] = h
        /\ \A i \in 1..(Len(p) + 1) : i # 1 => (<<h>> \o p)[i] = p[i - 1] /\ i - 1 \in 1..Len(p)
    BY <1>4
  <2>3. \A i \in DOMAIN Line : Line[i] # c
    BY <1>3, <1>11, <2>1, <2>2
  <2>4. Len(<<h>> \o p) = Len(p) + 1
    BY <1>4
  <2>5. 1..Len(Line) = DOMAIN Line
    BY <1>3, <2>2, <2>4
  <2> QED
    BY <2>3, <2>5 DEF TurnsOfCalls!Contains
<1> QED
  BY <1>14, <1>15, <1>16 DEF TurnsOfCalls!Join

(* The calls an abort takes out of the line leave the others in order.     *)
Staying(p, gone) == Selected(p, {i \in DOMAIN p : p[i] \notin gone})

LEMMA StayingOnce ==
  ASSUME NEW p \in Seq(Calls), NEW gone
  PROVE  /\ Staying(p, gone) \in Seq(Calls)
         /\ \A k \in DOMAIN Staying(p, gone) :
              \E i \in DOMAIN p : Staying(p, gone)[k] = p[i] /\ p[i] \notin gone
         /\ (\A i, j \in DOMAIN p : p[i] = p[j] => i = j) =>
              \A k, l \in DOMAIN Staying(p, gone) :
                Staying(p, gone)[k] = Staying(p, gone)[l] => k = l
<1> DEFINE places == {i \in DOMAIN p : p[i] \notin gone}
<1>1. places \in SUBSET DOMAIN p /\ \A i \in places : i \in DOMAIN p /\ p[i] \notin gone
  OBVIOUS
<1> HIDE DEF places
<1>2. /\ Selected(p, places) \in Seq(Calls)
      /\ \A k \in DOMAIN Selected(p, places) : \E i \in places : Selected(p, places)[k] = p[i]
      /\ (\A i, j \in DOMAIN p : p[i] = p[j] => i = j) =>
           \A k, l \in DOMAIN Selected(p, places) :
             Selected(p, places)[k] = Selected(p, places)[l] => k = l
  BY <1>1, SelectedOnce
<1>3. Staying(p, gone) = Selected(p, places)
  BY DEF Staying, places
<1> QED
  BY <1>1, <1>2, <1>3

LEMMA AbortLeaves ==
  ASSUME TurnInv, safe' = safe, NEW sig \in Signals, Abort(sig)
  PROVE  TurnInv' /\ (Line' = Line \/ \E gone \in SUBSET Calls : TurnsOfCalls!Leave(gone))
<1> DEFINE gone == {c \in Calls : pc[c] = "waiting" /\ SignalOf[c] = sig}
           after(q) == [queues[q] EXCEPT !.pending = Staying(queues[q].pending, gone)]
           p == Pending
           r == Staying(p, gone)
<1>1. queues \in Seq(Queue) /\ pc \in [Calls -> Steps]
  BY QueuesTyped DEF TurnInv, TypeOK
<1>2. /\ queues' = [q \in DOMAIN queues |-> after(q)]
      /\ pc' = [c \in Calls |-> IF c \in gone THEN "done" ELSE pc[c]]
      /\ aborted' = aborted \cup {sig}
      /\ UNCHANGED <<safe, current, queueOf, mode, approved, answered, work>>
  BY DEF Abort, Staying
<1>3. gone \in SUBSET Calls /\ \A c \in gone : pc[c] = "waiting"
  OBVIOUS
<1> HIDE DEF gone
<1>4. ASSUME NEW q \in DOMAIN queues
      PROVE  /\ after(q) \in Queue /\ after(q).running = queues[q].running
             /\ after(q).pending = Staying(queues[q].pending, gone)
  <2>1. queues[q] \in Queue
    BY <1>1
  <2>2. queues[q].pending \in Seq(Calls)
    BY <2>1 DEF Queue
  <2>3. Staying(queues[q].pending, gone) \in Seq(Calls)
    BY <2>2, StayingOnce
  <2> QED
    BY <2>1, <2>3 DEF Queue
<1> HIDE DEF after
<1>5. /\ queues' \in Seq(Queue) /\ DOMAIN queues' = DOMAIN queues /\ Len(queues') = Len(queues)
      /\ \A q \in DOMAIN queues : queues'[q] = after(q)
  BY <1>1, <1>2, <1>4
<1>6. Holders' = Holders
  BY <1>2, <1>3 DEF Holders, Turnless
<1>7. TypeOK'
  <2>1. pc' \in [Calls -> Steps]
    BY <1>1, <1>2 DEF Steps
  <2>2. current' \in {0} \cup {q \in DOMAIN queues' : queues'[q].running}
    BY <1>2, <1>4, <1>5 DEF TurnInv, TypeOK
  <2> QED
    BY <1>2, <1>5, <2>1, <2>2 DEF TurnInv, TypeOK, Queue
<1>8. p \in Seq(Calls) /\ Waiting(p)
  BY LineShape DEF TurnInv
<1>9. CASE Holders = {}
  <2>1. current = 0 /\ Line = <<>> /\ Pending' = <<>>
    BY <1>2, <1>9, LineShape DEF TurnInv, Pending
  <2>2. Line' = Line
    BY <1>2, <1>6, <2>1 DEF Line, Pending
  <2> QED
    BY <1>2, <1>6, <1>7, <2>1, <2>2 DEF TurnInv, OneHolder, Waiting
<1>10. CASE Holders # {}
  <2>1. PICK h \in Calls : /\ Holders = {h} /\ current \in DOMAIN queues /\ current # 0
                           /\ p = queues[current].pending /\ Line = <<h>> \o p
    BY <1>10, LineShape
  <2>2. Pending' = r
    BY <1>2, <1>4, <1>5, <2>1 DEF Pending
  <2> HIDE DEF p
  <2>3. /\ r \in Seq(Calls)
        /\ \A k \in DOMAIN r : \E i \in DOMAIN p : r[k] = p[i] /\ p[i] \notin gone
        /\ \A k, l \in DOMAIN r : r[k] = r[l] => k = l
    BY <1>8, StayingOnce DEF Waiting
  <2>4. Line' = <<h>> \o r
    BY <1>6, <2>1, <2>2, <2>3, LineFrom DEF Line
  <2>5. Line # <<>> /\ Head(Line) = h /\ Tail(Line) = p
    BY <1>8, <2>1
  <2>6. TurnsOfCalls!Leave(gone)
    <3>1. r = TurnsOfCalls!Selected(p, {i \in DOMAIN p : p[i] \notin gone})
      BY DEF Staying, Selected, TurnsOfCalls!Selected, Nth, TurnsOfCalls!Nth,
             Rank, TurnsOfCalls!Rank, Cardinality, TurnsOfCalls!Cardinality
    <3> HIDE DEF r
    <3> QED
      BY <2>4, <2>5, <3>1 DEF TurnsOfCalls!Leave
  <2> HIDE DEF r
  <2>7. Waiting(Pending)'
    <3>1. \A k \in DOMAIN r : pc'[r[k]] = "waiting" /\ r[k] \notin safe' /\ queueOf'[r[k]] = current'
      <4> TAKE k \in DOMAIN r
      <4>1. PICK i \in DOMAIN p : r[k] = p[i] /\ p[i] \notin gone
        BY <2>3
      <4>2. p[i] \in Calls /\ pc[p[i]] = "waiting" /\ p[i] \notin safe /\ queueOf[p[i]] = current
        BY <1>8 DEF Waiting, Turnless
      <4> QED
        BY <1>2, <4>1, <4>2
    <3> QED
      BY <2>2, <2>3, <3>1 DEF Waiting, Turnless
  <2>8. TurnInv'
    BY <1>2, <1>6, <1>7, <2>7 DEF TurnInv, OneHolder
  <2> QED
    BY <1>3, <2>6, <2>8
<1> QED
  BY <1>9, <1>10

(* The release of a turn takes its call out of the line.                   *)
LEMMA ReleasePasses ==
  ASSUME TurnInv, NEW c \in Calls, pc[c] \in {"granted", "returned"}, Release(c),
         UNCHANGED <<safe, queueOf, mode, approved, answered, aborted, work>>
  PROVE  TurnInv' /\ (Line' = Line \/ TurnsOfCalls!Finish)
<1> DEFINE step == [pc EXCEPT ![c] = "done"]
           p == Pending
<1>1. queues \in Seq(Queue) /\ pc \in [Calls -> Steps]
  BY QueuesTyped DEF TurnInv, TypeOK
<1>2. /\ step \in [Calls -> Steps] /\ step[c] = "done"
      /\ \A d \in Calls : d # c => step[d] = pc[d]
  BY <1>1 DEF Steps
<1>3. CASE Turnless(c)
  <2>1. pc' = step /\ UNCHANGED <<queues, current>>
    BY <1>3 DEF Release
  <2> HIDE DEF step
  <2>2. Holders' = Holders
    BY <1>2, <1>3, <2>1 DEF Holders, Turnless
  <2>3. TypeOK'
    BY <1>2, <2>1 DEF TurnInv, TypeOK
  <2>4. \A d \in Calls : pc[d] = "waiting" => pc'[d] = "waiting"
    BY <1>2, <2>1
  <2> QED
    BY <2>1, <2>2, <2>3, <2>4, QuietStep
<1>4. CASE ~Turnless(c)
  <2> HIDE DEF step
  <2>1. c \in Holders
    BY <1>4 DEF Holders
  <2>2. /\ Holders = {c} /\ queueOf[c] = current /\ current \in DOMAIN queues /\ current # 0
        /\ p = queues[current].pending /\ Line = <<c>> \o p
    <3>1. queueOf[c] = current
      BY <2>1 DEF TurnInv
    <3> QED
      BY <2>1, <3>1, LineShape
  <2>3. p \in Seq(Calls) /\ Waiting(p)
    BY LineShape DEF TurnInv
  <2>4. HandOver(current, step)
    BY <1>4, <2>2 DEF Release, step
  <2>5. CASE p = <<>>
    <3>1. /\ pc' = step /\ current' = 0
          /\ queues' = [queues EXCEPT ![current].running = FALSE]
      BY <2>2, <2>4, <2>5 DEF HandOver
    <3>2. Holders' = {}
      BY <1>2, <2>2, <3>1 DEF Holders, Turnless
    <3>3. queues' \in Seq(Queue) /\ Len(queues') = Len(queues)
      <4> DEFINE q == [queues[current] EXCEPT !.running = FALSE]
      <4>1. queues[current] \in Queue
        BY <1>1, <2>2
      <4>2. q \in Queue
        BY <4>1 DEF Queue
      <4>3. queues' = [queues EXCEPT ![current] = q]
        BY <3>1
      <4> HIDE DEF q
      <4> QED
        BY <1>1, <2>2, <4>2, <4>3
    <3>4. TypeOK'
      BY <1>2, <3>1, <3>3 DEF TurnInv, TypeOK, Queue
    <3>5. Pending' = <<>> /\ Line' = <<>>
      <4>1. Pending' = <<>>
        BY <3>1 DEF Pending
      <4>2. SetToSeq({}) \o <<>> = <<>>
        BY Nobody
      <4> QED
        BY <3>2, <4>1, <4>2 DEF Line
    <3>6. TurnInv'
      BY <3>1, <3>2, <3>4, <3>5 DEF TurnInv, OneHolder, Waiting
    <3>7. Line = <<c>>
      BY <2>2, <2>5
    <3> QED
      BY <3>5, <3>6, <3>7 DEF TurnsOfCalls!Finish
  <2>6. CASE p # <<>>
    <3> DEFINE n == Head(p)
               r == Tail(p)
    <3>1. /\ pc' = Granted(n, step) /\ current' = current
          /\ queues' = [queues EXCEPT ![current].pending = Tail(@)]
      BY <2>2, <2>4, <2>6 DEF HandOver
    <3> HIDE DEF p
    <3>2. /\ n \in Calls /\ r \in Seq(Calls) /\ n = p[1] /\ 1 \in DOMAIN p /\ p = <<n>> \o r
          /\ \A i \in DOMAIN r : i + 1 \in DOMAIN p /\ r[i] = p[i + 1] /\ i + 1 # 1 /\ i \in Nat
      BY <2>3, <2>6
    <3>3. r = Tail(p)
      OBVIOUS
    <3> HIDE DEF n, r
    <3>4. pc[n] = "waiting" /\ n \notin safe /\ n # c
      BY <2>3, <3>2 DEF Waiting, Turnless
    <3>5. /\ pc' \in [Calls -> Steps] /\ pc'[n] = "granted" /\ pc'[c] = "done"
          /\ \A d \in Calls : d # c /\ d # n => pc'[d] = pc[d]
      BY <1>2, <3>1, <3>2, <3>4 DEF Granted, Steps
    <3>6. Holders' = {n}
      BY <2>2, <3>2, <3>4, <3>5 DEF Holders, Turnless
    <3>7. /\ queues' \in Seq(Queue) /\ Len(queues') = Len(queues) /\ DOMAIN queues' = DOMAIN queues
          /\ queues'[current].running = queues[current].running
          /\ queues'[current].pending = r
      <4> DEFINE q == [queues[current] EXCEPT !.pending = r]
      <4>1. queues[current] \in Queue
        BY <1>1, <2>2
      <4>2. q \in Queue /\ q.running = queues[current].running /\ q.pending = r
        BY <3>2, <4>1 DEF Queue
      <4>3. queues' = [queues EXCEPT ![current] = q]
        BY <2>2, <3>1, <3>3
      <4> HIDE DEF q
      <4> QED
        BY <1>1, <2>2, <4>2, <4>3
    <3>8. TypeOK'
      <4>1. current' \in {0} \cup {q \in DOMAIN queues' : queues'[q].running}
        BY <2>2, <3>1, <3>7 DEF TurnInv, TypeOK
      <4> QED
        BY <3>5, <3>7, <4>1 DEF TurnInv, TypeOK, Queue
    <3>9. Pending' = r
      BY <2>2, <3>1, <3>7 DEF Pending
    <3>10. Waiting(Pending)'
      <4>1. ASSUME NEW i \in DOMAIN r
            PROVE  pc'[r[i]] = "waiting" /\ r[i] \notin safe' /\ queueOf'[r[i]] = current'
        <5>1. r[i] = p[i + 1] /\ i + 1 \in DOMAIN p /\ i + 1 # 1
          BY <3>2
        <5>2. r[i] \in Calls /\ r[i] # n /\ pc[r[i]] = "waiting" /\ r[i] \notin safe
              /\ queueOf[r[i]] = current
          BY <2>3, <3>2, <5>1 DEF Waiting, Turnless
        <5> QED
          BY <3>1, <3>5, <5>2
      <4>2. ASSUME NEW i \in DOMAIN r, NEW j \in DOMAIN r, r[i] = r[j] PROVE i = j
        <5>1. i + 1 = j + 1
          BY <2>3, <3>2, <4>2 DEF Waiting
        <5> QED
          BY <3>2, <5>1
      <4> QED
        BY <3>9, <4>1, <4>2 DEF Waiting, Turnless
    <3>11. TurnInv'
      <4>1. queueOf'[n] = current'
        <5>1. queueOf[n] = current
          BY <2>3, <3>2 DEF Waiting
        <5> QED
          BY <3>1, <5>1
      <4> QED
        BY <2>2, <3>1, <3>6, <3>8, <3>10, <4>1 DEF TurnInv, OneHolder
    <3>12. Line' = p
      BY <3>2, <3>6, <3>9, LineFrom DEF Line
    <3>13. Line # <<>> /\ Tail(Line) = p
      BY <2>2, <2>3
    <3> QED
      BY <3>11, <3>12, <3>13 DEF TurnsOfCalls!Finish
  <2> QED
    BY <2>5, <2>6
<1> QED
  BY <1>3, <1>4

(* Every step of the calls is a step of their turns, or none.              *)
LEMMA NextTurns ==
  ASSUME TurnInv, [Next]_vars
  PROVE  TurnInv' /\ [TurnsOfCalls!Next]_Line
<1> safe' = safe
  BY DEF Next, vars
<1>1. ASSUME NEW c \in Calls,
             \/ Ask(c) \/ Submit(c) \/ Interrupted(c) \/ Skip(c)
             \/ Start(c) \/ Return(c) \/ WorkOver(c)
      PROVE  TurnInv' /\ [TurnsOfCalls!Next]_Line
  BY <1>1, CallMoves
<1>2. ASSUME NEW c \in Calls, Open(c) PROVE TurnInv' /\ [TurnsOfCalls!Next]_Line
  BY <1>2, OpenJoins DEF TurnsOfCalls!Next
<1>3. ASSUME NEW c \in Calls, Wait(c) PROVE TurnInv' /\ [TurnsOfCalls!Next]_Line
  BY <1>3, WaitJoins DEF TurnsOfCalls!Next
<1>4. ASSUME NEW c \in Calls, Refuse(c) \/ Finish(c)
      PROVE  TurnInv' /\ [TurnsOfCalls!Next]_Line
  <2>1. /\ pc[c] \in {"granted", "returned"} /\ Release(c)
        /\ UNCHANGED <<safe, queueOf, mode, approved, answered, aborted, work>>
    BY <1>4 DEF Refuse, Finish
  <2> QED
    BY <2>1, ReleasePasses DEF TurnsOfCalls!Next
<1>5. ASSUME NEW sig \in Signals, Abort(sig) PROVE TurnInv' /\ [TurnsOfCalls!Next]_Line
  <2>1. TurnInv' /\ (Line' = Line \/ \E gone \in SUBSET Calls : TurnsOfCalls!Leave(gone))
    BY <1>5, AbortLeaves
  <2>2. ASSUME \E gone \in SUBSET Calls : TurnsOfCalls!Leave(gone) PROVE TurnsOfCalls!Next
    BY <2>2 DEF TurnsOfCalls!Next
  <2> QED
    BY <2>1, <2>2
<1>6. ASSUME (\E m \in Modes : SetMode(m)) \/ UNCHANGED vars
      PROVE  TurnInv' /\ [TurnsOfCalls!Next]_Line
  <2>1. UNCHANGED <<safe, queues, current, queueOf, pc>>
    BY <1>6 DEF SetMode, vars
  <2>2. TypeOK'
    BY <1>6 DEF SetMode, vars, TurnInv, TypeOK
  <2>3. Holders' = Holders /\ \A d \in Calls : pc'[d] = pc[d]
    BY <2>1 DEF Holders, Turnless
  <2>4. TurnInv' /\ Line' = Line
    BY <2>1, <2>2, <2>3, QuietStep
  <2> QED
    BY <2>4
<1> QED
  BY <1>1, <1>2, <1>3, <1>4, <1>5, <1>6 DEF Next, Step

(* Whatever calls come, are aborted or refused, and whichever queue object *)
(* they hold, they take their turns in the order they asked, one at a time *)
(* (acquireWorkspaceMutation): the queues implement Turns.                 *)
THEOREM CallsTakeTurns == Spec => TakesTurns
<1>1. Init => TurnInv /\ TurnsOfCalls!Init
  BY InitTurns
<1>2. TurnInv /\ [Next]_vars => TurnInv'
  BY NextTurns
<1>3. TurnInv /\ [Next]_vars => [TurnsOfCalls!Next]_Line
  BY NextTurns
<1>4. TurnInv => TypeOK
  BY DEF TurnInv
<1> QED
  BY <1>1, <1>2, <1>3, <1>4, PTL DEF Spec, TakesTurns, TurnsOfCalls!Spec
-----------------------------------------------------------------------------
(* ShellCommand: a command and what may end it.                            *)

(* Until there is a process nothing is armed and no flag is set.           *)
BeforeSpawn ==
  /\ call = "preparing" => /\ flags = {} /\ armed = {} /\ alive = {}
                           /\ outcome = "open" /\ result = "none" /\ ~processDone
  /\ "spawned" \notin flags /\ call # "preparing" =>
       /\ flags = {} /\ armed = {} /\ alive = {} /\ outcome = "resolved" /\ result # "background"

(* A command in the foreground keeps its turn until its shell has ended.   *)
InForeground ==
  /\ "aborted" \in flags \/ "timedOut" \in flags => "terminating" \in flags
  /\ "spawned" \in flags /\ "backgrounded" \notin flags =>
       IF "exited" \in flags THEN armed = {} ELSE outcome = "open" /\ ~processDone
  /\ "exited" \in flags => "shell" \notin alive
  /\ outcome = "finalizing" => result # "none"

(* One that was moved was not told to end, nothing of the foreground can   *)
(* reach it, and the cleanup at the exit is armed while its shell lives.   *)
InBackground ==
  /\ "backgrounded" \in flags =>
       /\ "spawned" \in flags /\ "aborted" \notin flags /\ "timedOut" \notin flags
       /\ armed \cap {"timeout", "abort", "key"} = {}
  /\ result = "background" =>
       /\ "backgrounded" \in flags
       /\ \/ "exited" \in flags
          \/ host = "up" /\ "sweep" \in armed
          \/ host = "gone" /\ "shell" \notin alive

ShellInv == ShellTypeOK /\ BeforeSpawn /\ InForeground /\ InBackground

LEMMA InitShell == ShellInit => ShellInv
<1>1. 0 \in Nat OBVIOUS
<1> QED BY <1>1 DEF ShellInit, ShellInv, ShellTypeOK, BeforeSpawn, InForeground, InBackground

(* A signal to the group ends processes and starts none.                   *)
LEMMA KillTreeShrinks ==
  ASSUME ShellInv, NEW signal, KillTree(signal)
  PROVE  /\ alive' \subseteq alive
         /\ signal = "SIGKILL" => "exited" \in flags \/ alive' = {}
BY DEF KillTree, Set

LEMMA TerminateTells ==
  ASSUME ShellInv, NEW reason, NEW timers, Terminate(reason, timers)
  PROVE  /\ flags' = flags \cup {reason, "terminating"}
         /\ armed' = timers \/ armed' = timers \cup {"escalate"}
         /\ alive' \subseteq alive
<1>1. CASE "terminating" \in flags
  BY <1>1 DEF Terminate, Set
<1>2. CASE "terminating" \notin flags
  <2>1. KillTree("SIGTERM") BY <1>2 DEF Terminate, Set
  <2>2. alive' \subseteq alive BY <2>1, KillTreeShrinks
  <2> QED BY <1>2, <2>2 DEF Terminate, Set
<1> QED BY <1>1, <1>2

(* The abort, the timeout and the output cap tell a command to end; the    *)
(* first two no longer reach one that was moved.                           *)
LEMMA TellKeeps ==
  ASSUME ShellInv, signalled' \in BOOLEAN,
         UNCHANGED <<config, call, outcome, result, processDone, task, host, cleanups>>,
         \/ "abort" \in armed /\ Terminate("aborted", armed \ {"abort"})
         \/ "timeout" \in armed /\ Terminate("timedOut", armed \ {"timeout"})
         \/ "watchdog" \in armed /\ Terminate("sizeKilled", armed \ {"watchdog"})
  PROVE  ShellInv'
<1>1. PICK reason \in {"aborted", "timedOut", "sizeKilled"},
           timer \in {"abort", "timeout", "watchdog"} :
        /\ timer \in armed /\ Terminate(reason, armed \ {timer})
        /\ reason # "sizeKilled" => timer # "watchdog"
  OBVIOUS
<1>2. /\ flags' = flags \cup {reason, "terminating"}
      /\ armed' = armed \ {timer} \/ armed' = (armed \ {timer}) \cup {"escalate"}
      /\ alive' \subseteq alive
  BY <1>1, TerminateTells
<1>3. "spawned" \in flags /\ call # "preparing"
  BY <1>1 DEF ShellInv, BeforeSpawn
<1>4. "backgrounded" \in flags => reason = "sizeKilled"
  BY <1>1 DEF ShellInv, InBackground
<1>5. "exited" \in flags => "backgrounded" \in flags
  BY <1>1, <1>3 DEF ShellInv, InForeground
<1>6. ShellTypeOK'
  <2>1. flags' \subseteq Flags
    BY <1>2 DEF ShellInv, ShellTypeOK, Flags
  <2>2. armed' \subseteq Timers
    BY <1>2 DEF ShellInv, ShellTypeOK, Timers
  <2>3. call' = "returned" =>
          outcome' = "resolved" /\ armed' \subseteq {"watchdog", "escalate", "sweep"}
    BY <1>2 DEF ShellInv, ShellTypeOK
  <2> QED BY <1>2, <2>1, <2>2, <2>3 DEF ShellInv, ShellTypeOK, Flags, Timers
<1>7. BeforeSpawn'
  BY <1>2, <1>3 DEF ShellInv, BeforeSpawn
<1>8. InForeground'
  BY <1>2, <1>3, <1>5 DEF ShellInv, InForeground
<1>9. InBackground'
  BY <1>2, <1>4 DEF ShellInv, InBackground
<1> QED
  BY <1>2, <1>6, <1>7, <1>8, <1>9 DEF ShellInv

(* A command that nothing has told to end is moved to the background.      *)
LEMMA MoveKeeps ==
  ASSUME ShellInv, "spawned" \in flags, MayBackground, Background(armed),
         host = "up", UNCHANGED <<config, call, alive, signalled, host, cleanups>>
  PROVE  ShellInv'
<1> USE DEF ShellInv, MayBackground, Background, Set
<1>1. ShellTypeOK' BY DEF ShellTypeOK, Flags, Timers, BeforeSpawn
<1>2. BeforeSpawn' BY DEF BeforeSpawn
<1>3. InForeground' BY DEF InForeground
<1>4. InBackground' BY DEF InBackground, InForeground
<1> QED BY <1>1, <1>2, <1>3, <1>4

LEMMA NextShell == ShellInv /\ [ShellNext]_shellVars => ShellInv'
<1> SUFFICES ASSUME ShellInv, [ShellNext]_shellVars PROVE ShellInv' OBVIOUS
<1> USE DEF ShellInv, ShellTypeOK, Flags, Timers, BeforeSpawn, InForeground,
            InBackground, Set
<1>1. CASE NotStarted BY <1>1 DEF NotStarted
<1>2. CASE SpawnThrows BY <1>2 DEF SpawnThrows
<1>3. CASE Spawn
  <2>1. ShellTypeOK' BY <1>3 DEF Spawn, Background, BackgroundThrows
  <2>2. BeforeSpawn' BY <1>3 DEF Spawn, Background, BackgroundThrows
  <2>3. InForeground' BY <1>3 DEF Spawn, Background, BackgroundThrows
  <2>4. InBackground'
    BY <1>3 DEF Spawn, Background, BackgroundThrows
  <2> QED BY <2>1, <2>2, <2>3, <2>4
<1>4. CASE OnAbort
  <2>1. CASE "abort" \in armed
    <3>1. /\ signalled' \in BOOLEAN /\ Terminate("aborted", armed \ {"abort"})
          /\ UNCHANGED <<config, call, outcome, result, processDone, task, host, cleanups>>
      BY <1>4, <2>1 DEF OnAbort
    <3> QED BY <2>1, <3>1, TellKeeps
  <2>2. CASE "abort" \notin armed
    <3>1. /\ signalled' = TRUE
          /\ UNCHANGED <<flags, armed, alive, config, call, outcome, result,
                         processDone, task, host, cleanups>>
      BY <1>4, <2>2 DEF OnAbort
    <3> QED BY <3>1
  <2> QED BY <2>1, <2>2
<1>5. CASE Timeout
  <2>1. "timeout" \in armed /\ host = "up" /\ UNCHANGED <<config, call, signalled, cleanups>>
        /\ "spawned" \in flags /\ signalled' \in BOOLEAN
    BY <1>5 DEF Timeout
  <2>2. CASE MayBackground /\ config.records
    <3>1. Background(armed) /\ UNCHANGED <<alive, host>>
      BY <1>5, <2>2 DEF Timeout
    <3> QED BY <2>1, <2>2, <3>1, MoveKeeps
  <2>3. CASE MayBackground /\ ~config.records
    <3>1. /\ flags' = flags \cup {"spawned", "backgrounded", "settled"}
          /\ armed' = armed \ {"timeout", "abort", "key"}
          /\ processDone' = TRUE /\ task' = "running" /\ host' = "gone"
          /\ UNCHANGED <<outcome, result, alive>>
      BY <1>5, <2>3 DEF Timeout, BackgroundThrows
    <3>2. flags' \subseteq Flags /\ armed' \subseteq Timers BY <3>1
    <3>3. call # "returned" BY <2>1
    <3>4. ShellTypeOK' BY <2>1, <3>1, <3>2, <3>3
    <3> QED BY <2>1, <2>3, <3>1, <3>4 DEF MayBackground
  <2>4. CASE ~MayBackground
    <3>1. /\ Terminate("timedOut", armed \ {"timeout"})
          /\ UNCHANGED <<outcome, result, processDone, task, host>>
      BY <1>5, <2>4 DEF Timeout
    <3> QED BY <2>1, <3>1, TellKeeps
  <2> QED BY <2>2, <2>3, <2>4
<1>6. CASE UserBackground
  BY <1>6 DEF UserBackground, MayBackground, Background,
              BackgroundThrows
<1>7. CASE SizeExceeded
  <2>1. /\ "watchdog" \in armed /\ Terminate("sizeKilled", armed \ {"watchdog"})
        /\ signalled' \in BOOLEAN
        /\ UNCHANGED <<config, call, outcome, result, processDone, task, host, cleanups>>
    BY <1>7 DEF SizeExceeded
  <2> QED BY <2>1, TellKeeps
<1>8. CASE Escalate BY <1>8, KillTreeShrinks DEF Escalate
<1>9. CASE \E process \in {"shell", "child"} : ProcessEnds(process)
  BY <1>9 DEF ProcessEnds
<1>10. CASE Close
  <2>1. ShellTypeOK' BY <1>10 DEF Close
  <2>2. BeforeSpawn' BY <1>10 DEF Close
  <2>3. InForeground' BY <1>10 DEF Close
  <2>4. InBackground' BY <1>10 DEF Close
  <2> QED BY <2>1, <2>2, <2>3, <2>4
<1>11. CASE Finalize BY <1>11 DEF Finalize
<1>12. CASE CommandReturns BY <1>12 DEF CommandReturns
<1>13. CASE TaskStop BY <1>13, KillTreeShrinks DEF TaskStop
<1>14. CASE TaskEnds BY <1>14 DEF TaskEnds
<1>15. CASE ProgramDies BY <1>15, KillTreeShrinks DEF ProgramDies
<1>16. CASE UNCHANGED shellVars BY <1>16 DEF shellVars
<1> QED
  BY <1>1, <1>2, <1>3, <1>4, <1>5, <1>6, <1>7, <1>8, <1>9, <1>10, <1>11, <1>12, <1>13,
     <1>14, <1>15, <1>16 DEF ShellNext

LEMMA ShellStays == ShellSpec => []ShellInv
<1>1. ShellInit => ShellInv BY InitShell
<1>2. ShellInv /\ [ShellNext]_shellVars => ShellInv' BY NextShell
<1> QED BY <1>1, <1>2, PTL DEF ShellSpec

(* The shell of a command is never left alone, whatever becomes of the     *)
(* command, of its timers and of the program: told to end it stays in the  *)
(* foreground, there the turn outlasts it, and the end of the program      *)
(* takes along one in the background (startCommand, withCommandExecution,  *)
(* backgroundExecution).                                                   *)
THEOREM TurnOutlastsShell == ShellSpec => []TurnCoversShell
<1>1. ShellInv => TurnCoversShell
  BY DEF ShellInv, ShellTypeOK, BeforeSpawn, InForeground, InBackground,
         TurnCoversShell, ToldToEnd, TurnOver, Set
<1> QED BY <1>1, ShellStays, PTL

(* The sandbox is up for as long as somebody has still to take it down:    *)
(* the call, or the background task the command was moved to.              *)
InSandbox ==
  /\ cleanups \in 0..1
  /\ call = "preparing" => cleanups = 0
  /\ task = "none" <=> "backgrounded" \notin flags
  /\ "backgrounded" \in flags =>
       outcome # "finalizing" /\ result \in {"none", "error", "background"}
  /\ cleanups = 1 /\ "spawned" \in flags =>
       /\ "exited" \in flags
       /\ IF "backgrounded" \in flags THEN task \in {"completed", "failed", "cancelled"}
          ELSE outcome = "resolved"
  /\ cleanups = 0 =>
       /\ task \notin {"completed", "failed", "cancelled"}
       /\ "backgrounded" \notin flags /\ outcome = "resolved" => result = "error"

LEMMA NextSandbox ==
  ShellInv /\ InSandbox /\ [ShellNext]_shellVars => InSandbox'
<1> SUFFICES ASSUME ShellInv, InSandbox, [ShellNext]_shellVars PROVE InSandbox' OBVIOUS
<1> USE DEF InSandbox, BeforeSpawn, InForeground, InBackground, Set
<1>1. CASE NotStarted BY <1>1 DEF NotStarted, ShellInv
<1>2. CASE SpawnThrows BY <1>2 DEF SpawnThrows, ShellInv
<1>3. CASE Spawn BY <1>3 DEF Spawn, Background, BackgroundThrows, ShellInv
<1>4. CASE OnAbort \/ SizeExceeded \/ (Timeout /\ ~MayBackground)
  <2>1. UNCHANGED <<cleanups, call, task, outcome, result>>
    BY <1>4 DEF OnAbort, SizeExceeded, Timeout
  <2>2. \/ flags' = flags
        \/ \E reason \in {"aborted", "sizeKilled", "timedOut"} :
             flags' = flags \cup {reason, "terminating"}
    BY <1>4 DEF OnAbort, SizeExceeded, Timeout, Terminate
  <2> QED BY <2>1, <2>2
<1>5. CASE (Timeout /\ MayBackground) \/ UserBackground
  <2>1. /\ UNCHANGED <<cleanups, call>> /\ task' = "running"
        /\ flags' = flags \cup {"spawned", "backgrounded", "settled"}
        /\ "timeout" \in armed \/ "key" \in armed
        /\ "backgrounded" \notin flags
        /\ \/ outcome' = "resolved" /\ result' = "background"
           \/ UNCHANGED <<outcome, result>>
    BY <1>5 DEF Timeout, UserBackground, Background, BackgroundThrows, MayBackground
  <2>2. "spawned" \in flags /\ "exited" \notin flags /\ outcome = "open" /\ result = "none"
    BY <2>1 DEF ShellInv, ShellTypeOK
  <2> QED BY <2>1, <2>2
<1>6. CASE Close BY <1>6 DEF Close, ShellInv
<1>7. CASE Finalize BY <1>7 DEF Finalize, ShellInv, ShellTypeOK
<1>8. CASE TaskEnds BY <1>8 DEF TaskEnds, ShellInv, ShellTypeOK
<1>9. CASE TaskStop BY <1>9 DEF TaskStop
<1>10. CASE \/ Escalate \/ (\E process \in {"shell", "child"} : ProcessEnds(process))
            \/ CommandReturns \/ ProgramDies \/ UNCHANGED shellVars
  <2>1. /\ UNCHANGED <<cleanups, task, flags, outcome, result>>
        /\ call' = "preparing" => call = "preparing"
    BY <1>10 DEF Escalate, ProcessEnds, CommandReturns, ProgramDies, shellVars
  <2> QED BY <2>1
<1> QED
  BY <1>1, <1>2, <1>3, <1>4, <1>5, <1>6, <1>7, <1>8, <1>9, <1>10 DEF ShellNext

(* The sandbox is taken down once, after the shell has ended, and by the   *)
(* one who has the command then, in whatever order the exit, the move to   *)
(* the background, the abort, the timeout and the stop come (settle,       *)
(* backgroundExecution).                                                   *)
THEOREM SandboxTakenDown == ShellSpec => []SandboxOnce
<1>1. ShellInit => InSandbox BY DEF ShellInit, InSandbox
<1>2. ShellInv /\ InSandbox => SandboxOnce
  BY DEF ShellInv, ShellTypeOK, BeforeSpawn, InForeground, InBackground, InSandbox,
         SandboxOnce
<1> QED BY <1>1, <1>2, NextSandbox, ShellStays, PTL DEF ShellSpec
-----------------------------------------------------------------------------
(* TaskManager: the background tasks of a session and their records.       *)

CallState ==
  [at : {"idle", "pass", "await"}, seen : SUBSET Ids, awaiting : SUBSET Ids]
Records == [s \in Sessions |-> disk[s]]
TasksTyped == TaskTypeOK /\ calls \in [Callers -> CallState] /\ disk = Records

(* Numbers are new: no task and, once all records were loaded, no record   *)
(* of the session has the next one.                                        *)
Numbered ==
  /\ \A id \in DOMAIN tasks : id < nextTaskId
  /\ session \in Sessions /\ loaded => \A id \in DOMAIN disk[session] : id < nextTaskId
  /\ session \notin Sessions => DOMAIN tasks = {}

(* What counts as told is over; what does not was never delivered.         *)
Told ==
  /\ \A id \in notified : id \notin PendingIds /\ tasks[id].status # "running"
  /\ session \in Sessions =>
       \A id \in DOMAIN tasks : id \notin notified => delivered[session][id] = 0

(* What was delivered has a marked record, and a marked record is final.   *)
Recorded ==
  /\ \A s \in Sessions : \A id \in Ids : delivered[s][id] # 0 =>
       delivered[s][id] = 1 /\ id \in DOMAIN disk[s] /\ disk[s][id].notified
  /\ \A s \in Sessions : \A id \in DOMAIN disk[s] :
       disk[s][id].notified => disk[s][id].task.status # "running"

TaskInv == TasksTyped /\ Numbered /\ Told /\ Recorded

(* What the action properties say of a step.                               *)
StaysFinal ==
  \A s \in Sessions : \A id \in DOMAIN disk[s] :
    loaded /\ delivered[s][id] = 1 => id \in DOMAIN disk'[s] /\ disk'[s][id] = disk[s][id]
MarksReported ==
  \A s \in Sessions : \A id \in DOMAIN disk[s] \cap DOMAIN disk'[s] :
    disk'[s][id].notified => disk[s][id].notified \/ delivered'[s][id] > delivered[s][id]
StaysDue ==
  session' = session /\ tasks' # NoTasks =>
    \A id \in Due \cap DOMAIN disk[session] : ~disk[session][id].notified =>
      id \in Due' \/ delivered'[session][id] > delivered[session][id]
GoodStep ==
  TaskInv' /\ StaysFinal /\ (failures' = failures => MarksReported /\ StaysDue)

LEMMA InitTasks == TaskInit => TaskInv
<1> SUFFICES ASSUME TaskInit PROVE TaskInv OBVIOUS
<1>1. MaxTasks \in Nat /\ MaxFailures \in Nat /\ MaxCrashes \in Nat /\ NoSession \notin Sessions
  BY TaskAssumption
<1>2. DOMAIN NoTasks = {} BY DEF NoTasks
<1>3. /\ session = NoSession /\ nextTaskId = 1 /\ notified = {}
      /\ tasks = NoTasks /\ stage = NoTasks
      /\ disk = [s \in Sessions |-> NoTasks]
      /\ delivered = [s \in Sessions |-> [id \in Ids |-> 0]]
      /\ failures = 0 /\ crashes = 0 /\ loaded = TRUE
  BY DEF TaskInit
<1>4. calls \in [Callers -> CallState]
  <2>1. Idle \in CallState BY DEF Idle, CallState
  <2> QED BY <2>1 DEF TaskInit
<1>5. delivered \in [Sessions -> [Ids -> 0..2]] BY <1>3
<1>6. \A s \in Sessions : DOMAIN disk[s] = {} BY <1>2, <1>3
<1>7. 1 \in 1..MaxTasks + 1 BY <1>1
<1>8. TaskTypeOK
  BY <1>1, <1>2, <1>3, <1>4, <1>5, <1>6, <1>7 DEF TaskTypeOK, PendingIds, CallState
<1>9. disk = Records BY <1>3 DEF Records
<1>10. Numbered BY <1>1, <1>2, <1>3, <1>6 DEF Numbered
<1>11. Told BY <1>1, <1>3 DEF Told
<1>12. Recorded BY <1>3, <1>6 DEF Recorded
<1> QED BY <1>4, <1>8, <1>9, <1>10, <1>11, <1>12 DEF TaskInv, TasksTyped

LEMMA OverIs ==
  ASSUME NEW new, NEW old
  PROVE  /\ DOMAIN Over(new, old) = DOMAIN new \cup DOMAIN old
         /\ \A id \in DOMAIN new : Over(new, old)[id] = new[id]
         /\ \A id \in DOMAIN old \ DOMAIN new : Over(new, old)[id] = old[id]
BY DEF Over

(* Records of a session are written: some of them, and nothing else.       *)
Writes(s, ids) ==
  /\ disk' = [r \in Sessions |-> disk'[r]]
  /\ \A r \in Sessions \ {s} : disk'[r] = disk[r]
  /\ DOMAIN disk'[s] = ids \cup DOMAIN disk[s]
  /\ \A id \in DOMAIN disk[s] \ ids : disk'[s][id] = disk[s][id]

LEMMA Saved ==
  ASSUME TaskInv, NEW s \in Sessions, NEW f,
         disk' = [disk EXCEPT ![s] = Over(f, @)]
  PROVE  Writes(s, DOMAIN f) /\ \A id \in DOMAIN f : disk'[s][id] = f[id]
<1> DEFINE over == Over(f, disk[s])
<1>1. disk = [r \in Sessions |-> disk[r]] BY DEF TaskInv, TasksTyped, Records
<1>2. /\ DOMAIN over = DOMAIN f \cup DOMAIN disk[s]
      /\ \A id \in DOMAIN f : over[id] = f[id]
      /\ \A id \in DOMAIN disk[s] \ DOMAIN f : over[id] = disk[s][id]
  BY OverIs
<1>3. disk' = [disk EXCEPT ![s] = over] OBVIOUS
<1> HIDE DEF over
<1>4. /\ disk'[s] = over /\ \A r \in Sessions \ {s} : disk'[r] = disk[r]
      /\ disk' = [r \in Sessions |-> disk'[r]]
  BY <1>1, <1>3
<1> QED BY <1>2, <1>4 DEF Writes

LEMMA NothingSaved ==
  ASSUME TaskInv, NEW s \in Sessions, disk' = disk
  PROVE  Writes(s, {})
BY DEF TaskInv, TasksTyped, Records, Writes

LEMMA WrittenTyped ==
  ASSUME TaskInv, NEW s \in Sessions, NEW ids \in SUBSET Ids, Writes(s, ids),
         \A id \in ids : disk'[s][id] \in Record
  PROVE  /\ disk' = Records'
         /\ \A r \in Sessions : /\ DOMAIN disk'[r] \subseteq Ids
                                /\ \A id \in DOMAIN disk'[r] : disk'[r][id] \in Record
<1>1. \A r \in Sessions : /\ DOMAIN disk[r] \subseteq Ids
                          /\ \A id \in DOMAIN disk[r] : disk[r][id] \in Record
  BY DEF TaskInv, TasksTyped, TaskTypeOK
<1>2. disk' = Records' BY DEF Writes, Records
<1>3. ASSUME NEW r \in Sessions
      PROVE  /\ DOMAIN disk'[r] \subseteq Ids
             /\ \A id \in DOMAIN disk'[r] : disk'[r][id] \in Record
  <2>1. CASE r = s BY <1>1, <2>1 DEF Writes
  <2>2. CASE r # s BY <1>1, <2>2 DEF Writes
  <2> QED BY <2>1, <2>2
<1> QED BY <1>2, <1>3

(* Steps of the loops of stopAll and waitAll, and the start of a runner.   *)
LEMMA QuietTasks ==
  ASSUME TaskInv, UNCHANGED <<session, nextTaskId, tasks, notified, disk, failures, crashes,
                              loaded, delivered>>,
         calls' \in [Callers -> CallState], DOMAIN stage' = DOMAIN stage,
         \A id \in DOMAIN stage : stage'[id] \in {"created", "started", "settled"}
  PROVE  GoodStep
<1>1. PendingIds' = PendingIds /\ Due' = Due BY DEF PendingIds, Due
<1>2. TaskTypeOK'
  BY <1>1 DEF TaskInv, TasksTyped, TaskTypeOK, CallState, PendingIds
<1>3. TasksTyped' BY <1>2 DEF TaskInv, TasksTyped, Records
<1>4. Numbered' /\ Told' /\ Recorded'
  BY <1>1 DEF TaskInv, Numbered, Told, Recorded
<1>5. StaysFinal /\ MarksReported /\ StaysDue
  BY <1>1 DEF StaysFinal, MarksReported, StaysDue
<1> QED BY <1>3, <1>4, <1>5 DEF GoodStep, TaskInv

(* Tasks that are not over change, and some of their records with them.    *)
Updates(ids, saved) ==
  /\ session \in Sessions /\ ids \subseteq DOMAIN tasks /\ saved \subseteq ids
  /\ \A id \in ids : id \in PendingIds \/ tasks[id].status = "running"
  /\ DOMAIN tasks' = DOMAIN tasks /\ \A id \in ids : tasks'[id] \in Task
  /\ \A id \in DOMAIN tasks \ ids : tasks'[id] = tasks[id]
  /\ DOMAIN stage' \subseteq DOMAIN stage
  /\ \A id \in DOMAIN stage' : stage'[id] \in {"created", "started", "settled"}
  /\ Writes(session, saved)
  /\ \A id \in saved :
       disk'[session][id] \in Record /\ ~disk'[session][id].notified
  /\ calls' \in [Callers -> CallState] /\ failures' \in 0..MaxFailures
  /\ UNCHANGED <<session, nextTaskId, notified, crashes, loaded, delivered>>

LEMMA UpdateStep ==
  ASSUME TaskInv, NEW ids, NEW saved, Updates(ids, saved)
  PROVE  GoodStep
<1>1. \A id \in ids : id \in Ids /\ id \notin notified /\ delivered[session][id] = 0
  <2>1. DOMAIN tasks \subseteq Ids BY DEF TaskInv, TasksTyped, TaskTypeOK
  <2> QED BY <2>1 DEF Updates, TaskInv, Told
<1>2. /\ disk' = Records'
      /\ \A r \in Sessions : /\ DOMAIN disk'[r] \subseteq Ids
                             /\ \A id \in DOMAIN disk'[r] : disk'[r][id] \in Record
  <2>1. session \in Sessions /\ saved \in SUBSET Ids /\ Writes(session, saved)
    BY <1>1 DEF Updates
  <2>2. \A id \in saved : disk'[session][id] \in Record BY DEF Updates
  <2> QED BY <2>1, <2>2, WrittenTyped
<1>3. \A id \in DOMAIN tasks' : tasks'[id] \in Task
  <2>1. \A id \in DOMAIN tasks : tasks[id] \in Task
    BY DEF TaskInv, TasksTyped, TaskTypeOK
  <2> QED BY <2>1 DEF Updates
<1>4. PendingIds' \subseteq PendingIds BY DEF Updates, PendingIds
<1>5. TaskTypeOK'
  <2>1. TaskTypeOK BY DEF TaskInv, TasksTyped
  <2>2. /\ DOMAIN tasks' = DOMAIN tasks /\ notified' = notified
        /\ \A id \in PendingIds' : stage'[id] \in {"created", "started", "settled"}
        /\ calls' \in [Callers -> CallState] /\ failures' \in 0..MaxFailures
        /\ UNCHANGED <<session, nextTaskId, crashes, loaded, delivered>>
    BY DEF Updates, PendingIds
  <2> HIDE DEF PendingIds
  <2> QED BY <1>2, <1>3, <1>4, <2>1, <2>2 DEF TaskTypeOK, CallState
<1>6. TasksTyped' BY <1>2, <1>5 DEF Updates, TasksTyped
<1>7. Numbered'
  <2>1. DOMAIN disk'[session] \subseteq DOMAIN tasks \cup DOMAIN disk[session]
    BY DEF Updates, Writes
  <2> QED BY <2>1 DEF Updates, TaskInv, Numbered
<1>8. Told'
  <2>1. \A id \in notified : id \notin PendingIds' /\ tasks'[id].status # "running"
    <3>1. notified \subseteq DOMAIN tasks BY DEF TaskInv, TasksTyped, TaskTypeOK
    <3> QED BY <1>1, <1>4, <3>1 DEF Updates, TaskInv, Told
  <2> QED BY <2>1 DEF Updates, TaskInv, Told
<1>9. Recorded'
  <2>1. ASSUME NEW s \in Sessions, NEW id \in Ids, delivered[s][id] # 0
        PROVE  delivered[s][id] = 1 /\ id \in DOMAIN disk'[s] /\ disk'[s][id].notified
    <3>1. delivered[s][id] = 1 /\ id \in DOMAIN disk[s] /\ disk[s][id].notified
      BY <2>1 DEF TaskInv, Recorded
    <3>2. id \in DOMAIN disk'[s] /\ disk'[s][id] = disk[s][id]
      BY <1>1, <2>1, <3>1 DEF Updates, Writes
    <3> QED BY <3>1, <3>2
  <2>2. ASSUME NEW s \in Sessions, NEW id \in DOMAIN disk'[s], disk'[s][id].notified
        PROVE  disk'[s][id].task.status # "running"
    <3>1. id \in DOMAIN disk[s] /\ disk'[s][id] = disk[s][id]
      BY <2>2 DEF Updates, Writes
    <3> QED BY <2>2, <3>1 DEF TaskInv, Recorded
  <2> QED BY <2>1, <2>2 DEF Updates, Recorded
<1>10. StaysFinal
  <2>1. \A s \in Sessions : DOMAIN disk[s] \subseteq Ids
    BY DEF TaskInv, TasksTyped, TaskTypeOK
  <2> QED BY <1>1, <2>1 DEF Updates, Writes, StaysFinal
<1>11. MarksReported
  <2>1. ASSUME NEW s \in Sessions, NEW id \in DOMAIN disk[s] \cap DOMAIN disk'[s],
               disk'[s][id].notified
        PROVE  disk[s][id].notified
    BY <2>1 DEF Updates, Writes
  <2> QED BY <2>1 DEF MarksReported
<1>12. StaysDue
  <2>1. ASSUME NEW id \in Due PROVE id \in Due'
    <3>1. id \in DOMAIN tasks \ PendingIds /\ tasks[id].status # "running"
          /\ id \notin notified
      BY <2>1 DEF Due
    <3>2. tasks'[id] = tasks[id] BY <3>1 DEF Updates
    <3> QED BY <1>4, <3>1, <3>2 DEF Updates, Due
  <2> QED BY <2>1 DEF StaysDue
<1> QED BY <1>6, <1>7, <1>8, <1>9, <1>10, <1>11, <1>12 DEF GoodStep, TaskInv

(* Who has a task has a session.                                           *)
LEMMA InSession ==
  ASSUME TaskInv, NEW id \in DOMAIN tasks
  PROVE  /\ session \in Sessions /\ tasks[id] \in Task /\ id \in Ids
         /\ PendingIds \subseteq DOMAIN tasks
BY DEF TaskInv, TasksTyped, TaskTypeOK, Numbered

(* persist: the record of an untold task is written, or none.              *)
LEMMA Persisted ==
  ASSUME TaskInv, session \in Sessions, NEW id, id \notin notified, NEW t \in Task,
         Persist(id, t)
  PROVE  /\ failures' \in 0..MaxFailures
         /\ \E saved \in SUBSET {id} :
              /\ Writes(session, saved)
              /\ \A i \in saved : disk'[session][i] \in Record
                                  /\ ~disk'[session][i].notified
<1>1. failures \in 0..MaxFailures /\ MaxFailures \in Nat
  BY TaskAssumption DEF TaskInv, TasksTyped, TaskTypeOK
<1> DEFINE f == [i \in {id} |-> RecordOf(t, id \in notified)]
<1>2. CASE Saves(f)
  <2>1. disk' = [disk EXCEPT ![session] = Over(f, @)] /\ failures' = failures
    BY <1>2 DEF Saves
  <2>2. (id \in notified) = FALSE OBVIOUS
  <2>3. RecordOf(t, id \in notified) = [task |-> t, notified |-> FALSE]
    BY <2>2 DEF RecordOf
  <2>4. DOMAIN f = {id} /\ f[id] = [task |-> t, notified |-> FALSE] BY <2>3
  <2>5. f[id] \in Record /\ ~f[id].notified
    <3> HIDE DEF f
    <3>1. [task |-> t, notified |-> FALSE] \in Record BY DEF Record
    <3> QED BY <2>4, <3>1
  <2> HIDE DEF f
  <2>6. Writes(session, DOMAIN f) /\ \A i \in DOMAIN f : disk'[session][i] = f[i]
    BY <2>1, Saved
  <2> QED BY <1>1, <2>1, <2>4, <2>5, <2>6
<1>3. CASE SaveFails /\ disk' = disk
  <2>1. failures' \in 0..MaxFailures BY <1>1, <1>3 DEF SaveFails
  <2>2. Writes(session, {}) BY <1>3, NothingSaved
  <2> QED BY <2>1, <2>2
<1> QED BY <1>2, <1>3 DEF Persist

(* One task that is not over changes, and its record is written or not.    *)
LEMMA OneUpdate ==
  ASSUME TaskInv, NEW id \in DOMAIN tasks,
         id \in PendingIds \/ tasks[id].status = "running",
         NEW t \in Task, tasks' = [tasks EXCEPT ![id] = t],
         Persist(id, t) \/ UNCHANGED <<disk, failures>>,
         DOMAIN stage' \subseteq DOMAIN stage,
         \A i \in DOMAIN stage' : stage'[i] \in {"created", "started", "settled"},
         UNCHANGED <<session, nextTaskId, notified, calls, crashes, loaded, delivered>>
  PROVE  GoodStep
<1>1. session \in Sessions BY InSession
<1>2. id \notin notified BY DEF TaskInv, Told
<1>3. /\ failures' \in 0..MaxFailures
      /\ \E saved \in SUBSET {id} :
           /\ Writes(session, saved)
           /\ \A i \in saved : disk'[session][i] \in Record
                               /\ ~disk'[session][i].notified
  <2>1. CASE Persist(id, t) BY <1>1, <1>2, <2>1, Persisted
  <2>2. CASE UNCHANGED <<disk, failures>>
    <3>1. Writes(session, {}) BY <1>1, <2>2, NothingSaved
    <3>2. failures' \in 0..MaxFailures BY <2>2 DEF TaskInv, TasksTyped, TaskTypeOK
    <3> QED BY <3>1, <3>2
  <2> QED BY <2>1, <2>2
<1>4. PICK saved \in SUBSET {id} :
        /\ Writes(session, saved)
        /\ \A i \in saved : disk'[session][i] \in Record
                            /\ ~disk'[session][i].notified
  BY <1>3
<1>5. DOMAIN tasks' = DOMAIN tasks /\ tasks'[id] = t
      /\ \A i \in DOMAIN tasks \ {id} : tasks'[i] = tasks[i]
  OBVIOUS
<1>6. calls' \in [Callers -> CallState] BY DEF TaskInv, TasksTyped
<1>7. Updates({id}, saved) BY <1>1, <1>3, <1>4, <1>5, <1>6 DEF Updates
<1> QED BY <1>7, UpdateStep

LEMMA SettleStep ==
  ASSUME TaskInv, NEW id, NEW kind \in {"output", "TaskFailure", "error"},
         Settle(id, kind)
  PROVE  GoodStep
<1> DEFINE t == [tasks[id] EXCEPT !.status = Outcome(@, kind)]
<1>1. /\ id \in PendingIds /\ tasks' = [tasks EXCEPT ![id] = t]
      /\ Persist(id, t) \/ UNCHANGED <<disk, failures>>
      /\ stage' = [stage EXCEPT ![id] = "settled"]
      /\ UNCHANGED <<session, nextTaskId, notified, calls, crashes, loaded, delivered>>
  BY DEF Settle, hist
<1>2. id \in DOMAIN tasks /\ tasks[id] \in Task
  BY <1>1 DEF TaskInv, TasksTyped, TaskTypeOK
<1>3. t \in Task BY <1>2 DEF Task, Outcome, Statuses
<1>4. DOMAIN stage' \subseteq DOMAIN stage
      /\ \A i \in DOMAIN stage' : stage'[i] \in {"created", "started", "settled"}
  BY <1>1 DEF TaskInv, TasksTyped, TaskTypeOK, PendingIds
<1> HIDE DEF t
<1> QED BY <1>1, <1>2, <1>3, <1>4, OneUpdate

LEMMA FinallyStep ==
  ASSUME TaskInv, NEW id, Finally(id)
  PROVE  GoodStep
<1> DEFINE t == [tasks[id] EXCEPT !.ended = TRUE]
<1>1. /\ id \in PendingIds /\ tasks' = [tasks EXCEPT ![id] = t] /\ Persist(id, t)
      /\ stage' = Restrict(stage, PendingIds \ {id})
      /\ UNCHANGED <<session, nextTaskId, notified, calls, crashes, loaded, delivered>>
  BY DEF Finally, hist
<1>2. id \in DOMAIN tasks /\ tasks[id] \in Task
  BY <1>1 DEF TaskInv, TasksTyped, TaskTypeOK
<1>3. t \in Task BY <1>2 DEF Task
<1>4. DOMAIN stage' \subseteq DOMAIN stage
      /\ \A i \in DOMAIN stage' : stage'[i] \in {"created", "started", "settled"}
  <2>1. \A i \in DOMAIN stage : stage[i] \in {"created", "started", "settled"}
    BY DEF TaskInv, TasksTyped, TaskTypeOK, PendingIds
  <2> QED BY <1>1, <2>1 DEF Restrict, PendingIds
<1> HIDE DEF t
<1> QED BY <1>1, <1>2, <1>3, <1>4, OneUpdate

LEMMA CancelledTask ==
  ASSUME NEW id, tasks[id] \in Task
  PROVE  Cancelled(id) \in Task
BY DEF Cancelled, Task, Statuses

LEMMA StopTaskStep ==
  ASSUME TaskInv, NEW id, Stop(id)
  PROVE  GoodStep
<1> DEFINE t == Cancelled(id)
<1>1. /\ id \in DOMAIN tasks /\ tasks[id].status = "running"
      /\ tasks' = [tasks EXCEPT ![id] = t] /\ Persist(id, t)
      /\ UNCHANGED <<session, nextTaskId, notified, stage, calls, crashes, loaded, delivered>>
  BY DEF Stop, hist
<1>2. t \in Task
  <2>1. tasks[id] \in Task BY <1>1, InSession
  <2> QED BY <2>1, CancelledTask
<1>3. DOMAIN stage' \subseteq DOMAIN stage
      /\ \A i \in DOMAIN stage' : stage'[i] \in {"created", "started", "settled"}
  BY <1>1 DEF TaskInv, TasksTyped, TaskTypeOK, PendingIds
<1> HIDE DEF t
<1> QED BY <1>1, <1>2, <1>3, OneUpdate

(* cancelAll: those that run are cancelled.                                *)
LEMMA Cancels ==
  ASSUME TaskInv, NEW ids \in SUBSET DOMAIN tasks, NEW running,
         running = {i \in ids : tasks[i].status = "running"}
  PROVE  /\ DOMAIN CancelAll(ids) = DOMAIN tasks
         /\ \A i \in running : CancelAll(ids)[i] \in Task
         /\ \A i \in DOMAIN tasks \ running : CancelAll(ids)[i] = tasks[i]
<1> DEFINE f == [i \in running |-> Cancelled(i)]
<1>1. CancelAll(ids) = Over(f, tasks) BY DEF CancelAll
<1>2. DOMAIN f = running /\ \A i \in running : f[i] = Cancelled(i) OBVIOUS
<1> HIDE DEF f
<1>3. \A i \in running : Cancelled(i) \in Task
  <2>1. \A i \in running : tasks[i] \in Task
    BY DEF TaskInv, TasksTyped, TaskTypeOK
  <2> QED BY <2>1, CancelledTask
<1>4. /\ DOMAIN Over(f, tasks) = DOMAIN f \cup DOMAIN tasks
      /\ \A i \in DOMAIN f : Over(f, tasks)[i] = f[i]
      /\ \A i \in DOMAIN tasks \ DOMAIN f : Over(f, tasks)[i] = tasks[i]
  BY OverIs
<1> QED BY <1>1, <1>2, <1>3, <1>4

LEMMA CancelRecords ==
  ASSUME TaskInv, session \in Sessions, NEW ids \in SUBSET DOMAIN tasks,
         \A i \in ids : tasks[i].status = "running",
         disk' = [disk EXCEPT ![session] =
           Over([i \in ids |-> RecordOf(Cancelled(i), i \in notified)], @)]
  PROVE  /\ Writes(session, ids)
         /\ \A i \in ids : disk'[session][i] \in Record
                           /\ ~disk'[session][i].notified
<1> DEFINE f == [i \in ids |-> RecordOf(Cancelled(i), i \in notified)]
<1>1. Writes(session, DOMAIN f) /\ \A i \in DOMAIN f : disk'[session][i] = f[i]
  <2>1. disk' = [disk EXCEPT ![session] = Over(f, @)] OBVIOUS
  <2> HIDE DEF f
  <2> QED BY <2>1, Saved
<1>2. ASSUME NEW i \in ids
      PROVE  f[i] \in Record /\ ~f[i].notified
  <2>1. tasks[i] \in Task BY InSession
  <2>2. (i \in notified) = FALSE BY DEF TaskInv, Told
  <2>3. f[i] = RecordOf(Cancelled(i), i \in notified) OBVIOUS
  <2>4. RecordOf(Cancelled(i), i \in notified)
          = [task |-> Cancelled(i), notified |-> FALSE]
    BY <2>2 DEF RecordOf
  <2> HIDE DEF f
  <2>5. [task |-> Cancelled(i), notified |-> FALSE] \in Record
    BY <2>1, CancelledTask DEF Record
  <2> QED BY <2>3, <2>4, <2>5
<1>3. DOMAIN f = ids OBVIOUS
<1> HIDE DEF f
<1> QED BY <1>1, <1>2, <1>3

LEMMA StopPassStep ==
  ASSUME TaskInv, StopPass
  PROVE  GoodStep
<1> DEFINE all == ToStop
           running == {i \in all : tasks[i].status = "running"}
<1>1. /\ "stopAll" \in Callers /\ all # {}
      /\ UNCHANGED <<session, nextTaskId, notified, stage, crashes, loaded, delivered>>
  BY DEF StopPass, hist
<1>2. all \subseteq DOMAIN tasks /\ session \in Sessions /\ DOMAIN tasks \subseteq Ids
  <2>1. all \subseteq DOMAIN tasks /\ DOMAIN tasks \subseteq Ids
    BY DEF TaskInv, TasksTyped, TaskTypeOK, ToStop
  <2>2. PICK id \in all : TRUE BY <1>1
  <2>3. session \in Sessions BY <2>1, <2>2, InSession
  <2> QED BY <2>1, <2>3
<1>3. DOMAIN stage' \subseteq DOMAIN stage
      /\ \A i \in DOMAIN stage' : stage'[i] \in {"created", "started", "settled"}
  BY <1>1 DEF TaskInv, TasksTyped, TaskTypeOK, PendingIds
<1>4. calls \in [Callers -> CallState] /\ failures \in 0..MaxFailures /\ MaxFailures \in Nat
  BY TaskAssumption DEF TaskInv, TasksTyped, TaskTypeOK
<1>5. \/ /\ tasks' = CancelAll(all) /\ failures' = failures
         /\ disk' = [disk EXCEPT ![session] = Over(
              [i \in running |-> RecordOf(Cancelled(i), i \in notified)], @)]
         /\ calls' = [calls EXCEPT !["stopAll"] =
              [at |-> "await", seen |-> @.seen \cup all, awaiting |-> all]]
      \/ \E bad \in running :
           /\ SaveFails
           /\ tasks' = CancelAll({i \in all : i <= bad})
           /\ disk' = [disk EXCEPT ![session] = Over(
                [i \in {j \in running : j < bad} |->
                   RecordOf(Cancelled(i), i \in notified)], @)]
           /\ calls' = [calls EXCEPT !["stopAll"] = Idle]
  BY DEF StopPass, Saves
<1> HIDE DEF all
<1>6. CASE /\ tasks' = CancelAll(all) /\ failures' = failures
           /\ disk' = [disk EXCEPT ![session] = Over(
                [i \in running |-> RecordOf(Cancelled(i), i \in notified)], @)]
           /\ calls' = [calls EXCEPT !["stopAll"] =
                [at |-> "await", seen |-> @.seen \cup all, awaiting |-> all]]
  <2>1. /\ DOMAIN tasks' = DOMAIN tasks /\ \A i \in running : tasks'[i] \in Task
        /\ \A i \in DOMAIN tasks \ running : tasks'[i] = tasks[i]
    BY <1>2, <1>6, Cancels
  <2>2. /\ Writes(session, running)
        /\ \A i \in running : disk'[session][i] \in Record
                              /\ ~disk'[session][i].notified
    BY <1>2, <1>6, CancelRecords
  <2>3. calls' \in [Callers -> CallState]
    <3>1. calls["stopAll"] \in CallState BY <1>1, <1>4
    <3>2. [at |-> "await", seen |-> calls["stopAll"].seen \cup all, awaiting |-> all]
            \in CallState
      BY <1>2, <3>1 DEF CallState
    <3> QED BY <1>4, <1>6, <3>2
  <2>4. Updates(running, running)
    <3>1. running \subseteq DOMAIN tasks /\ \A i \in running : tasks[i].status = "running"
      BY <1>2
    <3> HIDE DEF running
    <3> QED BY <1>1, <1>2, <1>3, <1>4, <1>6, <2>1, <2>2, <2>3, <3>1 DEF Updates
  <2> QED BY <2>4, UpdateStep
<1>7. ASSUME NEW bad \in running, SaveFails,
             tasks' = CancelAll({i \in all : i <= bad}),
             disk' = [disk EXCEPT ![session] = Over(
               [i \in {j \in running : j < bad} |->
                  RecordOf(Cancelled(i), i \in notified)], @)],
             calls' = [calls EXCEPT !["stopAll"] = Idle]
      PROVE  GoodStep
  <2> DEFINE reached == {i \in all : i <= bad}
             ids == {i \in reached : tasks[i].status = "running"}
             saved == {j \in running : j < bad}
  <2>1. /\ DOMAIN tasks' = DOMAIN tasks /\ \A i \in ids : tasks'[i] \in Task
        /\ \A i \in DOMAIN tasks \ ids : tasks'[i] = tasks[i]
    <3>1. reached \in SUBSET DOMAIN tasks BY <1>2
    <3>2. tasks' = CancelAll(reached) BY <1>7
    <3>3. \E run : run = ids OBVIOUS
    <3> HIDE DEF reached
    <3> QED BY <3>1, <3>2, Cancels
  <2>2. saved \subseteq ids /\ saved \in SUBSET DOMAIN tasks
        /\ \A i \in saved : tasks[i].status = "running"
    <3>1. Ids \subseteq Int BY DEF Ids
    <3>2. \A i \in saved : i \in all /\ i \in Int /\ bad \in Int /\ i < bad
                           /\ tasks[i].status = "running"
      BY <1>2, <1>7, <3>1
    <3>3. \A i \in saved : i <= bad BY <3>2
    <3> QED BY <1>2, <3>2, <3>3
  <2>3. /\ Writes(session, saved)
        /\ \A i \in saved : disk'[session][i] \in Record
                            /\ ~disk'[session][i].notified
    <3>1. disk' = [disk EXCEPT ![session] = Over(
            [i \in saved |-> RecordOf(Cancelled(i), i \in notified)], @)]
      BY <1>7
    <3> HIDE DEF saved
    <3> QED BY <1>2, <2>2, <3>1, CancelRecords
  <2>4. calls' \in [Callers -> CallState] /\ failures' \in 0..MaxFailures
    <3>1. Idle \in CallState BY DEF Idle, CallState
    <3>2. calls' \in [Callers -> CallState] BY <1>4, <1>7, <3>1
    <3>3. failures' \in 0..MaxFailures BY <1>4, <1>7 DEF SaveFails
    <3> QED BY <3>2, <3>3
  <2>5. ids \subseteq DOMAIN tasks /\ \A i \in ids : tasks[i].status = "running" BY <1>2
  <2> HIDE DEF ids, saved, reached
  <2>6. Updates(ids, saved) BY <1>1, <1>2, <1>3, <2>1, <2>2, <2>3, <2>4, <2>5 DEF Updates
  <2> QED BY <2>6, UpdateStep
<1> HIDE DEF running
<1> QED BY <1>5, <1>6, <1>7

(* Steps of stopAll, waitAll and the runners that change no task.          *)
LEMMA CallStep ==
  ASSUME TaskInv,
         \/ \E id \in Ids : StartTask(id)
         \/ \E name \in Callers :
              CallBegins(name) \/ NextPass(name) \/ CallReturns(name)
         \/ WaitPass
  PROVE  GoodStep
<1>1. /\ calls \in [Callers -> CallState]
      /\ \A id \in DOMAIN stage : stage[id] \in {"created", "started", "settled"}
      /\ DOMAIN stage \subseteq Ids
  BY DEF TaskInv, TasksTyped, TaskTypeOK, PendingIds
<1>2. CASE \E id \in Ids : StartTask(id)
  <2>1. PICK id \in Ids : StartTask(id) BY <1>2
  <2>2. /\ UNCHANGED <<session, nextTaskId, tasks, notified, calls, disk, failures, crashes,
                       loaded, delivered>>
        /\ DOMAIN stage' = DOMAIN stage
        /\ \A i \in DOMAIN stage : stage'[i] \in {"created", "started", "settled"}
    BY <1>1, <2>1 DEF StartTask, hist
  <2> QED BY <1>1, <2>2, QuietTasks
<1>3. ASSUME NEW name \in Callers, CallBegins(name)
      PROVE  GoodStep
  <2>1. calls' = [calls EXCEPT ![name].at = "pass"]
        /\ UNCHANGED <<session, nextTaskId, tasks, notified, stage, disk, failures, crashes,
                       loaded, delivered>>
    BY <1>3 DEF CallBegins, hist
  <2>2. calls' \in [Callers -> CallState] BY <1>1, <2>1 DEF CallState
  <2> QED BY <1>1, <2>1, <2>2, QuietTasks
<1>4. ASSUME NEW name \in Callers, NextPass(name)
      PROVE  GoodStep
  <2>1. calls' = [calls EXCEPT ![name].at = "pass", ![name].awaiting = {}]
        /\ UNCHANGED <<session, nextTaskId, tasks, notified, stage, disk, failures, crashes,
                       loaded, delivered>>
    BY <1>4 DEF NextPass, hist
  <2>2. calls' \in [Callers -> CallState] BY <1>1, <2>1 DEF CallState
  <2> QED BY <1>1, <2>1, <2>2, QuietTasks
<1>5. ASSUME NEW name \in Callers, CallReturns(name)
      PROVE  GoodStep
  <2>1. calls' = [calls EXCEPT ![name] = Idle]
        /\ UNCHANGED <<session, nextTaskId, tasks, notified, stage, disk, failures, crashes,
                       loaded, delivered>>
    BY <1>5 DEF CallReturns, hist
  <2>2. calls' \in [Callers -> CallState] BY <1>1, <2>1 DEF CallState, Idle
  <2> QED BY <1>1, <2>1, <2>2, QuietTasks
<1>6. CASE WaitPass
  <2>1. /\ "waitAll" \in Callers
        /\ calls' = [calls EXCEPT !["waitAll"] =
             [@ EXCEPT !.at = "await", !.awaiting = ToAwait]]
        /\ UNCHANGED <<session, nextTaskId, tasks, notified, stage, disk, failures, crashes,
                       loaded, delivered>>
    BY <1>6 DEF WaitPass, hist
  <2>2. ToAwait \subseteq Ids BY <1>1 DEF ToAwait, PendingIds
  <2>3. calls' \in [Callers -> CallState] BY <1>1, <2>1, <2>2 DEF CallState
  <2> QED BY <1>1, <2>1, <2>3, QuietTasks
<1> QED BY <1>2, <1>3, <1>4, <1>5, <1>6

(* The tasks in memory go: the session is cleared or the process killed.   *)
LEMMA EmptyStep ==
  ASSUME TaskInv, tasks' = NoTasks, notified' = {}, DOMAIN stage' = {},
         UNCHANGED <<disk, delivered, loaded, failures>>,
         calls' \in [Callers -> CallState], crashes' \in 0..MaxCrashes,
         nextTaskId' \in 1..MaxTasks + 1,
         \/ session' = NoSession
         \/ session \in Sessions /\ session' = session /\ nextTaskId' = nextTaskId
  PROVE  GoodStep
<1>1. DOMAIN NoTasks = {} BY DEF NoTasks
<1>2. NoSession \notin Sessions BY TaskAssumption
<1>3. DOMAIN tasks' = {} BY <1>1
<1>4. TaskTypeOK'
  <2>1. PendingIds' = {} BY DEF PendingIds
  <2> HIDE DEF PendingIds
  <2> QED BY <1>3, <2>1 DEF TaskInv, TasksTyped, TaskTypeOK, CallState
<1>5. TasksTyped' BY <1>4 DEF TaskInv, TasksTyped, Records
<1>6. Numbered' BY <1>2, <1>3 DEF TaskInv, Numbered
<1>7. Told' BY <1>3 DEF Told
<1>8. Recorded' BY DEF TaskInv, Recorded
<1>9. StaysFinal /\ MarksReported /\ StaysDue BY DEF StaysFinal, MarksReported, StaysDue
<1> QED BY <1>5, <1>6, <1>7, <1>8, <1>9 DEF GoodStep, TaskInv

LEMMA EmptiesStep ==
  ASSUME TaskInv, Clear \/ Crash
  PROVE  GoodStep
<1>1. /\ calls \in [Callers -> CallState] /\ crashes \in 0..MaxCrashes
      /\ nextTaskId \in 1..MaxTasks + 1 /\ session \in Sessions \cup {NoSession}
      /\ MaxTasks \in Nat /\ MaxCrashes \in Nat
  BY TaskAssumption DEF TaskInv, TasksTyped, TaskTypeOK
<1>2. CASE Clear
  <2>1. /\ session \in Sessions /\ tasks' = NoTasks /\ notified' = {}
        /\ DOMAIN stage' = {}
        /\ UNCHANGED <<session, nextTaskId, calls, disk, failures, crashes, loaded,
                       delivered>>
    BY <1>1, <1>2 DEF Clear, PendingIds, hist
  <2> QED BY <1>1, <2>1, EmptyStep
<1>3. CASE Crash
  <2>1. /\ session' = NoSession /\ tasks' = NoTasks /\ notified' = {}
        /\ stage' = NoTasks /\ nextTaskId' = 1 /\ crashes < MaxCrashes
        /\ crashes' = crashes + 1 /\ calls' = [name \in Callers |-> Idle]
        /\ UNCHANGED <<disk, failures, loaded, delivered>>
    BY <1>3 DEF Crash, hist
  <2>2. DOMAIN stage' = {} BY <2>1 DEF NoTasks
  <2>3. Idle \in CallState BY DEF Idle, CallState
  <2>4. calls' \in [Callers -> CallState] BY <2>1, <2>3
  <2>5. crashes' \in 0..MaxCrashes /\ nextTaskId' \in 1..MaxTasks + 1 BY <1>1, <2>1
  <2> QED BY <2>1, <2>2, <2>4, <2>5, EmptyStep
<1> QED BY <1>2, <1>3

LEMMA CreateStep ==
  ASSUME TaskInv, NEW kind \in Kinds, Create(kind)
  PROVE  GoodStep
<1> DEFINE id == nextTaskId
           t == [kind |-> kind, status |-> "running", ended |-> FALSE]
<1>1. /\ session # NoSession /\ nextTaskId <= MaxTasks /\ nextTaskId' = nextTaskId + 1
      /\ tasks' = Put(id, t, tasks) /\ stage' = Put(id, "created", stage)
      /\ Persist(id, t) /\ delivered' = [delivered EXCEPT ![session][id] = 0]
      /\ UNCHANGED <<session, notified, calls, crashes, loaded>>
  BY DEF Create
<1>2. /\ session \in Sessions /\ nextTaskId \in 1..MaxTasks + 1 /\ MaxTasks \in Nat
      /\ notified \subseteq DOMAIN tasks /\ PendingIds \subseteq DOMAIN tasks
      /\ DOMAIN tasks \subseteq Ids
      /\ delivered \in [Sessions -> [Ids -> 0..2]]
      /\ \A s \in Sessions : DOMAIN disk[s] \subseteq Ids
  BY <1>1, TaskAssumption DEF TaskInv, TasksTyped, TaskTypeOK
<1>3. id \in Ids /\ nextTaskId' \in 1..MaxTasks + 1
  BY <1>1, <1>2 DEF Ids
<1>4. loaded => id \notin DOMAIN disk[session]
  BY <1>2 DEF TaskInv, Numbered
<1>5. id \notin DOMAIN tasks
  BY <1>2 DEF TaskInv, Numbered
<1>6. t \in Task
  <2>1. kind \in {"agent", "shell", "workflow"}
    BY TaskAssumption
  <2> QED BY <2>1 DEF Task, Statuses
<1> HIDE DEF t
<1>7. /\ DOMAIN tasks' = {id} \cup DOMAIN tasks /\ tasks'[id] = t
      /\ \A i \in DOMAIN tasks : tasks'[i] = tasks[i]
  <2>1. tasks' = Over([i \in {id} |-> t], tasks) BY <1>1 DEF Put
  <2> QED BY <1>5, <2>1 DEF Over
<1>8. /\ DOMAIN stage' = {id} \cup DOMAIN stage /\ stage'[id] = "created"
      /\ \A i \in DOMAIN stage : stage'[i] = stage[i]
  <2>1. stage' = Over([i \in {id} |-> "created"], stage) BY <1>1 DEF Put
  <2>2. id \notin DOMAIN stage BY <1>2, <1>5 DEF PendingIds
  <2> QED BY <2>1, <2>2 DEF Over
<1>9. /\ failures' \in 0..MaxFailures
      /\ \E saved \in SUBSET {id} :
           /\ Writes(session, saved)
           /\ \A i \in saved : disk'[session][i] \in Record
                               /\ ~disk'[session][i].notified
  <2>1. id \notin notified BY <1>2, <1>5
  <2>2. Persist(id, t) BY <1>1
  <2> HIDE DEF id
  <2> QED BY <1>2, <1>6, <2>1, <2>2, Persisted
<1>10. PICK saved \in SUBSET {id} :
         /\ Writes(session, saved)
         /\ \A i \in saved : disk'[session][i] \in Record
                             /\ ~disk'[session][i].notified
  BY <1>9
<1>11. /\ delivered' \in [Sessions -> [Ids -> 0..2]] /\ delivered'[session][id] = 0
       /\ \A s \in Sessions, i \in Ids :
            s # session \/ i # id => delivered'[s][i] = delivered[s][i]
  BY <1>1, <1>2, <1>3
<1>12. /\ disk' = Records'
       /\ \A r \in Sessions : /\ DOMAIN disk'[r] \subseteq Ids
                              /\ \A i \in DOMAIN disk'[r] : disk'[r][i] \in Record
  <2>1. saved \in SUBSET Ids BY <1>3, <1>10
  <2> QED BY <1>2, <1>10, <2>1, WrittenTyped
<1>13. PendingIds' = {id} \cup PendingIds BY <1>8 DEF PendingIds
<1> HIDE DEF id
<1>14. TaskTypeOK'
  <2>1. TaskTypeOK BY DEF TaskInv, TasksTyped
  <2>2. \A i \in PendingIds' : stage'[i] \in {"created", "started", "settled"}
    BY <1>8, <2>1 DEF TaskTypeOK, PendingIds
  <2>3. DOMAIN tasks' \subseteq Ids /\ \A i \in DOMAIN tasks' : tasks'[i] \in Task
    BY <1>2, <1>3, <1>6, <1>7, <2>1 DEF TaskTypeOK
  <2>4. notified' \subseteq DOMAIN tasks' /\ PendingIds' \subseteq DOMAIN tasks'
    BY <1>1, <1>2, <1>7, <1>13
  <2>5. UNCHANGED <<session, calls, crashes, loaded>> BY <1>1
  <2> HIDE DEF PendingIds
  <2> QED BY <1>3, <1>9, <1>11, <1>12, <2>1, <2>2, <2>3, <2>4, <2>5 DEF TaskTypeOK
<1>15. TasksTyped' BY <1>1, <1>12, <1>14 DEF TaskInv, TasksTyped
<1>16. Numbered'
  <2>1. \A i \in DOMAIN tasks' : i < nextTaskId'
    BY <1>1, <1>2, <1>7 DEF TaskInv, Numbered, id, Ids
  <2>2. ASSUME loaded PROVE \A i \in DOMAIN disk'[session] : i < nextTaskId'
    <3>1. \A i \in DOMAIN disk[session] : i < nextTaskId
      BY <1>2, <2>2 DEF TaskInv, Numbered
    <3>2. \A i \in DOMAIN disk'[session] : i = nextTaskId \/ i \in DOMAIN disk[session]
      BY <1>10 DEF Writes, id
    <3>3. DOMAIN disk[session] \subseteq Int BY <1>2 DEF Ids
    <3> QED BY <1>1, <1>2, <3>1, <3>2, <3>3
  <2> QED BY <1>1, <1>2, <2>1, <2>2 DEF Numbered
<1>17. Told'
  <2>1. \A i \in notified' : i \notin PendingIds' /\ tasks'[i].status # "running"
    BY <1>1, <1>2, <1>5, <1>7, <1>13 DEF TaskInv, Told
  <2>2. \A i \in DOMAIN tasks' : i \notin notified' => delivered'[session][i] = 0
    BY <1>1, <1>2, <1>7, <1>11 DEF TaskInv, Told
  <2> QED BY <1>1, <2>1, <2>2 DEF Told
<1>18. Recorded'
  <2>1. ASSUME NEW s \in Sessions, NEW i \in Ids, delivered'[s][i] # 0
        PROVE  delivered'[s][i] = 1 /\ i \in DOMAIN disk'[s] /\ disk'[s][i].notified
    <3>1. (s # session \/ i # id) /\ delivered'[s][i] = delivered[s][i]
      BY <1>2, <1>11, <2>1
    <3>2. delivered[s][i] = 1 /\ i \in DOMAIN disk[s] /\ disk[s][i].notified
      BY <2>1, <3>1 DEF TaskInv, Recorded
    <3>3. i \in DOMAIN disk'[s] /\ disk'[s][i] = disk[s][i]
      BY <1>10, <3>1, <3>2 DEF Writes
    <3> QED BY <3>1, <3>2, <3>3
  <2>2. ASSUME NEW s \in Sessions, NEW i \in DOMAIN disk'[s], disk'[s][i].notified
        PROVE  disk'[s][i].task.status # "running"
    <3>1. i \in DOMAIN disk[s] /\ disk'[s][i] = disk[s][i]
      BY <1>10, <2>2 DEF Writes
    <3> QED BY <2>2, <3>1 DEF TaskInv, Recorded
  <2> QED BY <2>1, <2>2 DEF Recorded
<1>19. StaysFinal BY <1>4, <1>10 DEF Writes, StaysFinal
<1>20. MarksReported BY <1>10 DEF Writes, MarksReported
<1>21. StaysDue
  <2>1. ASSUME NEW i \in Due PROVE i \in Due'
    BY <1>1, <1>5, <1>7, <1>13, <2>1 DEF Due
  <2> QED BY <2>1 DEF StaysDue
<1> QED BY <1>15, <1>16, <1>17, <1>18, <1>19, <1>20, <1>21 DEF GoodStep, TaskInv

(* Results are marked as told, some of the tasks told before may go, and a *)
(* report counts for those whose records were marked.                      *)
Tells(newly, marked) ==
  /\ session \in Sessions /\ newly \subseteq Due /\ marked \subseteq newly
  /\ DOMAIN tasks' \subseteq DOMAIN tasks /\ PendingIds \subseteq DOMAIN tasks'
  /\ \A id \in DOMAIN tasks' : tasks'[id] = tasks[id]
  /\ notified' = (notified \cup newly) \cap DOMAIN tasks'
  /\ Writes(session, marked)
  /\ \A id \in marked : disk'[session][id] = [task |-> tasks[id], notified |-> TRUE]
  /\ delivered' \in [Sessions -> [Ids -> 0..2]]
  /\ \A s \in Sessions, id \in Ids :
       \/ delivered'[s][id] = delivered[s][id]
       \/ s = session /\ id \in marked /\ delivered'[s][id] = delivered[s][id] + 1
  /\ failures' \in 0..MaxFailures
  /\ UNCHANGED <<session, nextTaskId, stage, calls, crashes, loaded>>

LEMMA DueTasks ==
  ASSUME TaskInv, session \in Sessions, NEW id \in Due
  PROVE  /\ id \in DOMAIN tasks /\ id \in Ids /\ tasks[id] \in Task
         /\ id \notin PendingIds /\ tasks[id].status # "running"
         /\ id \notin notified /\ delivered[session][id] = 0
BY DEF TaskInv, TasksTyped, TaskTypeOK, Told, Due

LEMMA TellStep ==
  ASSUME TaskInv, NEW newly, NEW marked, Tells(newly, marked)
  PROVE  TaskInv' /\ StaysFinal
<1>1. session \in Sessions /\ newly \subseteq Due /\ marked \subseteq newly
  BY DEF Tells
<1>2. \A id \in newly :
        /\ id \in DOMAIN tasks /\ id \in Ids /\ tasks[id] \in Task
        /\ id \notin PendingIds /\ tasks[id].status # "running"
        /\ id \notin notified /\ delivered[session][id] = 0
  BY <1>1, DueTasks
<1>3. /\ disk' = Records'
      /\ \A r \in Sessions : /\ DOMAIN disk'[r] \subseteq Ids
                             /\ \A id \in DOMAIN disk'[r] : disk'[r][id] \in Record
  <2>1. ASSUME NEW id \in marked PROVE disk'[session][id] \in Record
    <3>1. disk'[session][id] = [task |-> tasks[id], notified |-> TRUE] BY DEF Tells
    <3>2. tasks[id] \in Task BY <1>1, <1>2
    <3> QED BY <3>1, <3>2 DEF Record
  <2>2. marked \in SUBSET Ids /\ Writes(session, marked) BY <1>1, <1>2 DEF Tells
  <2> QED BY <1>1, <2>1, <2>2, WrittenTyped
<1>4. PendingIds' = PendingIds BY DEF Tells, PendingIds
<1>5. TaskTypeOK'
  <2>1. TaskTypeOK BY DEF TaskInv, TasksTyped
  <2>2. /\ DOMAIN tasks' \subseteq DOMAIN tasks /\ notified' \subseteq DOMAIN tasks'
        /\ \A id \in DOMAIN tasks' : tasks'[id] = tasks[id]
        /\ PendingIds \subseteq DOMAIN tasks'
        /\ delivered' \in [Sessions -> [Ids -> 0..2]] /\ failures' \in 0..MaxFailures
        /\ UNCHANGED <<session, nextTaskId, stage, calls, crashes, loaded>>
    BY DEF Tells
  <2> HIDE DEF PendingIds
  <2> QED BY <1>3, <1>4, <2>1, <2>2 DEF TaskTypeOK
<1>6. TasksTyped' BY <1>3, <1>5 DEF TaskInv, TasksTyped, Tells
<1>7. Numbered'
  <2>1. DOMAIN disk'[session] \subseteq DOMAIN tasks \cup DOMAIN disk[session]
    BY <1>1, <1>2 DEF Tells, Writes
  <2> QED BY <1>1, <2>1 DEF Tells, TaskInv, Numbered
<1>8. Told'
  <2>1. ASSUME NEW id \in notified'
        PROVE  id \notin PendingIds' /\ tasks'[id].status # "running"
    <3>1. (id \in notified \/ id \in newly) /\ tasks'[id] = tasks[id]
      BY <2>1 DEF Tells
    <3> QED BY <1>2, <1>4, <3>1 DEF TaskInv, Told
  <2>2. ASSUME NEW id \in DOMAIN tasks', id \notin notified'
        PROVE  delivered'[session][id] = 0
    <3>1. id \in DOMAIN tasks /\ id \notin notified /\ id \notin newly /\ id \in Ids
      BY <2>2 DEF Tells, TaskInv, TasksTyped, TaskTypeOK
    <3>2. delivered'[session][id] = delivered[session][id]
      BY <1>1, <3>1 DEF Tells
    <3> QED BY <1>1, <3>1, <3>2 DEF TaskInv, Told
  <2>3. session' = session BY DEF Tells
  <2> QED BY <2>1, <2>2, <2>3 DEF Told
<1>9. Recorded'
  <2>1. ASSUME NEW s \in Sessions, NEW id \in Ids, delivered'[s][id] # 0
        PROVE  delivered'[s][id] = 1 /\ id \in DOMAIN disk'[s] /\ disk'[s][id].notified
    <3>1. CASE s = session /\ id \in marked
      <4>1. delivered[s][id] = 0 BY <1>1, <1>2, <3>1
      <4>2. delivered'[s][id] = delivered[s][id] \/ delivered'[s][id] = delivered[s][id] + 1
        BY DEF Tells
      <4>3. delivered'[s][id] = 1 BY <2>1, <4>1, <4>2
      <4>4. disk'[s][id] = [task |-> tasks[id], notified |-> TRUE] BY <3>1 DEF Tells
      <4>5. id \in DOMAIN disk'[s] BY <3>1 DEF Tells, Writes
      <4> QED BY <4>3, <4>4, <4>5
    <3>2. CASE s # session \/ id \notin marked
      <4>1. delivered'[s][id] = delivered[s][id] BY <3>2 DEF Tells
      <4>2. delivered[s][id] = 1 /\ id \in DOMAIN disk[s] /\ disk[s][id].notified
        BY <2>1, <4>1 DEF TaskInv, Recorded
      <4>3. id \in DOMAIN disk'[s] /\ disk'[s][id] = disk[s][id]
        BY <3>2, <4>2 DEF Tells, Writes
      <4> QED BY <4>1, <4>2, <4>3
    <3> QED BY <3>1, <3>2
  <2>2. ASSUME NEW s \in Sessions, NEW id \in DOMAIN disk'[s], disk'[s][id].notified
        PROVE  disk'[s][id].task.status # "running"
    <3>1. CASE s = session /\ id \in marked
      <4>1. disk'[s][id] = [task |-> tasks[id], notified |-> TRUE] BY <3>1 DEF Tells
      <4>2. tasks[id].status # "running" BY <1>1, <1>2, <3>1
      <4> QED BY <4>1, <4>2
    <3>2. CASE s # session \/ id \notin marked
      <4>1. id \in DOMAIN disk[s] /\ disk'[s][id] = disk[s][id]
        BY <2>2, <3>2 DEF Tells, Writes
      <4> QED BY <2>2, <4>1 DEF TaskInv, Recorded
    <3> QED BY <3>1, <3>2
  <2> QED BY <2>1, <2>2 DEF Recorded
<1>10. StaysFinal
  <2>1. \A s \in Sessions : DOMAIN disk[s] \subseteq Ids
    BY DEF TaskInv, TasksTyped, TaskTypeOK
  <2> QED BY <1>1, <1>2, <2>1 DEF Tells, Writes, StaysFinal
<1> QED BY <1>6, <1>7, <1>8, <1>9, <1>10 DEF TaskInv

(* drainNotifications: what is due is marked, and only what was told goes. *)
LEMMA MarkedRecords ==
  ASSUME TaskInv, session \in Sessions, NEW ids \in SUBSET Due,
         disk' = [disk EXCEPT ![session] =
           Over([i \in ids |-> RecordOf(tasks[i], TRUE)], @)]
  PROVE  /\ Writes(session, ids)
         /\ \A i \in ids : disk'[session][i] = [task |-> tasks[i], notified |-> TRUE]
<1> DEFINE f == [i \in ids |-> RecordOf(tasks[i], TRUE)]
<1>1. Writes(session, DOMAIN f) /\ \A i \in DOMAIN f : disk'[session][i] = f[i]
  <2>1. disk' = [disk EXCEPT ![session] = Over(f, @)] OBVIOUS
  <2> HIDE DEF f
  <2> QED BY <2>1, Saved
<1>2. DOMAIN f = ids /\ \A i \in ids : f[i] = [task |-> tasks[i], notified |-> TRUE]
  BY DEF RecordOf
<1> HIDE DEF f
<1> QED BY <1>1, <1>2

LEMMA DrainStep ==
  ASSUME TaskInv, Drain
  PROVE  GoodStep
<1> DEFINE due == Due
           told == notified \cup due
           kept == DOMAIN tasks \ Excess(tasks, PendingIds, told)
<1>1. /\ due # {} /\ failures' = failures
      /\ disk' = [disk EXCEPT ![session] =
           Over([i \in due |-> RecordOf(tasks[i], TRUE)], @)]
      /\ tasks' = Restrict(tasks, kept) /\ notified' = told \cap kept
      /\ delivered' = [delivered EXCEPT ![session] =
           [i \in Ids |-> IF i \in due /\ @[i] < 2 THEN @[i] + 1 ELSE @[i]]]
      /\ UNCHANGED <<session, nextTaskId, stage, calls, crashes, loaded>>
  BY DEF Drain, Saves, Pruned
<1>2. session \in Sessions
  <2>1. PICK id \in due : TRUE BY <1>1
  <2>2. id \in DOMAIN tasks BY DEF Due
  <2> QED BY <2>2, InSession
<1>3. \A id \in due :
        /\ id \in DOMAIN tasks /\ id \in Ids /\ tasks[id] \in Task
        /\ id \notin PendingIds /\ tasks[id].status # "running"
        /\ id \notin notified /\ delivered[session][id] = 0
  BY <1>2, DueTasks
<1>4. Excess(tasks, PendingIds, told) \cap PendingIds = {}
  BY DEF Excess, Finished
<1>5. PendingIds \subseteq DOMAIN tasks BY DEF TaskInv, TasksTyped, TaskTypeOK
<1>6. delivered \in [Sessions -> [Ids -> 0..2]] /\ failures \in 0..MaxFailures
  BY DEF TaskInv, TasksTyped, TaskTypeOK
<1> HIDE DEF due
<1>7. /\ delivered' \in [Sessions -> [Ids -> 0..2]]
      /\ \A s \in Sessions, id \in Ids :
           IF s = session /\ id \in due
             THEN delivered'[s][id] = delivered[s][id] + 1
             ELSE delivered'[s][id] = delivered[s][id]
  <2> DEFINE row == [i \in Ids |-> IF i \in due /\ delivered[session][i] < 2
                                           THEN delivered[session][i] + 1
                                           ELSE delivered[session][i]]
  <2>1. delivered' = [delivered EXCEPT ![session] = row] BY <1>1
  <2>2. row \in [Ids -> 0..2] BY <1>2, <1>6
  <2>3. \A i \in Ids : row[i] = IF i \in due THEN delivered[session][i] + 1
                                      ELSE delivered[session][i]
    BY <1>2, <1>3, <1>6
  <2> HIDE DEF row
  <2> QED BY <1>2, <1>6, <2>1, <2>2, <2>3
<1>8. /\ Writes(session, due)
      /\ \A i \in due : disk'[session][i] = [task |-> tasks[i], notified |-> TRUE]
  BY <1>1, <1>2, MarkedRecords DEF due
<1>9. Tells(due, due)
  <2>1. kept \subseteq DOMAIN tasks /\ PendingIds \subseteq kept BY <1>4, <1>5
  <2>2. notified' = (notified \cup due) \cap kept BY <1>1
  <2>3. tasks' = Restrict(tasks, kept) BY <1>1
  <2> HIDE DEF kept, told
  <2>4. DOMAIN tasks' = kept /\ \A id \in kept : tasks'[id] = tasks[id]
    BY <2>1, <2>3 DEF Restrict
  <2> QED BY <1>1, <1>2, <1>6, <1>7, <1>8, <2>1, <2>2, <2>4 DEF Tells, due
<1>10. MarksReported
  <2>1. ASSUME NEW s \in Sessions, NEW id \in DOMAIN disk[s] \cap DOMAIN disk'[s],
               disk'[s][id].notified
        PROVE  disk[s][id].notified \/ delivered'[s][id] > delivered[s][id]
    <3>1. CASE s = session /\ id \in due
      <4>1. delivered'[s][id] = 1 /\ delivered[s][id] = 0 BY <1>2, <1>3, <1>7, <3>1
      <4> QED BY <4>1
    <3>2. CASE s # session \/ id \notin due BY <1>8, <2>1, <3>2 DEF Writes
    <3> QED BY <3>1, <3>2
  <2> QED BY <2>1 DEF MarksReported
<1>11. StaysDue
  <2>1. ASSUME NEW id \in due PROVE delivered'[session][id] > delivered[session][id]
    <3>1. delivered'[session][id] = 1 /\ delivered[session][id] = 0 BY <1>2, <1>3, <1>7
    <3> QED BY <3>1
  <2> QED BY <2>1 DEF StaysDue, due
<1> QED BY <1>9, <1>10, <1>11, TellStep DEF GoodStep

(* A write fails on the way: nothing is reported.                          *)
LEMMA DrainFailsStep ==
  ASSUME TaskInv, DrainFails
  PROVE  GoodStep
<1>1. PICK bad \in Due :
        /\ notified' = notified \cup {i \in Due : i <= bad}
        /\ disk' = [disk EXCEPT ![session] = Over(
             [i \in {j \in Due : j < bad} |-> RecordOf(tasks[i], TRUE)], @)]
  BY DEF DrainFails
<1> DEFINE newly == {i \in Due : i <= bad}
           marked == {j \in Due : j < bad}
<1>2. /\ failures < MaxFailures /\ failures' = failures + 1
      /\ UNCHANGED <<session, nextTaskId, tasks, stage, calls, crashes, loaded, delivered>>
  BY DEF DrainFails, SaveFails, hist
<1>3. /\ failures \in 0..MaxFailures /\ MaxFailures \in Nat
      /\ PendingIds \subseteq DOMAIN tasks /\ notified \subseteq DOMAIN tasks
      /\ delivered \in [Sessions -> [Ids -> 0..2]]
  BY TaskAssumption DEF TaskInv, TasksTyped, TaskTypeOK
<1>4. Due \subseteq DOMAIN tasks BY DEF Due
<1>5. session \in Sessions BY <1>4, InSession
<1>6. marked \subseteq newly
  <2>1. Due \subseteq Int
    BY <1>4 DEF TaskInv, TasksTyped, TaskTypeOK, Ids
  <2>2. \A i \in marked : i \in Due /\ i \in Int /\ bad \in Int /\ i < bad BY <2>1
  <2>3. \A i \in marked : i <= bad BY <2>2
  <2> QED BY <2>2, <2>3
<1>7. /\ Writes(session, marked)
      /\ \A i \in marked : disk'[session][i] = [task |-> tasks[i], notified |-> TRUE]
  <2>1. marked \in SUBSET Due OBVIOUS
  <2>2. disk' = [disk EXCEPT ![session] =
          Over([i \in marked |-> RecordOf(tasks[i], TRUE)], @)]
    BY <1>1
  <2> HIDE DEF marked
  <2> QED BY <1>5, <2>1, <2>2, MarkedRecords
<1>8. Tells(newly, marked)
  <2>1. notified' = (notified \cup newly) \cap DOMAIN tasks' BY <1>1, <1>2, <1>3, <1>4
  <2>2. failures' \in 0..MaxFailures BY <1>2, <1>3
  <2>3. newly \subseteq Due OBVIOUS
  <2> HIDE DEF newly, marked
  <2> QED BY <1>2, <1>3, <1>5, <1>6, <1>7, <2>1, <2>2, <2>3 DEF Tells
<1>9. failures' # failures BY <1>2, <1>3
<1> HIDE DEF newly, marked
<1> QED BY <1>8, <1>9, TellStep DEF GoodStep

(* CounterPast: the number after those of the records and of the counter.  *)
LEMMA CounterPasses ==
  ASSUME TaskInv, NEW ids \in SUBSET Ids
  PROVE  /\ CounterPast(ids) \in 1..MaxTasks + 1 /\ nextTaskId <= CounterPast(ids)
         /\ \A id \in ids : id < CounterPast(ids)
<1> DEFINE S == {nextTaskId} \cup {id + 1 : id \in ids}
<1>1. MaxTasks \in Nat /\ nextTaskId \in 1..MaxTasks + 1
  BY TaskAssumption DEF TaskInv, TasksTyped, TaskTypeOK
<1>2. \A id \in ids : id \in Nat /\ id + 1 \in 1..MaxTasks + 1 BY <1>1 DEF Ids
<1>3. S \in SUBSET (1..MaxTasks + 1) /\ S # {} BY <1>1, <1>2
<1>4. nextTaskId \in S /\ \A id \in ids : id + 1 \in S OBVIOUS
<1>5. CounterPast(ids) = Max(S) BY DEF CounterPast
<1> HIDE DEF S
<1>6. IsFiniteSet(S)
  <2>1. IsFiniteSet(1..MaxTasks + 1) BY <1>1, FS_Interval
  <2> QED BY <1>3, <2>1, FS_Subset
<1>7. \E x \in S : \A y \in S : x >= y
  <2> DEFINE n == Cardinality(S)
  <2>1. S \in SUBSET Nat BY <1>3
  <2>2. /\ n \in Nat
        /\ \A i \in S : Rank(S, i) \in 1..n
        /\ \A i, j \in S : i < j => Rank(S, i) < Rank(S, j)
        /\ \A k \in 1..n : Nth(S, k) \in S /\ Rank(S, Nth(S, k)) = k
    BY <1>6, <2>1, InOrder
  <2> HIDE DEF n
  <2>3. n \in 1..n
    <3>1. PICK i \in S : TRUE BY <1>3
    <3> QED BY <2>2, <3>1
  <2>4. PICK x \in S : Rank(S, x) = n BY <2>2, <2>3
  <2>5. ASSUME NEW y \in S PROVE x >= y
    <3>1. ~(x < y) BY <2>2, <2>4
    <3> QED BY <2>1, <3>1
  <2> QED BY <2>5
<1>8. Max(S) \in S /\ \A y \in S : Max(S) >= y BY <1>7 DEF Max
<1>9. Max(S) \in 1..MaxTasks + 1 BY <1>3, <1>8
<1>10. ASSUME NEW id \in ids PROVE id < Max(S)
  BY <1>1, <1>2, <1>4, <1>8, <1>9
<1>11. nextTaskId <= Max(S) BY <1>1, <1>4, <1>8, <1>9
<1> QED BY <1>5, <1>9, <1>10, <1>11

(* A session is loaded: some of its tasks, and some of its records are     *)
(* written again, of tasks that were interrupted.                          *)
Reloads(s, kept, saved) ==
  /\ s \in Sessions /\ session' = s /\ PendingIds = {}
  /\ kept \subseteq DOMAIN disk[s] /\ DOMAIN tasks' = kept
  /\ \A id \in kept : tasks'[id] = Restored(disk[s][id].task)
  /\ notified' = {id \in kept : disk[s][id].notified}
  /\ saved \subseteq DOMAIN disk[s]
  /\ \A id \in saved : disk[s][id].task.status = "running"
  /\ Writes(s, saved)
  /\ \A id \in saved : disk'[s][id] \in Record /\ ~disk'[s][id].notified
  /\ nextTaskId' \in 1..MaxTasks + 1 /\ \A id \in kept : id < nextTaskId'
  /\ loaded' \in BOOLEAN
  /\ loaded' => \A id \in DOMAIN disk[s] : id < nextTaskId'
  /\ failures' \in 0..MaxFailures
  /\ failures' = failures =>
       \A id \in DOMAIN disk[s] : ~disk[s][id].notified => id \in kept
  /\ UNCHANGED <<stage, calls, crashes, delivered>>

LEMMA InterruptedTask ==
  ASSUME NEW t \in Task
  PROVE  Restored(t) \in Task /\ Restored(t).status # "running"
BY DEF Restored, Task, Statuses

LEMMA ReloadStep ==
  ASSUME TaskInv, NEW s, NEW kept, NEW saved, Reloads(s, kept, saved)
  PROVE  GoodStep
<1>1. s \in Sessions /\ kept \subseteq DOMAIN disk[s] /\ saved \subseteq DOMAIN disk[s]
      /\ Writes(s, saved) /\ session' = s /\ PendingIds' = {} /\ DOMAIN tasks' = kept
  BY DEF Reloads, PendingIds
<1>2. DOMAIN disk[s] \subseteq Ids /\ \A id \in DOMAIN disk[s] : disk[s][id] \in Record
  BY <1>1 DEF TaskInv, TasksTyped, TaskTypeOK
<1>3. /\ disk' = Records'
      /\ \A r \in Sessions : /\ DOMAIN disk'[r] \subseteq Ids
                             /\ \A id \in DOMAIN disk'[r] : disk'[r][id] \in Record
  <2>1. saved \in SUBSET Ids BY <1>1, <1>2
  <2>2. \A id \in saved : disk'[s][id] \in Record BY DEF Reloads
  <2> QED BY <1>1, <2>1, <2>2, WrittenTyped
<1>4. ASSUME NEW id \in kept
      PROVE  /\ id \in Ids /\ tasks'[id] \in Task /\ tasks'[id].status # "running"
             /\ ~disk[s][id].notified => delivered[s][id] = 0
  <2>1. id \in Ids /\ disk[s][id].task \in Task BY <1>1, <1>2 DEF Record
  <2>2. tasks'[id] = Restored(disk[s][id].task) BY DEF Reloads
  <2>3. ~disk[s][id].notified => delivered[s][id] = 0 BY <1>1, <2>1 DEF TaskInv, Recorded
  <2> QED BY <2>1, <2>2, <2>3, InterruptedTask
<1>5. \A r \in Sessions : \A id \in DOMAIN disk[r] : disk[r][id].notified =>
        id \in DOMAIN disk'[r] /\ disk'[r][id] = disk[r][id]
  <2>1. \A id \in saved : ~disk[s][id].notified BY <1>1 DEF Reloads, TaskInv, Recorded
  <2> QED BY <1>1, <2>1 DEF Writes
<1>6. \A r \in Sessions : \A id \in DOMAIN disk'[r] : disk'[r][id].notified =>
        id \in DOMAIN disk[r] /\ disk'[r][id] = disk[r][id]
  BY <1>1 DEF Reloads, Writes
<1>7. TaskTypeOK'
  <2>1. TaskTypeOK BY DEF TaskInv, TasksTyped
  <2>2. /\ notified' \subseteq DOMAIN tasks' /\ nextTaskId' \in 1..MaxTasks + 1
        /\ loaded' \in BOOLEAN /\ failures' \in 0..MaxFailures
        /\ UNCHANGED <<stage, calls, crashes, delivered>>
    BY <1>1 DEF Reloads
  <2> QED BY <1>1, <1>3, <1>4, <2>1, <2>2 DEF TaskTypeOK
<1>8. TasksTyped' BY <1>3, <1>7 DEF TaskInv, TasksTyped, Reloads
<1>9. Numbered' BY <1>1 DEF Reloads, Writes, Numbered
<1>10. Told' BY <1>1, <1>4 DEF Reloads, Told
<1>11. Recorded'
  <2>1. ASSUME NEW r \in Sessions, NEW id \in Ids, delivered'[r][id] # 0
        PROVE  delivered'[r][id] = 1 /\ id \in DOMAIN disk'[r] /\ disk'[r][id].notified
    <3>1. delivered' = delivered BY DEF Reloads
    <3>2. delivered[r][id] = 1 /\ id \in DOMAIN disk[r] /\ disk[r][id].notified
      BY <2>1, <3>1 DEF TaskInv, Recorded
    <3> QED BY <1>5, <3>1, <3>2
  <2>2. ASSUME NEW r \in Sessions, NEW id \in DOMAIN disk'[r], disk'[r][id].notified
        PROVE  disk'[r][id].task.status # "running"
    BY <1>6, <2>2 DEF TaskInv, Recorded
  <2> QED BY <2>1, <2>2 DEF Recorded
<1>12. StaysFinal
  <2>1. ASSUME NEW r \in Sessions, NEW id \in DOMAIN disk[r], delivered[r][id] = 1
        PROVE  disk[r][id].notified
    <3>1. id \in Ids BY DEF TaskInv, TasksTyped, TaskTypeOK
    <3> QED BY <2>1, <3>1 DEF TaskInv, Recorded
  <2> QED BY <1>5, <2>1 DEF StaysFinal
<1>13. MarksReported BY <1>6 DEF MarksReported
<1>14. ASSUME failures' = failures PROVE StaysDue
  <2>1. ASSUME session' = session, NEW id \in DOMAIN disk[session], ~disk[session][id].notified
        PROVE  id \in Due'
    <3>1. session = s BY <1>1, <2>1
    <3>2. id \in kept BY <1>14, <2>1, <3>1 DEF Reloads
    <3>3. id \notin notified' BY <2>1, <3>1 DEF Reloads
    <3>4. tasks'[id].status # "running" BY <1>4, <3>2
    <3> QED BY <1>1, <3>2, <3>3, <3>4 DEF Due
  <2> QED BY <2>1 DEF StaysDue
<1> QED BY <1>8, <1>9, <1>10, <1>11, <1>12, <1>13, <1>14 DEF GoodStep, TaskInv

(* The records useSession writes again say that the task failed.           *)
LEMMA InterruptedRecords ==
  ASSUME TaskInv, NEW s \in Sessions, NEW ids \in SUBSET DOMAIN disk[s], NEW restored,
         restored = [id \in DOMAIN disk[s] |-> Restored(disk[s][id].task)],
         disk' = [disk EXCEPT ![s] =
           Over([id \in ids |-> RecordOf(restored[id], FALSE)], @)]
  PROVE  /\ Writes(s, ids)
         /\ \A id \in ids : disk'[s][id] \in Record /\ ~disk'[s][id].notified
<1> DEFINE f == [id \in ids |-> RecordOf(restored[id], FALSE)]
<1>1. Writes(s, DOMAIN f) /\ \A i \in DOMAIN f : disk'[s][i] = f[i]
  <2>1. disk' = [disk EXCEPT ![s] = Over(f, @)] OBVIOUS
  <2> HIDE DEF f
  <2> QED BY <2>1, Saved
<1>2. DOMAIN f = ids /\ \A id \in ids : f[id] = [task |-> restored[id], notified |-> FALSE]
  BY DEF RecordOf
<1>3. ASSUME NEW id \in ids PROVE restored[id] \in Task
  <2>1. disk[s][id].task \in Task
    BY DEF TaskInv, TasksTyped, TaskTypeOK, Record
  <2>2. restored[id] = Restored(disk[s][id].task) OBVIOUS
  <2> QED BY <2>1, <2>2, InterruptedTask
<1> HIDE DEF f
<1>4. ASSUME NEW id \in ids PROVE f[id] \in Record /\ ~f[id].notified
  <2>1. f[id] = [task |-> restored[id], notified |-> FALSE] BY <1>2
  <2>2. [task |-> restored[id], notified |-> FALSE] \in Record
    BY <1>3 DEF Record
  <2> QED BY <2>1, <2>2
<1> QED BY <1>1, <1>2, <1>4

LEMMA UseSessionStep ==
  ASSUME TaskInv, NEW s \in Sessions, UseSession(s)
  PROVE  GoodStep
<1> DEFINE ids == DOMAIN disk[s]
           running == {id \in ids : disk[s][id].task.status = "running"}
           restored == [id \in ids |-> Restored(disk[s][id].task)]
           told == {id \in ids : disk[s][id].notified}
           all == ids \ Excess(restored, {}, told)
           rewritten(some) == [disk EXCEPT ![s] = Over(
             [id \in running \cap some |-> RecordOf(restored[id], FALSE)], @)]
           before(bad) == {id \in ids : id < bad}
<1>1. /\ PendingIds = {} /\ session' = s /\ UNCHANGED <<stage, calls, crashes, delivered>>
      /\ \/ /\ tasks' = Restrict(restored, all) /\ notified' = told \cap all
            /\ disk' = rewritten(ids) /\ nextTaskId' = CounterPast(ids)
            /\ loaded' = TRUE /\ failures' = failures
         \/ \E bad \in running :
              /\ SaveFails
              /\ tasks' = Restrict(restored, before(bad))
              /\ notified' = told \cap before(bad)
              /\ disk' = rewritten(before(bad))
              /\ nextTaskId' = CounterPast(before(bad) \cup {bad})
              /\ loaded' = FALSE
  BY DEF UseSession, Pruned
<1>2. /\ ids \subseteq Ids /\ running \subseteq ids
      /\ failures \in 0..MaxFailures /\ MaxFailures \in Nat
  BY TaskAssumption DEF TaskInv, TasksTyped, TaskTypeOK
<1>3. all \subseteq ids /\ \A id \in ids : ~disk[s][id].notified => id \in all
  BY DEF Excess, Finished
<1>4. ASSUME NEW some \in SUBSET ids, tasks' = Restrict(restored, some)
      PROVE  /\ DOMAIN tasks' = some
             /\ \A id \in some : tasks'[id] = Restored(disk[s][id].task)
  BY <1>4 DEF Restrict
<1>5. ASSUME NEW some \in SUBSET ids, disk' = rewritten(some)
      PROVE  /\ Writes(s, running \cap some)
             /\ \A id \in running \cap some :
                  disk'[s][id] \in Record /\ ~disk'[s][id].notified
  <2>1. running \cap some \in SUBSET DOMAIN disk[s] OBVIOUS
  <2>2. disk' = [disk EXCEPT ![s] = Over(
           [id \in running \cap some |-> RecordOf(restored[id], FALSE)], @)]
    BY <1>5
  <2>3. restored = [id \in DOMAIN disk[s] |-> Restored(disk[s][id].task)] OBVIOUS
  <2> HIDE DEF running, restored
  <2> QED BY <2>1, <2>2, <2>3, InterruptedRecords
<1>6. \A id \in running : disk[s][id].task.status = "running" OBVIOUS
<1> HIDE DEF restored, rewritten, all
<1>7. CASE /\ tasks' = Restrict(restored, all) /\ notified' = told \cap all
           /\ disk' = rewritten(ids) /\ nextTaskId' = CounterPast(ids)
           /\ loaded' = TRUE /\ failures' = failures
  <2>1. DOMAIN tasks' = all
        /\ \A id \in all : tasks'[id] = Restored(disk[s][id].task)
    BY <1>3, <1>4, <1>7
  <2>2. /\ Writes(s, running \cap ids)
        /\ \A id \in running \cap ids :
             disk'[s][id] \in Record /\ ~disk'[s][id].notified
    BY <1>5, <1>7
  <2>3. nextTaskId' \in 1..MaxTasks + 1 /\ \A id \in ids : id < nextTaskId'
    BY <1>2, <1>7, CounterPasses
  <2>4. notified' = {id \in all : disk[s][id].notified} BY <1>3, <1>7
  <2>5. running \cap ids \subseteq DOMAIN disk[s]
        /\ \A id \in running \cap ids : disk[s][id].task.status = "running"
    BY <1>6
  <2> HIDE DEF running
  <2>6. Reloads(s, all, running \cap ids)
    BY <1>1, <1>2, <1>3, <1>7, <2>1, <2>2, <2>3, <2>4, <2>5 DEF Reloads
  <2> QED BY <2>6, ReloadStep
<1>8. ASSUME NEW bad \in running, SaveFails,
             tasks' = Restrict(restored, before(bad)),
             notified' = told \cap before(bad), disk' = rewritten(before(bad)),
             nextTaskId' = CounterPast(before(bad) \cup {bad}), loaded' = FALSE
      PROVE  GoodStep
  <2> DEFINE some == before(bad)
  <2>0. some \subseteq ids /\ some \cup {bad} \in SUBSET Ids BY <1>2
  <2>1. DOMAIN tasks' = some
        /\ \A id \in some : tasks'[id] = Restored(disk[s][id].task)
    BY <1>4, <1>8, <2>0
  <2>2. /\ Writes(s, running \cap some)
        /\ \A id \in running \cap some :
             disk'[s][id] \in Record /\ ~disk'[s][id].notified
    BY <1>5, <1>8, <2>0
  <2>3. nextTaskId' \in 1..MaxTasks + 1 /\ \A id \in some : id < nextTaskId'
    BY <1>8, <2>0, CounterPasses
  <2>4. notified' = {id \in some : disk[s][id].notified} BY <1>8
  <2>5. running \cap some \subseteq DOMAIN disk[s]
        /\ \A id \in running \cap some : disk[s][id].task.status = "running"
    BY <1>6
  <2>6. failures' \in 0..MaxFailures /\ failures' # failures
    BY <1>2, <1>8 DEF SaveFails
  <2>7. loaded' = FALSE BY <1>8
  <2> HIDE DEF running, some
  <2>8. Reloads(s, some, running \cap some)
    BY <1>1, <2>0, <2>1, <2>2, <2>3, <2>4, <2>5, <2>6, <2>7 DEF Reloads
  <2> QED BY <2>8, ReloadStep
<1> QED BY <1>1, <1>7, <1>8

LEMMA NextTasks ==
  ASSUME TaskInv, [TaskNext]_taskVars
  PROVE  GoodStep
<1>1. ASSUME NEW kind \in Kinds, Create(kind) PROVE GoodStep BY <1>1, CreateStep
<1>2. ASSUME NEW id \in Ids, Runs(id) \/ Stop(id) PROVE GoodStep
  <2>1. CASE StartTask(id) BY <2>1, CallStep
  <2>2. CASE \E kind \in {"output", "TaskFailure", "error"} : Settle(id, kind)
    BY <2>2, SettleStep
  <2>3. CASE Finally(id) BY <2>3, FinallyStep
  <2>4. CASE Stop(id) BY <2>4, StopTaskStep
  <2> QED BY <1>2, <2>1, <2>2, <2>3, <2>4 DEF Runs
<1>3. ASSUME NEW name \in Callers, CallBegins(name) \/ CallGoesOn(name) PROVE GoodStep
  BY <1>3, CallStep DEF CallGoesOn
<1>4. CASE StopPass BY <1>4, StopPassStep
<1>5. CASE WaitPass BY <1>5, CallStep
<1>6. CASE Drain BY <1>6, DrainStep
<1>7. CASE DrainFails BY <1>7, DrainFailsStep
<1>8. CASE Clear \/ Crash BY <1>8, EmptiesStep
<1>9. ASSUME NEW s \in Sessions, UseSession(s) PROVE GoodStep BY <1>9, UseSessionStep
<1>10. CASE UNCHANGED taskVars
  <2>1. /\ UNCHANGED <<session, nextTaskId, tasks, notified, stage, calls, disk, failures,
                       crashes, loaded, delivered>>
        /\ calls \in [Callers -> CallState]
        /\ \A id \in DOMAIN stage : stage[id] \in {"created", "started", "settled"}
    BY <1>10 DEF taskVars, TaskInv, TasksTyped, TaskTypeOK, PendingIds
  <2> QED BY <2>1, QuietTasks
<1> QED
  BY <1>1, <1>2, <1>3, <1>4, <1>5, <1>6, <1>7, <1>8, <1>9, <1>10 DEF TaskNext

LEMMA TasksStay == TaskSpec => []TaskInv
<1>1. TaskInit => TaskInv BY InitTasks
<1>2. TaskInv /\ [TaskNext]_taskVars => TaskInv' BY NextTasks DEF GoodStep
<1> QED BY <1>1, <1>2, PTL DEF TaskSpec

(* A conversation hears of a task once at most, whatever is restored,      *)
(* switched, pruned, killed or cannot be written in between                *)
(* (drainNotifications, useSession).                                       *)
THEOREM ToldOnce == TaskSpec => []ReportedOnce
<1>1. TaskInv => ReportedOnce
  BY DEF TaskInv, TasksTyped, Recorded, TaskTypeOK, ReportedOnce
<1> QED BY <1>1, TasksStay, PTL

(* A record that was reported never changes again: whoever reads it later  *)
(* reads what the conversation was told (persist, useSession).             *)
THEOREM ToldStaysTold == TaskSpec => ReportedFinal
<1>1. TaskInv /\ [TaskNext]_taskVars => StaysFinal BY NextTasks DEF GoodStep
<1>2. StaysFinal =>
        \A s \in Sessions : \A id \in DOMAIN disk[s] :
          loaded /\ delivered[s][id] = 1 => id \in DOMAIN disk'[s] /\ disk'[s][id] = disk[s][id]
  BY DEF StaysFinal
<1> QED BY <1>1, <1>2, TasksStay, PTL DEF TaskSpec, ReportedFinal

(* No result is forgotten: a record is marked only by the report of its    *)
(* task, and what is due stays due until it is reported, the session is    *)
(* left or cleared, or a write fails (drainNotifications, pruneCompleted,  *)
(* stopAll, useSession).                                                   *)
THEOREM ResultsAreDelivered == TaskSpec => NothingForgotten
<1>1. TaskInv /\ [TaskNext]_taskVars =>
        (failures' = failures => MarksReported /\ StaysDue)
  BY NextTasks DEF GoodStep
<1>2. (failures' = failures => MarksReported /\ StaysDue) =>
        (failures' = failures =>
          /\ \A s \in Sessions : \A id \in DOMAIN disk[s] \cap DOMAIN disk'[s] :
               disk'[s][id].notified => disk[s][id].notified \/ Reported(s, id)
          /\ session' = session /\ tasks' # NoTasks =>
               \A id \in Due \cap DOMAIN disk[session] :
                 ~disk[session][id].notified =>
                   id \in Due' \/ Reported(session, id))
  BY DEF MarksReported, StaysDue, Reported
<1> QED BY <1>1, <1>2, TasksStay, PTL DEF TaskSpec, NothingForgotten
-----------------------------------------------------------------------------
(* What stopAll has seen needs no second look: its numbers are not given   *)
(* again, and what is still pending of it the call is waiting for.         *)
SeenOnce ==
  "stopAll" \in Callers =>
    /\ \A id \in calls["stopAll"].seen : id < nextTaskId
    /\ \A id \in calls["stopAll"].seen \cap PendingIds :
         calls["stopAll"].at = "await" /\ id \in calls["stopAll"].awaiting

(* Steps of others: numbers are given in order.                            *)
LEMMA SeenByOthers ==
  ASSUME TaskInv, SeenOnce, "stopAll" \in Callers => calls'["stopAll"] = calls["stopAll"],
         nextTaskId' >= nextTaskId, nextTaskId' \in Nat,
         \A id \in PendingIds' : id \in PendingIds \/ id = nextTaskId
  PROVE  SeenOnce'
<1>1. nextTaskId \in Nat BY TaskAssumption DEF TaskInv, TasksTyped, TaskTypeOK
<1>2. "stopAll" \in Callers => calls["stopAll"].seen \subseteq Ids
  BY DEF TaskInv, TasksTyped, CallState
<1>3. \A id \in Ids : id \in Nat BY DEF Ids
<1> QED BY <1>1, <1>2, <1>3 DEF SeenOnce

(* A pass of stopAll sees what is pending and waits for it, or ends.       *)
LEMMA PassSees ==
  ASSUME StopPass, calls \in [Callers -> CallState]
  PROVE  \/ /\ calls'["stopAll"].at = "await"
            /\ calls'["stopAll"].seen = calls["stopAll"].seen \cup ToStop
            /\ calls'["stopAll"].awaiting = ToStop
            /\ \A name \in Callers \ {"stopAll"} : calls'[name] = calls[name]
         \/ calls'["stopAll"] = Idle /\ failures' = failures + 1
<1>1. "stopAll" \in Callers BY DEF StopPass
<1>2. \/ calls' = [calls EXCEPT !["stopAll"] =
           [at |-> "await", seen |-> calls["stopAll"].seen \cup ToStop, awaiting |-> ToStop]]
      \/ SaveFails /\ calls' = [calls EXCEPT !["stopAll"] = Idle]
  BY DEF StopPass
<1> QED BY <1>1, <1>2 DEF SaveFails

LEMMA SeenStep ==
  ASSUME TaskInv, SeenOnce, [TaskNext]_taskVars
  PROVE  SeenOnce'
<1>1. /\ nextTaskId \in Nat /\ calls \in [Callers -> CallState]
      /\ nextTaskId \in 1..MaxTasks + 1 /\ MaxTasks \in Nat
  BY TaskAssumption DEF TaskInv, TasksTyped, TaskTypeOK
<1>2. \A id \in PendingIds : id < nextTaskId /\ id \in Ids
  BY DEF TaskInv, TasksTyped, TaskTypeOK, Numbered
<1>3. ASSUME UNCHANGED <<nextTaskId, calls>>, PendingIds' \subseteq PendingIds PROVE SeenOnce'
  BY <1>1, <1>3, SeenByOthers
<1>4. ASSUME NEW kind \in Kinds, Create(kind) PROVE SeenOnce'
  <2>1. nextTaskId' = nextTaskId + 1 /\ UNCHANGED calls
        /\ PendingIds' = PendingIds \cup {nextTaskId}
    BY <1>4 DEF Create, Put, Over, PendingIds
  <2> QED BY <1>1, <2>1, SeenByOthers
<1>5. ASSUME NEW id \in Ids, Runs(id) \/ Stop(id) PROVE SeenOnce'
  <2>1. UNCHANGED <<nextTaskId, calls>> BY <1>5 DEF Runs, StartTask, Settle, Finally, Stop
  <2>2. CASE StartTask(id) \/ \E kind \in {"output", "TaskFailure", "error"} : Settle(id, kind)
    BY <1>3, <2>1, <2>2 DEF StartTask, Settle, PendingIds
  <2>3. CASE Finally(id)
    <3>1. PendingIds' = PendingIds \cap (PendingIds \ {id})
      BY <2>3 DEF Finally, Restrict, PendingIds
    <3> QED BY <1>3, <2>1, <3>1
  <2>4. CASE Stop(id) BY <1>3, <2>1, <2>4 DEF Stop, PendingIds
  <2> QED BY <1>5, <2>2, <2>3, <2>4 DEF Runs
<1>6. CASE Drain \/ DrainFails \/ Clear
  BY <1>3, <1>6 DEF Drain, DrainFails, Clear, PendingIds
<1>7. CASE Crash
  BY <1>7 DEF Crash, SeenOnce, Idle
<1>8. ASSUME NEW s \in Sessions, UseSession(s) PROVE SeenOnce'
  <2>1. PICK ids \in SUBSET Ids : nextTaskId' = CounterPast(ids)
    <3>1. DOMAIN disk[s] \subseteq Ids BY DEF TaskInv, TasksTyped, TaskTypeOK
    <3>2. CASE nextTaskId' = CounterPast(DOMAIN disk[s]) BY <3>1, <3>2
    <3>3. CASE \E bad \in DOMAIN disk[s] :
                 nextTaskId' = CounterPast({id \in DOMAIN disk[s] : id < bad} \cup {bad})
      <4>1. PICK bad \in DOMAIN disk[s] :
              nextTaskId' = CounterPast({id \in DOMAIN disk[s] : id < bad} \cup {bad})
        BY <3>3
      <4>2. {id \in DOMAIN disk[s] : id < bad} \cup {bad} \in SUBSET Ids BY <3>1
      <4> QED BY <4>1, <4>2
    <3> QED BY <1>8, <3>2, <3>3 DEF UseSession
  <2>2. nextTaskId' \in Nat /\ nextTaskId <= nextTaskId'
    BY <1>1, <2>1, CounterPasses
  <2>3. UNCHANGED <<stage, calls>> BY <1>8 DEF UseSession
  <2> QED BY <1>1, <2>2, <2>3, SeenByOthers DEF PendingIds
<1>9. ASSUME NEW name \in Callers, CallBegins(name) \/ CallGoesOn(name) PROVE SeenOnce'
  <2>1. UNCHANGED <<nextTaskId, stage>>
    BY <1>9 DEF CallBegins, CallGoesOn, NextPass, CallReturns
  <2>2. CASE name # "stopAll"
    <3>1. "stopAll" \in Callers => calls'["stopAll"] = calls["stopAll"]
      BY <1>1, <1>9, <2>2 DEF CallBegins, CallGoesOn, NextPass, CallReturns
    <3> QED BY <1>1, <2>1, <3>1, SeenByOthers DEF PendingIds
  <2>3. CASE name = "stopAll"
    <3>1. calls["stopAll"] \in CallState BY <1>1, <2>3
    <3>2. \/ /\ calls["stopAll"].at = "idle"
             /\ calls'["stopAll"] = [calls["stopAll"] EXCEPT !.at = "pass"]
          \/ /\ calls["stopAll"].at = "await" /\ calls["stopAll"].awaiting \cap PendingIds = {}
             /\ calls'["stopAll"].seen = calls["stopAll"].seen
          \/ calls'["stopAll"] = Idle
      BY <1>1, <1>9, <2>3, <3>1 DEF CallBegins, CallGoesOn, NextPass, CallReturns, CallState
    <3>3. PendingIds' = PendingIds BY <2>1 DEF PendingIds
    <3> QED BY <2>1, <2>3, <3>1, <3>2, <3>3 DEF SeenOnce, Idle, CallState
  <2> QED BY <2>2, <2>3
<1>10. CASE StopPass
  <2>1. /\ "stopAll" \in Callers /\ calls["stopAll"].at = "pass"
        /\ UNCHANGED <<nextTaskId, stage>>
    BY <1>10 DEF StopPass
  <2>2. \/ /\ calls'["stopAll"].at = "await"
           /\ calls'["stopAll"].seen = calls["stopAll"].seen \cup ToStop
           /\ calls'["stopAll"].awaiting = ToStop
        \/ calls'["stopAll"] = Idle
    BY <1>1, <1>10, PassSees
  <2>3. PendingIds' = PendingIds /\ ToStop \subseteq PendingIds
    BY <2>1 DEF PendingIds, ToStop
  <2> QED BY <1>2, <2>1, <2>2, <2>3 DEF SeenOnce, Idle
<1>11. CASE WaitPass
  <2>1. /\ UNCHANGED <<nextTaskId, stage>>
        /\ "stopAll" \in Callers => calls'["stopAll"] = calls["stopAll"]
    BY <1>1, <1>11 DEF WaitPass
  <2> QED BY <1>1, <2>1, SeenByOthers DEF PendingIds
<1>12. CASE UNCHANGED taskVars BY <1>3, <1>12 DEF taskVars, PendingIds
<1> QED
  BY <1>4, <1>5, <1>6, <1>7, <1>8, <1>9, <1>10, <1>11, <1>12 DEF TaskNext

(* When stopAll returns nothing is pending, though it looks at each task   *)
(* once and tasks are created and end while it waits; after waitAll only   *)
(* shell commands are.  A failing write ends stopAll early (stopAll,       *)
(* waitAll).                                                               *)
THEOREM StopAllStopsAll == TaskSpec => CallsSettle
<1> DEFINE Settled == session' = session /\ failures' = failures =>
                        /\ Returns("stopAll") => PendingIds = {}
                        /\ Returns("waitAll") => \A id \in PendingIds : tasks[id].kind = "shell"
<1>1. TaskInit => SeenOnce
  BY DEF TaskInit, SeenOnce, Idle
<1>2. TaskInv /\ SeenOnce /\ [TaskNext]_taskVars => SeenOnce' BY SeenStep
<1>3. TaskInv /\ SeenOnce /\ [TaskNext]_taskVars => Settled
  <2> SUFFICES ASSUME TaskInv, SeenOnce, [TaskNext]_taskVars,
                      session' = session, failures' = failures,
                      NEW name \in {"stopAll", "waitAll"}, Returns(name)
               PROVE  IF name = "stopAll" THEN PendingIds = {}
                      ELSE \A id \in PendingIds : tasks[id].kind = "shell"
    OBVIOUS
  <2>1. /\ calls \in [Callers -> CallState] /\ failures \in Nat /\ NoSession \notin Sessions
        /\ name \in Callers /\ calls[name].at # "idle" /\ calls'[name].at = "idle"
    BY TaskAssumption DEF TaskInv, TasksTyped, TaskTypeOK, Returns
  <2>2. calls' # calls BY <2>1
  <2>3. ~Crash BY DEF Crash
  <2>4. ~StopPass /\ ~WaitPass
    <3>1. ASSUME StopPass PROVE FALSE
      <4>1. failures' # failures + 1 BY <2>1
      <4>2. /\ calls'["stopAll"].at = "await"
            /\ \A other \in Callers \ {"stopAll"} : calls'[other] = calls[other]
        BY <2>1, <3>1, <4>1, PassSees
      <4> QED BY <2>1, <4>2
    <3>2. ASSUME WaitPass PROVE FALSE
      BY <2>1, <3>2 DEF WaitPass, CallState
    <3> QED BY <3>1, <3>2
  <2>5. PICK other \in Callers : CallBegins(other) \/ CallGoesOn(other)
    BY <2>2, <2>3, <2>4 DEF TaskNext, Create, Runs, StartTask, Settle, Finally, Stop, Drain,
         DrainFails, Clear, UseSession, taskVars
  <2>6. CallReturns(name)
    BY <2>1, <2>5 DEF CallBegins, CallGoesOn, NextPass, CallReturns, CallState
  <2>7. CASE name = "stopAll"
    <3>1. calls["stopAll"].at = "pass" /\ ToStop = {} BY <2>6, <2>7 DEF CallReturns
    <3> QED BY <2>1, <2>7, <3>1 DEF ToStop, SeenOnce
  <2>8. CASE name = "waitAll"
    <3>1. ToAwait = {} BY <2>6, <2>8 DEF CallReturns
    <3> QED BY <2>8, <3>1 DEF ToAwait
  <2> QED BY <2>7, <2>8
<1>4. Settled <=> (session' = session /\ failures' = failures =>
                     /\ Returns("stopAll") => PendingIds = {}
                     /\ Returns("waitAll") =>
                          \A id \in PendingIds : tasks[id].kind = "shell")
  OBVIOUS
<1> HIDE DEF Settled
<1> QED BY <1>1, <1>2, <1>3, <1>4, TasksStay, PTL DEF TaskSpec, CallsSettle
=============================================================================
