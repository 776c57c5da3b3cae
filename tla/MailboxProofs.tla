---------------------------- MODULE MailboxProofs ---------------------------
(***************************************************************************)
(* Read-modify-write of the inbox under the lock is atomic for any number  *)
(* of processes and messages, whoever dies: what a process writes over the *)
(* file is computed from what the file holds.  And so no message is lost,  *)
(* whatever is pruned, or returned twice.                                  *)
(***************************************************************************)
EXTENDS Mailbox, FiniteSetTheorems, TLAPS

(* The part of the type invariant the argument needs. *)
Shape ==
  /\ owners \subseteq Procs
  /\ pc \in [Procs -> {"idle", "lock", "load", "write", "rename", "unlock"}]
  /\ DOMAIN snap = Procs

(* A process that is past the lock owns it, alone, until it dies. *)
Holding == {"load", "write", "rename", "unlock"}
HoldersOwn == \A p \in Procs : pc[p] \in Holding /\ Alive(p) => owners = {p}

FreshInv == Shape /\ HoldersOwn /\ SnapshotFresh

LEMMA FreshStep ==
  ASSUME FreshInv, [Next]_vars
  PROVE  FreshInv'
<1> USE DEF FreshInv, Shape, HoldersOwn, SnapshotFresh, Holding, Alive
<1>1. ASSUME NEW p \in Procs, NEW kind, NEW msgs, Begin(p, kind, msgs) PROVE FreshInv'
  BY <1>1 DEF Begin
<1>2. ASSUME NEW p \in Procs, Acquire(p) PROVE FreshInv'
  BY <1>2 DEF Acquire, Lock!Acquire
<1>3. ASSUME NEW p \in Procs, LockTimeout(p) PROVE FreshInv'
  BY <1>3 DEF LockTimeout
<1>4. ASSUME NEW p \in Procs, Load(p) PROVE FreshInv'
  BY <1>4 DEF Load
<1>5. ASSUME NEW p \in Procs, WriteTmp(p) PROVE FreshInv'
  BY <1>5 DEF WriteTmp
<1>6. ASSUME NEW p \in Procs, Rename(p) PROVE FreshInv'
  <2>1. owners = {p} /\ \A q \in Procs : pc[q] \in Holding /\ Alive(q) => q = p
    BY <1>6 DEF Rename
  <2> QED
    BY <1>6, <2>1 DEF Rename
<1>7. ASSUME NEW p \in Procs, Fail(p) PROVE FreshInv'
  BY <1>7 DEF Fail, Lock!Release
<1>8. ASSUME NEW p \in Procs, Unlock(p) PROVE FreshInv'
  BY <1>8 DEF Unlock, Lock!Release
<1>9. ASSUME NEW p \in Procs, Crash(p) PROVE FreshInv'
  BY <1>9 DEF Crash, Lock!Die
<1>10. ASSUME NEW p \in Procs, Reclaim(p) PROVE FreshInv'
  BY <1>10 DEF Reclaim, Lock!Reclaim
<1>11. CASE UNCHANGED vars
  BY <1>11 DEF vars
<1> QED
  BY <1>1, <1>2, <1>3, <1>4, <1>5, <1>6, <1>7, <1>8, <1>9, <1>10, <1>11
     DEF Next, Step, Send, Receive, Requeue

(* No lost update: between the read and the rename of an operation no      *)
(* other operation changes the inbox.                                      *)
THEOREM NoLostUpdate == Spec => []SnapshotFresh
<1>1. Init => FreshInv
  BY DEF Init, FreshInv, Shape, HoldersOwn, SnapshotFresh, Holding, Alive, Lock!Init
<1>2. FreshInv => SnapshotFresh
  BY DEF FreshInv
<1> QED
  BY <1>1, <1>2, FreshStep, PTL DEF Spec
-----------------------------------------------------------------------------
(* The places of a finite set of positions are numbered in their order. *)
LEMMA Numbered ==
  ASSUME NEW places \in SUBSET Nat, IsFiniteSet(places)
  PROVE  /\ Cardinality(places) \in Nat
         /\ \A i \in places : Rank(places, i) \in 1..Cardinality(places)
         /\ \A i, j \in places : i < j => Rank(places, i) < Rank(places, j)
         /\ \A k \in 1..Cardinality(places) :
              Nth(places, k) \in places /\ Rank(places, Nth(places, k)) = k
<1> DEFINE upTo(i) == {j \in places : j <= i}
           n == Cardinality(places)
           rank == [i \in places |-> Rank(places, i)]
<1>1. n \in Nat
  BY FS_CardinalityType
<1>2. ASSUME NEW i \in places
      PROVE  IsFiniteSet(upTo(i)) /\ Rank(places, i) \in 1..n
  <2>1. upTo(i) \in SUBSET places /\ i \in upTo(i)
    OBVIOUS
  <2>2. IsFiniteSet(upTo(i)) /\ Cardinality(upTo(i)) \in Nat /\ Cardinality(upTo(i)) <= n
    BY <2>1, FS_Subset, FS_CardinalityType
  <2>3. Cardinality(upTo(i)) # 0
    BY <2>1, <2>2, FS_EmptySet
  <2>4. Rank(places, i) = Cardinality(upTo(i))
    BY DEF Rank
  <2> HIDE DEF upTo, n
  <2> QED
    BY <1>1, <2>2, <2>3, <2>4
<1>3. ASSUME NEW i \in places, NEW j \in places, i < j
      PROVE  Rank(places, i) < Rank(places, j)
  <2>1. upTo(i) \in SUBSET upTo(j) /\ upTo(i) # upTo(j)
    <3>1. i \in Nat /\ j \in Nat /\ \A k \in places : k \in Nat
      OBVIOUS
    <3>2. \A k \in places : k <= i => k <= j
      BY <1>3, <3>1
    <3>3. j \in upTo(j) /\ j \notin upTo(i)
      BY <1>3, <3>1
    <3> QED
      BY <3>2, <3>3
  <2>2. /\ Cardinality(upTo(i)) <= Cardinality(upTo(j))
        /\ Cardinality(upTo(i)) # Cardinality(upTo(j))
    <3> HIDE DEF upTo
    <3> QED
      BY <1>2, <2>1, FS_Subset
  <2>3. Cardinality(upTo(i)) = Rank(places, i) /\ Cardinality(upTo(j)) = Rank(places, j)
    BY DEF Rank
  <2> HIDE DEF upTo
  <2> QED
    BY <1>1, <1>2, <2>2, <2>3
<1>4. rank \in Injection(places, 1..n)
  <2>1. rank \in [places -> 1..n]
    BY <1>2
  <2>2. ASSUME NEW i \in places, NEW j \in places, rank[i] = rank[j] PROVE i = j
    <3>1. Rank(places, i) = Rank(places, j)
      BY <2>2, Zenon
    <3>2. Rank(places, i) \in 1..n
      BY <1>2
    <3> HIDE DEF rank, n
    <3>3. ~(i < j) /\ ~(j < i)
      BY <1>1, <1>3, <3>1, <3>2
    <3> QED
      BY <3>3
  <2> HIDE DEF rank
  <2> QED
    BY <2>1, <2>2 DEF Injection, IsInjective
<1>5. IsFiniteSet(1..n) /\ Cardinality(1..n) = n
  BY <1>1, FS_Interval
<1>6. rank \in Surjection(places, 1..n)
  <2> HIDE DEF rank, n
  <2> QED
    BY <1>4, <1>5, FS_Injection DEF n
<1>7. ASSUME NEW k \in 1..n
      PROVE  Nth(places, k) \in places /\ Rank(places, Nth(places, k)) = k
  <2>1. \E i \in places : Rank(places, i) = k
    BY <1>6 DEF Surjection
  <2> QED
    BY <2>1 DEF Nth
<1> QED
  BY <1>1, <1>2, <1>3, <1>7

(* The positions of a sequence are a finite set of numbers. *)
LEMMA Positions ==
  ASSUME NEW S, NEW s \in Seq(S), NEW places \in SUBSET DOMAIN s
  PROVE  /\ places \in SUBSET Nat /\ IsFiniteSet(places)
         /\ Cardinality(places) \in Nat
<1>1. DOMAIN s = 1..Len(s) /\ Len(s) \in Nat
  OBVIOUS
<1>2. IsFiniteSet(1..Len(s))
  BY <1>1, FS_Interval
<1> QED
  BY <1>1, <1>2, FS_Subset, FS_CardinalityType

(* Selecting positions keeps the elements' type, and every copy of a value *)
(* none of whose positions is left out.                                    *)
LEMMA SelectedKeeps ==
  ASSUME NEW S, NEW s \in Seq(S), NEW places \in SUBSET DOMAIN s
  PROVE  /\ Selected(s, places) \in Seq(S)
         /\ \A e : (\A i \in DOMAIN s : s[i] = e => i \in places) =>
              Cardinality({k \in DOMAIN Selected(s, places) : Selected(s, places)[k] = e})
                = Cardinality({i \in DOMAIN s : s[i] = e})
<1> DEFINE n == Cardinality(places)
           t == Selected(s, places)
<1>1. /\ n \in Nat
      /\ \A i \in places : Rank(places, i) \in 1..n
      /\ \A i, j \in places : i < j => Rank(places, i) < Rank(places, j)
      /\ \A k \in 1..n : Nth(places, k) \in places /\ Rank(places, Nth(places, k)) = k
  BY Positions, Numbered
<1>2. \A i \in places : i \in Nat /\ s[i] \in S
  BY Positions
<1>3. t = [k \in 1..n |-> s[Nth(places, k)]]
  BY DEF Selected
<1>4. t \in Seq(S)
  BY <1>1, <1>2, <1>3
<1>5. ASSUME NEW e, \A i \in DOMAIN s : s[i] = e => i \in places
      PROVE  Cardinality({k \in DOMAIN t : t[k] = e}) = Cardinality({i \in DOMAIN s : s[i] = e})
  <2> DEFINE from == {i \in DOMAIN s : s[i] = e}
             to == {k \in DOMAIN t : t[k] = e}
             rank == [i \in from |-> Rank(places, i)]
  <2>1. \A i, j \in places : Rank(places, i) = Rank(places, j) => i = j
    <3> SUFFICES ASSUME NEW i \in places, NEW j \in places, Rank(places, i) = Rank(places, j)
                 PROVE  i = j
      OBVIOUS
    <3>1. ~(i < j) /\ ~(j < i)
      BY <1>1
    <3> QED
      BY <1>2, <3>1
  <2>2. \A i \in places : Nth(places, Rank(places, i)) = i
    BY <1>1, <2>1
  <2>3. DOMAIN t = 1..n /\ \A k \in 1..n : t[k] = s[Nth(places, k)]
    BY <1>3
  <2>4. from \in SUBSET places /\ \A i \in from : s[i] = e /\ Rank(places, i) \in 1..n
    BY <1>1, <1>5
  <2>5. \A i \in from : Rank(places, i) \in to
    <3> HIDE DEF t
    <3> QED
      BY <2>2, <2>3, <2>4
  <2>6. \A k \in to : Nth(places, k) \in from /\ Rank(places, Nth(places, k)) = k
    <3> HIDE DEF t
    <3> QED
      BY <1>1, <2>3
  <2> HIDE DEF from, to
  <2>7. rank \in [from -> to]
    BY <2>5
  <2>8. rank \in Bijection(from, to)
    <3>1. \A i, j \in from : rank[i] = rank[j] => i = j
      BY <2>1, <2>4
    <3>2. \A k \in to : \E i \in from : rank[i] = k
      BY <2>6
    <3> HIDE DEF rank
    <3> QED
      BY <2>7, <3>1, <3>2 DEF Bijection, Injection, IsInjective, Surjection
  <2>9. IsFiniteSet(from)
    BY Positions DEF from
  <2> QED
    BY <2>8, <2>9, FS_Bijection DEF ExistsBijection, from, to
<1> QED
  BY <1>4, <1>5

(* A set stored as a sequence has each of its elements once. *)
LEMMA SetAsSeq ==
  ASSUME NEW S, IsFiniteSet(S)
  PROVE  /\ SetToSeq(S) \in Seq(S)
         /\ \A e \in S : \E i \in DOMAIN SetToSeq(S) :
              \A j \in DOMAIN SetToSeq(S) : SetToSeq(S)[j] = e <=> j = i
<1> DEFINE n == Cardinality(S)
<1>1. n \in Nat /\ \E f : f \in Bijection(1..n, S)
  BY FS_CardinalityType DEF ExistsBijection
<1>2. \E f \in [1..n -> S] : IsInjective(f)
  BY <1>1 DEF Bijection, Injection
<1>3. SetToSeq(S) \in [1..n -> S] /\ IsInjective(SetToSeq(S))
  BY <1>2 DEF SetToSeq
<1>4. SetToSeq(S) \in Surjection(1..n, S)
  <2>1. IsFiniteSet(1..n) /\ Cardinality(1..n) = n
    BY <1>1, FS_Interval
  <2>2. SetToSeq(S) \in Injection(1..n, S)
    BY <1>3 DEF Injection
  <2> QED
    BY <2>1, <2>2, FS_Injection
<1>5. SetToSeq(S) \in Seq(S)
  BY <1>1, <1>3
<1>6. ASSUME NEW e \in S
      PROVE  \E i \in DOMAIN SetToSeq(S) :
               \A j \in DOMAIN SetToSeq(S) : SetToSeq(S)[j] = e <=> j = i
  <2>1. PICK i \in 1..n : SetToSeq(S)[i] = e
    BY <1>4 DEF Surjection
  <2> QED
    BY <1>3, <2>1 DEF IsInjective
<1> QED
  BY <1>5, <1>6

-----------------------------------------------------------------------------
Copy(m) == [id |-> m, read |-> FALSE]

(* The unread copies of a message can be counted. *)
LEMMA UnreadNat ==
  ASSUME NEW s \in Seq(Entry), NEW m
  PROVE  /\ IsFiniteSet({i \in DOMAIN s : s[i] = Copy(m)})
         /\ Unread(s, m) = Cardinality({i \in DOMAIN s : s[i] = Copy(m)})
         /\ Unread(s, m) \in Nat
         /\ Unread(s, m) = 0 <=> \A i \in DOMAIN s : s[i] # Copy(m)
<1> DEFINE places == {i \in DOMAIN s : s[i] = Copy(m)}
<1>1. IsFiniteSet(places)
  BY Positions
<1>2. Unread(s, m) = Cardinality(places)
  BY DEF Unread, Copy
<1>3. places = {} <=> \A i \in DOMAIN s : s[i] # Copy(m)
  OBVIOUS
<1>4. Cardinality(places) \in Nat /\ (Cardinality(places) = 0 <=> places = {})
  <2> HIDE DEF places
  <2> QED
    BY <1>1, FS_CardinalityType, FS_EmptySet
<1> QED
  BY <1>1, <1>2, <1>3, <1>4

(* Pruning drops read messages only. *)
LEMMA PruneKeeps ==
  ASSUME NEW s \in Seq(Entry)
  PROVE  /\ Prune(s) \in Seq(Entry)
         /\ \A m : Unread(Prune(s), m) = Unread(s, m)
<1> DEFINE places == DOMAIN s \ Dropped(s)
<1>1. places \in SUBSET DOMAIN s
  OBVIOUS
<1>2. Prune(s) = Selected(s, places)
  BY DEF Prune
<1>3. \A m : \A i \in DOMAIN s : s[i] = Copy(m) => i \in places
  BY DEF Copy, Dropped
<1> HIDE DEF places
<1>4. /\ Selected(s, places) \in Seq(Entry)
      /\ \A e : (\A i \in DOMAIN s : s[i] = e => i \in places) =>
           Cardinality({k \in DOMAIN Selected(s, places) : Selected(s, places)[k] = e})
             = Cardinality({i \in DOMAIN s : s[i] = e})
  BY <1>1, SelectedKeeps
<1> QED
  BY <1>2, <1>3, <1>4, UnreadNat

(* Storing messages adds one unread copy of each. *)
LEMMA StoreAdds ==
  ASSUME NEW s \in Seq(Entry), NEW msgs \in SUBSET Messages, IsFiniteSet(msgs)
  PROVE  /\ Store(s, msgs) \in Seq(Entry)
         /\ \A m : Unread(Store(s, msgs), m) = Unread(s, m) + IF m \in msgs THEN 1 ELSE 0
<1> DEFINE copies == {Copy(m) : m \in msgs}
           t == SetToSeq(copies)
<1>1. IsFiniteSet(copies)
  <2> DEFINE copy == [m \in msgs |-> Copy(m)]
  <2>1. copy \in Surjection(msgs, copies)
    BY DEF Surjection
  <2> QED
    BY <2>1, FS_Surjection
<1>2. /\ t \in Seq(copies)
      /\ \A e \in copies : \E i \in DOMAIN t : \A j \in DOMAIN t : t[j] = e <=> j = i
  <2> HIDE DEF copies
  <2> QED
    BY <1>1, SetAsSeq
<1>3. copies \subseteq Entry
  <2>1. \A m \in msgs : Copy(m) \in Entry
    BY DEF Entry, Copy
  <2> QED
    BY <2>1
<1>4. t \in Seq(Entry) /\ \A j \in DOMAIN t : t[j] \in copies
  <2> HIDE DEF t, copies
  <2> QED
    BY <1>2, <1>3
<1>5. Store(s, msgs) = s \o t
  BY DEF Store, Copy
<1>6. s \o t \in Seq(Entry)
  BY <1>4
<1>7. ASSUME NEW m PROVE Unread(s \o t, m) = Unread(s, m) + IF m \in msgs THEN 1 ELSE 0
  <2> DEFINE e == Copy(m)
             old == {i \in DOMAIN s : s[i] = e}
             all == {i \in DOMAIN (s \o t) : (s \o t)[i] = e}
  <2>1. e \in copies <=> m \in msgs
    BY DEF Copy
  <2>2. /\ DOMAIN s = 1..Len(s) /\ Len(s) \in Nat
        /\ DOMAIN t = 1..Len(t) /\ Len(t) \in Nat
        /\ DOMAIN (s \o t) = 1..Len(s) + Len(t)
        /\ \A i \in 1..Len(s) : (s \o t)[i] = s[i]
        /\ \A j \in 1..Len(t) : (s \o t)[Len(s) + j] = t[j]
    <3> HIDE DEF t
    <3> QED
      BY <1>4
  <2>3. IsFiniteSet(old) /\ Unread(s, m) = Cardinality(old) /\ Unread(s, m) \in Nat
    BY UnreadNat
  <2>4. Unread(s \o t, m) = Cardinality(all)
    BY <1>6, UnreadNat
  <2> HIDE DEF t, copies, e
  <2>5. CASE m \in msgs
    <3>1. PICK i \in DOMAIN t : \A j \in DOMAIN t : t[j] = e <=> j = i
      BY <1>2, <2>1, <2>5
    <3>2. all = old \cup {Len(s) + i}
      <4>1. ASSUME NEW k \in all PROVE k \in old \cup {Len(s) + i}
        <5>1. CASE k <= Len(s)
          BY <2>2, <5>1
        <5>2. CASE k > Len(s)
          <6>1. k - Len(s) \in DOMAIN t /\ k = Len(s) + (k - Len(s))
            BY <2>2, <5>2
          <6> QED
            BY <2>2, <3>1, <6>1
        <5> QED
          BY <2>2, <5>1, <5>2
      <4>2. Len(s) + i \in all /\ old \subseteq all
        BY <2>2, <3>1
      <4> QED
        BY <4>1, <4>2
    <3>3. Len(s) + i \notin old
      BY <2>2, <3>1
    <3> HIDE DEF all, old
    <3> QED
      BY <2>3, <2>4, <2>5, <3>2, <3>3, FS_AddElement
  <2>6. CASE m \notin msgs
    <3>1. \A j \in DOMAIN t : t[j] # e
      BY <1>4, <2>1, <2>6
    <3>2. all = old
      <4>1. ASSUME NEW k \in all PROVE k \in old
        <5>1. CASE k <= Len(s)
          BY <2>2, <5>1
        <5>2. CASE k > Len(s)
          <6>1. k - Len(s) \in DOMAIN t /\ k = Len(s) + (k - Len(s))
            BY <2>2, <5>2
          <6> QED
            BY <2>2, <3>1, <6>1
        <5> QED
          BY <2>2, <5>1, <5>2
      <4>2. old \subseteq all
        BY <2>2
      <4> QED
        BY <4>1, <4>2
    <3> HIDE DEF all, old
    <3> QED
      BY <2>3, <2>4, <2>6, <3>2
  <2> QED
    BY <2>5, <2>6
<1> HIDE DEF t
<1> QED
  BY <1>5, <1>6, <1>7

(* Marking messages read leaves no unread copy of them, and the others'. *)
LEMMA MarkReadTakes ==
  ASSUME NEW s \in Seq(Entry), NEW msgs \in SUBSET Messages
  PROVE  /\ MarkRead(s, msgs) \in Seq(Entry)
         /\ \A m : Unread(MarkRead(s, msgs), m) = IF m \in msgs THEN 0 ELSE Unread(s, m)
<1> DEFINE t == MarkRead(s, msgs)
<1>1. DOMAIN s = 1..Len(s) /\ Len(s) \in Nat /\ \A i \in DOMAIN s : s[i] \in Entry
  OBVIOUS
<1>2. /\ DOMAIN t = DOMAIN s
      /\ \A i \in DOMAIN s : t[i] = IF s[i].id \in msgs THEN [s[i] EXCEPT !.read = TRUE] ELSE s[i]
  BY DEF MarkRead
<1>3. \A i \in DOMAIN s : t[i] \in Entry
  <2> HIDE DEF t
  <2> QED
    BY <1>1, <1>2 DEF Entry
<1>4. t \in Seq(Entry)
  BY <1>1, <1>3 DEF MarkRead
<1>5. ASSUME NEW m, NEW i \in DOMAIN s
      PROVE  t[i] = Copy(m) <=> s[i] = Copy(m) /\ m \notin msgs
  <2> HIDE DEF t
  <2>1. CASE s[i].id \in msgs
    <3>1. t[i] = [s[i] EXCEPT !.read = TRUE]
      BY <1>2, <2>1
    <3>2. t[i].read = TRUE
      BY <1>1, <3>1 DEF Entry
    <3> QED
      BY <2>1, <3>2 DEF Copy
  <2>2. CASE s[i].id \notin msgs
    BY <1>2, <2>2 DEF Copy
  <2> QED
    BY <2>1, <2>2
<1> HIDE DEF t
<1>6. ASSUME NEW m PROVE Unread(t, m) = IF m \in msgs THEN 0 ELSE Unread(s, m)
  <2>1. CASE m \in msgs
    <3>1. \A i \in DOMAIN t : t[i] # Copy(m)
      BY <1>2, <1>5, <2>1
    <3> QED
      BY <1>4, <2>1, <3>1, UnreadNat
  <2>2. CASE m \notin msgs
    <3>1. {i \in DOMAIN t : t[i] = Copy(m)} = {i \in DOMAIN s : s[i] = Copy(m)}
      BY <1>2, <1>5, <2>2
    <3> QED
      BY <1>4, <2>2, <3>1, UnreadNat
  <2> QED
    BY <2>1, <2>2
<1> QED
  BY <1>4, <1>6 DEF t

(* What receiveMatching finds are finitely many messages, each unread. *)
LEMMA MatchingFound ==
  ASSUME NEW s \in Seq(Entry), NEW msgs \in SUBSET Messages
  PROVE  /\ Matching(s, msgs) \in SUBSET Messages
         /\ IsFiniteSet(Matching(s, msgs))
         /\ \A m \in Matching(s, msgs) : Unread(s, m) > 0
<1> DEFINE places == {i \in DOMAIN s : \E m \in Matching(s, msgs) : s[i] = Copy(m)}
           name == [i \in places |-> s[i].id]
<1>1. \A m \in Matching(s, msgs) : m \in Messages /\ Unread(s, m) > 0
  BY DEF Matching
<1>2. name \in Surjection(places, Matching(s, msgs))
  <2>1. \A i \in places : s[i].id \in Matching(s, msgs)
    BY DEF Copy
  <2>2. \A m \in Matching(s, msgs) : \E i \in places : s[i].id = m
    <3> SUFFICES ASSUME NEW m \in Matching(s, msgs) PROVE \E i \in places : s[i].id = m
      OBVIOUS
    <3>1. PICK i \in DOMAIN s : s[i] = Copy(m)
      <4>1. Unread(s, m) # 0
        BY <1>1
      <4> QED
        BY <4>1, UnreadNat
    <3>2. i \in places
      BY <3>1
    <3>3. s[i].id = m
      BY <3>1 DEF Copy
    <3> QED
      BY <3>2, <3>3
  <2> HIDE DEF places
  <2> QED
    BY <2>1, <2>2 DEF Surjection
<1>3. IsFiniteSet(places)
  BY Positions
<1> HIDE DEF name, places
<1>4. IsFiniteSet(Matching(s, msgs))
  BY <1>2, <1>3, FS_Surjection
<1> QED
  BY <1>1, <1>4

(* What an operation writes: the messages of a send or a requeue have one  *)
(* unread copy more, those of a receive have none.                         *)
LEMMA UpdatedCounts ==
  ASSUME NEW s \in Seq(Entry), NEW o, o.msgs \in SUBSET Messages, IsFiniteSet(o.msgs)
  PROVE  /\ Updated(o, s) \in Seq(Entry)
         /\ \A m : Unread(Updated(o, s), m) =
              IF m \notin o.msgs THEN Unread(s, m)
              ELSE IF o.kind = "receive" THEN 0 ELSE Unread(s, m) + 1
<1>1. \A m : Unread(s, m) \in Nat
  BY UnreadNat
<1>2. CASE o.kind = "receive"
  <2>1. Updated(o, s) = Prune(MarkRead(s, o.msgs))
    BY <1>2 DEF Updated
  <2> QED
    BY <1>2, <2>1, MarkReadTakes, PruneKeeps
<1>3. CASE o.kind # "receive"
  <2>1. Updated(o, s) = Prune(Store(s, o.msgs))
    BY <1>3 DEF Updated
  <2> QED
    BY <1>1, <1>3, <2>1, StoreAdds, PruneKeeps
<1> QED
  BY <1>2, <1>3

-----------------------------------------------------------------------------
(* The one copy of a message: it is unread in the file, or a process has   *)
(* it, still to store, returned by its last receive, or about to be.       *)
Storing(p, m) == /\ op[p].kind \in {"send", "requeue"} /\ m \in op[p].msgs
                 /\ pc[p] \in {"lock", "load", "write", "rename"}
Taking(p, m) == op[p].kind = "receive" /\ m \in op[p].msgs /\ pc[p] = "unlock"
Has(p, m) == m \in hands[p] \/ Storing(p, m) \/ Taking(p, m)

OneCopy ==
  \A m \in Messages :
    /\ Unread(file, m) <= 1
    /\ \A p \in Procs : Has(p, m) => /\ m \in sent /\ Unread(file, m) = 0
                                     /\ ~(m \in hands[p] /\ Storing(p, m))
    /\ \A p, q \in Procs : Has(p, m) /\ Has(q, m) => p = q
    /\ m \notin sent => Unread(file, m) = 0

(* A message that was marked read was returned, or is about to be. *)
OneReturn ==
  \A m \in Messages :
    returned[m] + (IF \E p \in Procs : Taking(p, m) THEN 1 ELSE 0) = got[m]

(* What an operation is about to write was computed from what it has read. *)
Prepared ==
  \A p \in Procs :
    /\ pc[p] \in {"write", "rename"} /\ op[p].kind = "receive" =>
         \A m \in op[p].msgs : Unread(snap[p], m) > 0
    /\ pc[p] = "rename" /\ Alive(p) => tmp[p] = Updated(op[p], snap[p])
    /\ pc[p] # "idle" => op[p].kind \in Kinds

(* Operations are about finitely many messages. *)
FiniteOps ==
  \A p \in Procs :
    /\ IsFiniteSet(hands[p])
    /\ op[p].kind # "receive" \/ pc[p] \in {"write", "rename", "unlock"} =>
         IsFiniteSet(op[p].msgs)

LEMMA TypeStep ==
  ASSUME TypeOK, FiniteOps, [Next]_vars
  PROVE  TypeOK' /\ FiniteOps'
<1> USE DEF TypeOK, FiniteOps, Kinds
<1>0. \A m : IsFiniteSet({m})
  BY FS_Singleton
<1>1. ASSUME NEW p \in Procs, NEW m \in Messages, Send(p, m) PROVE TypeOK' /\ FiniteOps'
  BY <1>0, <1>1 DEF Send, Begin
<1>2. ASSUME NEW p \in Procs, NEW msgs \in Predicates, Receive(p, msgs) PROVE TypeOK' /\ FiniteOps'
  BY <1>2, FS_EmptySet, BoundsAssumption DEF Receive, Begin
<1>3. ASSUME NEW p \in Procs, NEW msgs \in SUBSET Messages, Requeue(p, msgs)
      PROVE  TypeOK' /\ FiniteOps'
  <2>1. IsFiniteSet(msgs) /\ IsFiniteSet(hands[p] \ msgs)
    BY <1>3, FS_Subset DEF Requeue
  <2> QED
    BY <1>3, <2>1, BoundsAssumption DEF Requeue, Begin
<1>4. ASSUME NEW p \in Procs, Acquire(p) \/ LockTimeout(p) \/ Fail(p) PROVE TypeOK' /\ FiniteOps'
  <2>1. CASE Acquire(p)
    BY <2>1 DEF Acquire, Lock!Acquire
  <2>2. CASE LockTimeout(p)
    BY <2>2, FS_EmptySet DEF LockTimeout, Idle
  <2>3. CASE Fail(p)
    <3>1. /\ owners' = owners \ {p} /\ tmp' = [tmp EXCEPT ![p] = Torn]
          /\ pc' = [pc EXCEPT ![p] = "idle"] /\ op' = [op EXCEPT ![p] = Idle]
          /\ UNCHANGED <<file, dead, snap, hands, sent, requeues, put, got, returned>>
      BY <2>3 DEF Fail, Lock!Release
    <3> QED
      BY <3>1, FS_EmptySet DEF Idle
  <2> QED
    BY <1>4, <2>1, <2>2, <2>3
<1>5. ASSUME NEW p \in Procs, Load(p) PROVE TypeOK' /\ FiniteOps'
  <2> DEFINE found == Matching(file, op[p].msgs)
  <2>1. file \in Seq(Entry)
    BY <1>5 DEF Load
  <2>2. found \in SUBSET Messages /\ IsFiniteSet(found)
    BY <2>1, MatchingFound
  <2>3. op' = IF op[p].kind = "receive" THEN [op EXCEPT ![p].msgs = found] ELSE op
    BY <1>5 DEF Load
  <2>4. pc' \in {[pc EXCEPT ![p] = "unlock"], [pc EXCEPT ![p] = "write"]}
    BY <1>5 DEF Load
  <2>5. /\ snap' = [snap EXCEPT ![p] = file] /\ pc[p] = "load"
        /\ UNCHANGED <<file, tmp, owners, dead, hands, sent, requeues, put, got, returned>>
    BY <1>5 DEF Load
  <2> HIDE DEF found
  <2> QED
    BY <2>1, <2>2, <2>3, <2>4, <2>5
<1>6. ASSUME NEW p \in Procs, WriteTmp(p) PROVE TypeOK' /\ FiniteOps'
  <2>1. Updated(op[p], snap[p]) \in Seq(Entry)
    BY <1>6, UpdatedCounts DEF WriteTmp
  <2> QED
    BY <1>6, <2>1 DEF WriteTmp
<1>7. ASSUME NEW p \in Procs, Rename(p) PROVE TypeOK' /\ FiniteOps'
  <2> DEFINE count(h) == [m \in Messages |-> IF m \in op[p].msgs THEN h[m] + 1 ELSE h[m]]
  <2>1. \/ got' = count(got) /\ UNCHANGED put
        \/ put' = count(put) /\ UNCHANGED got
    BY <1>7 DEF Rename
  <2>2. count(got) \in [Messages -> Nat] /\ count(put) \in [Messages -> Nat]
    OBVIOUS
  <2>3. put' \in [Messages -> Nat] /\ got' \in [Messages -> Nat]
    BY <2>1, <2>2
  <2> QED
    BY <1>7, <2>3 DEF Rename
<1>8. ASSUME NEW p \in Procs, Unlock(p) PROVE TypeOK' /\ FiniteOps'
  <2> DEFINE result == IF op[p].kind = "receive" THEN op[p].msgs ELSE {}
  <2>1. result \in SUBSET Messages /\ IsFiniteSet(hands[p] \cup result)
    BY <1>8, FS_EmptySet, FS_Union DEF Unlock
  <2>2. /\ pc' = [pc EXCEPT ![p] = "idle"] /\ op' = [op EXCEPT ![p] = Idle]
        /\ hands' = [hands EXCEPT ![p] = @ \cup result]
        /\ returned' = [m \in Messages |->
                          IF m \in result THEN returned[m] + 1 ELSE returned[m]]
        /\ owners' = owners \ {p} /\ pc[p] = "unlock"
        /\ UNCHANGED <<dead, file, tmp, snap, sent, requeues, put, got>>
    BY <1>8 DEF Unlock, Lock!Release
  <2> HIDE DEF result
  <2> QED
    BY <2>1, <2>2, FS_EmptySet DEF Idle
<1>9. ASSUME NEW p \in Procs, Crash(p) \/ Reclaim(p) PROVE TypeOK' /\ FiniteOps'
  BY <1>9 DEF Crash, Reclaim, Lock!Die, Lock!Reclaim
<1>10. CASE UNCHANGED vars
  BY <1>10 DEF vars
<1> QED
  BY <1>1, <1>2, <1>3, <1>4, <1>5, <1>6, <1>7, <1>8, <1>9, <1>10 DEF Next, Step

-----------------------------------------------------------------------------
LEMMA PreparedStep ==
  ASSUME TypeOK, Prepared, [Next]_vars
  PROVE  Prepared'
<1> USE DEF Prepared, Alive, Kinds
<1>0. /\ DOMAIN pc = Procs /\ DOMAIN op = Procs /\ DOMAIN tmp = Procs /\ DOMAIN snap = Procs
      /\ \A q \in Procs : DOMAIN op[q] = {"kind", "msgs"}
  BY DEF TypeOK
<1>1. ASSUME NEW p \in Procs, NEW kind \in Kinds, NEW msgs, Begin(p, kind, msgs)
      PROVE  Prepared'
  BY <1>0, <1>1 DEF Begin
<1>2. ASSUME NEW p \in Procs, Acquire(p) \/ LockTimeout(p) \/ Fail(p) \/ Unlock(p)
      PROVE  Prepared'
  <2>1. \E to \in {"load", "idle"} :
          /\ pc' = [pc EXCEPT ![p] = to]
          /\ UNCHANGED <<snap, dead>>
          /\ \A q \in Procs \ {p} : tmp'[q] = tmp[q] /\ op'[q] = op[q]
          /\ to = "load" => op' = op /\ pc[p] = "lock"
    BY <1>0, <1>2 DEF Acquire, LockTimeout, Fail, Unlock, Lock!Acquire, Lock!Release
  <2> QED
    BY <1>0, <2>1
<1>3. ASSUME NEW p \in Procs, Load(p) PROVE Prepared'
  <2> DEFINE found == Matching(file, op[p].msgs)
  <2>1. \A m \in found : Unread(file, m) > 0
    BY DEF Matching
  <2>2. /\ snap' = [snap EXCEPT ![p] = file] /\ pc[p] = "load"
        /\ op' = IF op[p].kind = "receive" THEN [op EXCEPT ![p].msgs = found] ELSE op
        /\ UNCHANGED <<tmp, dead>>
    BY <1>3 DEF Load
  <2>3. pc' \in {[pc EXCEPT ![p] = "unlock"], [pc EXCEPT ![p] = "write"]}
    BY <1>3 DEF Load
  <2> HIDE DEF found
  <2>4. /\ op'[p].kind = op[p].kind
        /\ op[p].kind = "receive" => op'[p].msgs = found
        /\ \A q \in Procs \ {p} : op'[q] = op[q] /\ pc'[q] = pc[q] /\ snap'[q] = snap[q]
        /\ pc'[p] \in {"unlock", "write"} /\ snap'[p] = file
    BY <1>0, <2>2, <2>3
  <2> QED
    BY <2>1, <2>2, <2>4
<1>4. ASSUME NEW p \in Procs, WriteTmp(p) PROVE Prepared'
  BY <1>0, <1>4 DEF WriteTmp
<1>5. ASSUME NEW p \in Procs, Rename(p) PROVE Prepared'
  BY <1>0, <1>5 DEF Rename
<1>6. ASSUME NEW p \in Procs, Crash(p) \/ Reclaim(p) PROVE Prepared'
  BY <1>6 DEF Crash, Reclaim, Lock!Die, Lock!Reclaim
<1>7. CASE UNCHANGED vars
  BY <1>7 DEF vars
<1> QED
  BY <1>1, <1>2, <1>3, <1>4, <1>5, <1>6, <1>7 DEF Next, Step, Send, Receive, Requeue

(* The part of the invariant that is about copies and counts. *)
Counted == file # Torn /\ UnreadConserved /\ OneCopy /\ OneReturn

(* A step that leaves the file moves no copy to a second place. *)
LEMMA CopiesStay ==
  ASSUME Counted, UNCHANGED <<file, put, got, returned>>, sent \subseteq sent',
         \A p \in Procs, m \in Messages :
           /\ Has(p, m)' => Has(p, m)
           /\ Taking(p, m)' <=> Taking(p, m)
           /\ ~(m \in hands'[p] /\ Storing(p, m)')
  PROVE  Counted'
<1>1. \A m \in Messages : Unread(file', m) = Unread(file, m)
  OBVIOUS
<1>2. UnreadConserved' /\ file' # Torn
  BY <1>1 DEF Counted, UnreadConserved
<1>3. OneReturn'
  BY DEF Counted, OneReturn
<1>4. OneCopy'
  BY <1>1 DEF Counted, OneCopy
<1> QED
  BY <1>2, <1>3, <1>4 DEF Counted

(* A process that has only moved on within its operation. *)
LEMMA CopiesMove ==
  ASSUME TypeOK, Counted, UNCHANGED <<file, put, got, returned, hands, sent>>,
         NEW p \in Procs,
         \A q \in Procs \ {p} : pc'[q] = pc[q] /\ op'[q] = op[q],
         pc[p] # "unlock", \A m \in Messages : ~Taking(p, m)',
         \A m \in Messages : Storing(p, m)' => Storing(p, m)
  PROVE  Counted'
<1>1. \A q \in Procs, m \in Messages :
        /\ Taking(q, m)' <=> Taking(q, m)
        /\ Storing(q, m)' => Storing(q, m)
        /\ m \in hands'[q] <=> m \in hands[q]
  BY DEF Taking, Storing
<1>2. \A q \in Procs, m \in Messages : Has(q, m)' => Has(q, m)
  BY <1>1 DEF Has
<1>3. \A q \in Procs, m \in Messages : ~(m \in hands[q] /\ Storing(q, m))
  BY DEF Counted, OneCopy, Has
<1> QED
  BY <1>1, <1>2, <1>3, CopiesStay

(* The rename: a stored copy is in the file, a taken one is in no place    *)
(* but with its taker.                                                     *)
LEMMA RenameCounts ==
  ASSUME TypeOK, SnapshotFresh, FiniteOps, Prepared, Counted, NEW p \in Procs, Rename(p)
  PROVE  Counted'
<1> DEFINE msgs == op[p].msgs
           kind == op[p].kind
<1>1. /\ pc[p] = "rename" /\ Alive(p) /\ file' = tmp[p]
      /\ pc' = [pc EXCEPT ![p] = "unlock"]
      /\ UNCHANGED <<op, hands, sent, returned>>
  BY DEF Rename
<1>2. file \in Seq(Entry) /\ msgs \in SUBSET Messages /\ IsFiniteSet(msgs)
  BY <1>1 DEF TypeOK, FiniteOps, Counted
<1>3. file' = Updated(op[p], file) /\ kind \in Kinds
  BY <1>1 DEF Prepared, SnapshotFresh
<1>4. /\ file' \in Seq(Entry)
      /\ \A m : Unread(file', m) = IF m \notin msgs THEN Unread(file, m)
                                   ELSE IF kind = "receive" THEN 0 ELSE Unread(file, m) + 1
  BY <1>2, <1>3, UpdatedCounts
<1>5. file' # Torn
  BY <1>4, TornAssumption DEF Entry
<1>6. \A m \in Messages : /\ Unread(file, m) \in Nat /\ put[m] \in Nat /\ got[m] \in Nat
                          /\ returned[m] \in Nat
  BY <1>2, UnreadNat DEF TypeOK
<1>7. \A q \in Procs, m \in Messages :
        /\ q # p => (Has(q, m)' <=> Has(q, m)) /\ (Taking(q, m)' <=> Taking(q, m))
                    /\ (Storing(q, m)' <=> Storing(q, m))
        /\ ~Taking(p, m) /\ ~Storing(p, m)'
        /\ Taking(p, m)' <=> kind = "receive" /\ m \in msgs
        /\ Storing(p, m) <=> kind # "receive" /\ m \in msgs
  BY <1>1, <1>3 DEF Has, Taking, Storing, TypeOK, Kinds
<1>8. \A m \in Messages : Has(p, m)' <=> m \in hands[p] \/ Taking(p, m)'
  BY <1>1, <1>7 DEF Has
<1>9. \A m \in Messages : m \in hands[p] => Has(p, m)
  BY DEF Has
<1>10. \A m \in Messages : Storing(p, m) => Has(p, m)
  BY DEF Has
<1>11. \A q \in Procs, m \in Messages : Taking(q, m) => Has(q, m)
  BY DEF Has
<1>12. CASE kind = "receive"
  <2>1. \A m \in msgs : /\ m \in Messages /\ Unread(file, m) = 1 /\ m \in sent
                        /\ \A q \in Procs : ~Has(q, m)
    <3>1. \A m \in msgs : m \in Messages /\ Unread(file, m) > 0
      BY <1>1, <1>2, <1>12 DEF Prepared, SnapshotFresh
    <3> QED
      BY <1>6, <3>1 DEF Counted, OneCopy
  <2>2. \A m \in Messages : /\ put'[m] = put[m]
                            /\ got'[m] = IF m \in msgs THEN got[m] + 1 ELSE got[m]
    BY <1>12 DEF Rename
  <2>3. \A m \in Messages : Unread(file', m) = IF m \in msgs THEN 0 ELSE Unread(file, m)
    BY <1>4, <1>12
  <2> HIDE DEF msgs, kind
  <2>4. UnreadConserved'
    <3>1. \A m \in Messages : Unread(file, m) + got[m] = put[m]
      BY DEF Counted, UnreadConserved
    <3>2. \A m \in Messages : Unread(file', m) + got'[m] = put'[m]
      BY <1>6, <2>1, <2>2, <2>3, <3>1
    <3> QED
      BY <3>2 DEF UnreadConserved
  <2>5. OneCopy'
    <3>1. \A m \in msgs : /\ Unread(file', m) = 0 /\ m \in sent'
                          /\ \A q \in Procs : Has(q, m)' => q = p
      BY <1>1, <1>7, <2>1, <2>3
    <3>2. \A m \in Messages \ msgs : \A q \in Procs : Has(q, m)' => Has(q, m)
      BY <1>7, <1>8, <1>9
    <3>3. \A m \in Messages \ msgs : Unread(file', m) = Unread(file, m)
      BY <2>3
    <3>4. \A q \in Procs, m \in Messages : ~(m \in hands'[q] /\ Storing(q, m)')
      BY <1>1, <1>7 DEF Counted, OneCopy, Has
    <3> QED
      BY <1>1, <3>1, <3>2, <3>3, <3>4 DEF Counted, OneCopy
  <2>6. OneReturn'
    <3>1. \A m \in msgs : m \in Messages /\ Taking(p, m)' /\ ~\E q \in Procs : Taking(q, m)
      BY <1>7, <1>11, <1>12, <2>1
    <3>2. \A m \in Messages \ msgs :
            (\E q \in Procs : Taking(q, m)') <=> (\E q \in Procs : Taking(q, m))
      BY <1>7
    <3>3. \A m \in Messages :
            returned'[m] + (IF \E q \in Procs : Taking(q, m)' THEN 1 ELSE 0) = got'[m]
      BY <1>1, <1>6, <2>2, <3>1, <3>2 DEF Counted, OneReturn
    <3> QED
      BY <3>3 DEF OneReturn
  <2> QED
    BY <1>5, <2>4, <2>5, <2>6 DEF Counted
<1>13. CASE kind # "receive"
  <2>1. \A m \in msgs : m \in Messages /\ Has(p, m) /\ m \notin hands[p]
    BY <1>2, <1>7, <1>10, <1>13 DEF Counted, OneCopy
  <2>2. \A m \in msgs : /\ Unread(file, m) = 0 /\ m \in sent
                        /\ \A q \in Procs : Has(q, m) => q = p
    BY <2>1 DEF Counted, OneCopy
  <2>3. \A m \in Messages : /\ got'[m] = got[m]
                            /\ put'[m] = IF m \in msgs THEN put[m] + 1 ELSE put[m]
    BY <1>13 DEF Rename
  <2>4. \A m \in Messages : Unread(file', m) = IF m \in msgs THEN Unread(file, m) + 1
                                               ELSE Unread(file, m)
    BY <1>4, <1>13
  <2>5. \A q \in Procs, m \in Messages : Taking(q, m)' <=> Taking(q, m)
    BY <1>7, <1>13
  <2> HIDE DEF msgs, kind
  <2>6. UnreadConserved'
    <3>1. \A m \in Messages : Unread(file, m) + got[m] = put[m]
      BY DEF Counted, UnreadConserved
    <3>2. \A m \in Messages : Unread(file', m) + got'[m] = put'[m]
      BY <1>6, <2>3, <2>4, <3>1
    <3> QED
      BY <3>2 DEF UnreadConserved
  <2>7. OneCopy'
    <3>1. \A m \in msgs : /\ Unread(file', m) = 1 /\ m \in sent'
                          /\ \A q \in Procs : ~Has(q, m)'
      BY <1>1, <1>7, <1>8, <1>13, <2>1, <2>2, <2>4
    <3>2. \A m \in Messages : \A q \in Procs : Has(q, m)' => Has(q, m)
      BY <1>7, <1>8, <1>9, <2>5
    <3>3. \A m \in Messages \ msgs : Unread(file', m) = Unread(file, m)
      BY <2>4
    <3>4. \A q \in Procs, m \in Messages : ~(m \in hands'[q] /\ Storing(q, m)')
      BY <1>1, <1>7 DEF Counted, OneCopy, Has
    <3> QED
      BY <1>1, <3>1, <3>2, <3>3, <3>4 DEF Counted, OneCopy
  <2>8. OneReturn'
    BY <1>1, <2>3, <2>5 DEF Counted, OneReturn
  <2> QED
    BY <1>5, <2>6, <2>7, <2>8 DEF Counted
<1> QED
  BY <1>12, <1>13

LEMMA CountedStep ==
  ASSUME TypeOK, SnapshotFresh, FiniteOps, Prepared, Counted, [Next]_vars
  PROVE  Counted'
<1>0. /\ DOMAIN pc = Procs /\ DOMAIN op = Procs /\ DOMAIN hands = Procs
      /\ \A q \in Procs : DOMAIN op[q] = {"kind", "msgs"}
      /\ \A q \in Procs : hands[q] \subseteq Messages
  BY DEF TypeOK
<1>1. ASSUME NEW p \in Procs, NEW m \in Messages, Send(p, m) PROVE Counted'
  <2>1. /\ UNCHANGED <<file, put, got, returned, hands>> /\ sent' = sent \cup {m} /\ m \notin sent
        /\ pc[p] = "idle" /\ pc' = [pc EXCEPT ![p] = "lock"]
        /\ op' = [op EXCEPT ![p] = [kind |-> "send", msgs |-> {m}]]
    BY <1>1 DEF Send, Begin
  <2>2. \A q \in Procs : ~Has(q, m) /\ Unread(file, m) = 0
    BY <2>1 DEF Counted, OneCopy
  <2>3. \A q \in Procs, n \in Messages :
          /\ Taking(q, n)' <=> Taking(q, n)
          /\ Storing(q, n)' => Storing(q, n) \/ (n = m /\ q = p)
    BY <1>0, <2>1 DEF Taking, Storing
  <2>4. \A q \in Procs, n \in Messages : Has(q, n)' => Has(q, n) \/ (n = m /\ q = p)
    BY <2>1, <2>3 DEF Has
  <2>5. \A q \in Procs : m \notin hands[q]
    BY <2>2 DEF Has
  <2>6. OneCopy'
    <3>1. \A n \in Messages, q \in Procs : ~(n \in hands'[q] /\ Storing(q, n)')
      BY <2>1, <2>3, <2>5 DEF Counted, OneCopy, Has
    <3> QED
      BY <2>1, <2>2, <2>4, <3>1 DEF Counted, OneCopy
  <2>7. OneReturn' /\ UnreadConserved' /\ file' # Torn
    BY <2>1, <2>3 DEF Counted, OneReturn, UnreadConserved
  <2> QED
    BY <2>6, <2>7 DEF Counted
<1>2. ASSUME NEW p \in Procs, NEW msgs, Receive(p, msgs) PROVE Counted'
  <2>1. /\ UNCHANGED <<file, put, got, returned, sent>> /\ hands' = [hands EXCEPT ![p] = {}]
        /\ pc[p] = "idle" /\ pc' = [pc EXCEPT ![p] = "lock"]
        /\ op' = [op EXCEPT ![p] = [kind |-> "receive", msgs |-> msgs]]
    BY <1>2 DEF Receive, Begin
  <2>2. \A q \in Procs, n \in Messages :
          /\ Taking(q, n)' <=> Taking(q, n)
          /\ Storing(q, n)' => Storing(q, n)
          /\ n \in hands'[q] => n \in hands[q]
    BY <1>0, <2>1 DEF Taking, Storing
  <2>3. \A q \in Procs, n \in Messages : ~(n \in hands[q] /\ Storing(q, n))
    BY DEF Counted, OneCopy, Has
  <2>4. \A q \in Procs, n \in Messages : Has(q, n)' => Has(q, n)
    BY <2>2 DEF Has
  <2> QED
    BY <2>1, <2>2, <2>3, <2>4, CopiesStay
<1>3. ASSUME NEW p \in Procs, NEW msgs, Requeue(p, msgs) PROVE Counted'
  <2>1. /\ UNCHANGED <<file, put, got, returned, sent>>
        /\ hands' = [hands EXCEPT ![p] = @ \ msgs] /\ msgs \subseteq hands[p]
        /\ pc[p] = "idle" /\ pc' = [pc EXCEPT ![p] = "lock"]
        /\ op' = [op EXCEPT ![p] = [kind |-> "requeue", msgs |-> msgs]]
    BY <1>3 DEF Requeue, Begin
  <2>2. \A q \in Procs, n \in Messages :
          /\ Taking(q, n)' <=> Taking(q, n)
          /\ Storing(q, n)' => Storing(q, n) \/ (q = p /\ n \in msgs)
          /\ n \in hands'[q] => n \in hands[q] /\ ~(q = p /\ n \in msgs)
    BY <1>0, <2>1 DEF Taking, Storing
  <2>3. \A q \in Procs, n \in Messages : ~(n \in hands[q] /\ Storing(q, n))
    BY DEF Counted, OneCopy, Has
  <2>4. \A q \in Procs, n \in Messages : Has(q, n)' => Has(q, n)
    BY <2>1, <2>2 DEF Has
  <2> QED
    BY <2>1, <2>2, <2>3, <2>4, CopiesStay
<1>4. ASSUME NEW p \in Procs, Acquire(p) \/ WriteTmp(p) PROVE Counted'
  <2>1. /\ UNCHANGED <<file, put, got, returned, hands, sent, op>>
        /\ pc[p] \in {"lock", "write"}
        /\ pc' = [pc EXCEPT ![p] = IF Acquire(p) THEN "load" ELSE "rename"]
    BY <1>4 DEF Acquire, WriteTmp
  <2>2. \A m \in Messages : Storing(p, m)' => Storing(p, m)
    BY <2>1 DEF Storing
  <2>3. \A m \in Messages : ~Taking(p, m)'
    BY <1>0, <2>1 DEF Taking
  <2> QED
    BY <1>0, <2>1, <2>2, <2>3, CopiesMove
<1>5. ASSUME NEW p \in Procs, LockTimeout(p) \/ Fail(p) PROVE Counted'
  <2>1. /\ UNCHANGED <<file, put, got, returned, hands, sent>>
        /\ pc[p] # "unlock" /\ pc' = [pc EXCEPT ![p] = "idle"]
        /\ op' = [op EXCEPT ![p] = Idle]
    BY <1>5 DEF LockTimeout, Fail
  <2>2. \A m \in Messages : ~Storing(p, m)' /\ ~Taking(p, m)'
    BY <1>0, <2>1 DEF Storing, Taking
  <2> QED
    BY <1>0, <2>1, <2>2, CopiesMove
<1>6. ASSUME NEW p \in Procs, Load(p) PROVE Counted'
  <2> DEFINE found == Matching(file, op[p].msgs)
  <2>1. /\ UNCHANGED <<file, put, got, returned, hands, sent>> /\ pc[p] = "load"
        /\ op' = IF op[p].kind = "receive" THEN [op EXCEPT ![p].msgs = found] ELSE op
        /\ pc' = [pc EXCEPT ![p] = IF op[p].kind = "receive" /\ found = {}
                                     THEN "unlock" ELSE "write"]
    BY <1>6 DEF Load
  <2> HIDE DEF found
  <2>2. /\ op'[p].kind = op[p].kind
        /\ op[p].kind = "receive" => op'[p].msgs = found
        /\ op[p].kind # "receive" => op' = op
    BY <1>0, <2>1
  <2>3. \A m \in Messages : Storing(p, m)' => Storing(p, m)
    BY <2>1, <2>2 DEF Storing
  <2>4. \A m \in Messages : ~Taking(p, m)'
    BY <1>0, <2>1, <2>2 DEF Taking
  <2> QED
    BY <1>0, <2>1, <2>3, <2>4, CopiesMove
<1>7. ASSUME NEW p \in Procs, Rename(p) PROVE Counted'
  BY <1>7, RenameCounts
<1>8. ASSUME NEW p \in Procs, Unlock(p) PROVE Counted'
  <2> DEFINE result == IF op[p].kind = "receive" THEN op[p].msgs ELSE {}
  <2>1. /\ UNCHANGED <<file, put, got, sent>> /\ pc[p] = "unlock"
        /\ pc' = [pc EXCEPT ![p] = "idle"] /\ op' = [op EXCEPT ![p] = Idle]
        /\ hands' = [hands EXCEPT ![p] = @ \cup result]
        /\ \A m \in Messages : returned'[m] = IF m \in result THEN returned[m] + 1 ELSE returned[m]
    BY <1>8 DEF Unlock
  <2>2. \A m \in Messages : Taking(p, m) <=> m \in result
    BY <2>1 DEF Taking
  <2> HIDE DEF result
  <2>3. \A q \in Procs, m \in Messages :
          /\ q # p => (Taking(q, m)' <=> Taking(q, m)) /\ (Storing(q, m)' <=> Storing(q, m))
                      /\ hands'[q] = hands[q]
          /\ ~Taking(p, m)' /\ ~Storing(p, m)'
          /\ m \in hands'[p] => m \in hands[p] \/ Taking(p, m)
    BY <1>0, <2>1, <2>2 DEF Taking, Storing
  <2>4. \A q \in Procs, m \in Messages : Has(q, m)' => Has(q, m)
    BY <2>3 DEF Has
  <2>5. OneCopy'
    <3>1. \A q \in Procs, m \in Messages : ~(m \in hands'[q] /\ Storing(q, m)')
      BY <2>3 DEF Counted, OneCopy, Has
    <3> QED
      BY <2>1, <2>4, <3>1 DEF Counted, OneCopy
  <2>6. OneReturn'
    <3>1. \A m \in Messages : returned[m] \in Nat /\ got[m] \in Nat
      BY DEF TypeOK
    <3>2. ASSUME NEW m \in Messages
          PROVE  returned'[m] + (IF \E q \in Procs : Taking(q, m)' THEN 1 ELSE 0) = got'[m]
      <4>1. returned[m] + (IF \E q \in Procs : Taking(q, m) THEN 1 ELSE 0) = got[m]
        BY DEF Counted, OneReturn
      <4>2. CASE m \in result
        <5>1. \A q \in Procs : Taking(q, m) => q = p
          BY <2>2, <4>2 DEF Counted, OneCopy, Has
        <5>2. ~\E q \in Procs : Taking(q, m)'
          BY <2>3, <5>1
        <5> QED
          BY <2>1, <2>2, <3>1, <4>1, <4>2, <5>2
      <4>3. CASE m \notin result
        <5>1. (\E q \in Procs : Taking(q, m)') <=> (\E q \in Procs : Taking(q, m))
          BY <2>2, <2>3, <4>3
        <5> QED
          BY <2>1, <4>1, <4>3, <5>1
      <4> QED
        BY <4>2, <4>3
    <3> QED
      BY <3>2 DEF OneReturn
  <2>7. UnreadConserved' /\ file' # Torn
    BY <2>1 DEF Counted, UnreadConserved
  <2> QED
    BY <2>5, <2>6, <2>7 DEF Counted
<1>9. ASSUME (\E p \in Procs : Crash(p) \/ Reclaim(p)) \/ UNCHANGED vars PROVE Counted'
  <2>1. UNCHANGED <<file, pc, op, hands, sent, put, got, returned>>
    BY <1>9 DEF Crash, Reclaim, vars
  <2> QED
    BY <2>1 DEF Counted, OneCopy, OneReturn, UnreadConserved, Has, Storing, Taking
<1> QED
  BY <1>1, <1>2, <1>3, <1>4, <1>5, <1>6, <1>7, <1>8, <1>9 DEF Next, Step

(* No message is lost or returned twice, for any number of processes and   *)
(* messages, whoever dies or fails: the inbox holds an unread copy of what *)
(* was stored and not taken, whatever was pruned, and what was taken was   *)
(* returned to one consumer, or is with a process that is still to return  *)
(* it.                                                                     *)
THEOREM MessagesAreKept == Spec => []MessagesKept
<1>1. Init => TypeOK /\ FreshInv /\ FiniteOps /\ Prepared /\ Counted
  <2> SUFFICES ASSUME Init PROVE TypeOK /\ FreshInv /\ FiniteOps /\ Prepared /\ Counted
    OBVIOUS
  <2>1. <<>> \in Seq(Entry)
    OBVIOUS
  <2>2. TypeOK
    BY <2>1, BoundsAssumption DEF Init, TypeOK, Lock!Init, Idle
  <2>3. FreshInv
    BY DEF Init, FreshInv, Shape, HoldersOwn, SnapshotFresh, Holding, Alive, Lock!Init
  <2>4. FiniteOps /\ Prepared
    BY FS_EmptySet DEF Init, FiniteOps, Prepared, Idle, Alive
  <2>5. \A m : Unread(file, m) = 0
    <3>1. file \in Seq(Entry) /\ DOMAIN file = {}
      BY <2>1 DEF Init
    <3> QED
      BY <3>1, UnreadNat
  <2>6. file # Torn
    BY <2>1, TornAssumption DEF Init, Entry
  <2>7. \A p \in Procs, m \in Messages : ~Storing(p, m) /\ ~Taking(p, m) /\ m \notin hands[p]
    BY DEF Init, Storing, Taking
  <2>8. UnreadConserved /\ OneCopy /\ OneReturn
    BY <2>5, <2>7 DEF Init, UnreadConserved, OneCopy, OneReturn, Has
  <2> QED
    BY <2>2, <2>3, <2>4, <2>6, <2>8 DEF Counted
<1>2. TypeOK /\ FreshInv /\ FiniteOps /\ Prepared /\ Counted /\ [Next]_vars
        => (TypeOK /\ FreshInv /\ FiniteOps /\ Prepared /\ Counted)'
  BY TypeStep, FreshStep, PreparedStep, CountedStep DEF FreshInv
<1>3. TypeOK /\ Counted => MessagesKept
  <2> SUFFICES ASSUME TypeOK, Counted PROVE MessagesKept
    OBVIOUS
  <2>1. \A m \in Messages : /\ Unread(file, m) \in Nat /\ put[m] \in Nat /\ got[m] \in Nat
                            /\ returned[m] \in Nat
    BY UnreadNat DEF TypeOK, Counted
  <2>2. \A m \in Messages : returned[m] <= got[m] /\ got[m] <= put[m]
    BY <2>1 DEF Counted, UnreadConserved, OneReturn
  <2>3. ASSUME \A p \in Procs : pc[p] # "unlock" PROVE returned = got
    <3>1. \A m \in Messages : ~\E p \in Procs : Taking(p, m)
      BY <2>3 DEF Taking
    <3>2. \A m \in Messages : returned[m] = got[m]
      BY <2>1, <3>1 DEF Counted, OneReturn
    <3> QED
      BY <3>2 DEF TypeOK
  <2> QED
    BY <2>2, <2>3 DEF MessagesKept, DeliveredOnce, Counted
<1> QED
  BY <1>1, <1>2, <1>3, PTL DEF Spec
=============================================================================
