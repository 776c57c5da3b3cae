--------------------------- MODULE AgentLoopProofs ---------------------------
(***************************************************************************)
(* The agent loop, for every number of calls, turns and events.            *)
(*                                                                         *)
(* - No tool starts in an interrupted run: two actions can start tools,    *)
(*   and both look at the abort signal in the step that starts them.       *)
(* - The log can stand in for the conversation.  The two change together   *)
(*   in four ways (Said, Recorded, Unrecorded, Resumed), and each keeps     *)
(*   what a resumed session would have equal to what was recorded.          *)
(* - What the conversation says of the calls is what happened, in it and   *)
(*   in what a resumed session would have.                                 *)
(* - Every text, note and reminder is in exactly one place: the places     *)
(*   where it can be are counted, and every step moves it as a whole.      *)
(***************************************************************************)
EXTENDS AgentLoop, SequenceTheorems, FiniteSetTheorems, TLAPS

(* In an interrupted run a call that is let through does not start.         *)
LEMMA NothingStarts ==
  ASSUME aborted, Launch \/ RunBatch
  PROVE  ran' = ran
<1>1. NewlyRun(calls, calls') = {}
  <2>1. CASE Launch
    BY <2>1 DEF Launch, Asking, NewlyRun, Started
  <2>2. CASE RunBatch
    BY <2>2 DEF RunBatch, NewlyRun, Started
  <2> QED BY <2>1, <2>2
<1> QED BY <1>1 DEF Launch, RunBatch

(* What a write that fails leaves alone. *)
LEMMA FaultsFrame ==
  ASSUME Faults
  PROVE  /\ Event("others") /\ failed' = TRUE /\ pc' \in {"closing", "idle"}
         /\ (pc' = "idle" <=> pc = "prepare")
         /\ UNCHANGED <<aborted, tries, followUps, recalled, lost, ran>>
<1> USE DEF Goto, SayFails, turnVars, queues
<1>1. CASE PreparedFails \/ HeadFails \/ DrainFails \/ RecordFails
  BY <1>1 DEF PreparedFails, HeadFails, DrainFails, RecordFails
<1>2. CASE BoundaryFails \/ WordsFail
  BY <1>2 DEF BoundaryFails, WordsFail
<1>3. CASE CallsFail \/ ResultsFail \/ DeliverFails
  BY <1>3 DEF CallsFail, ResultsFail, DeliverFails
<1> QED
  BY <1>1, <1>2, <1>3 DEF Faults

(* All other actions leave the calls that were started alone.               *)
LEMMA OthersStartNothing ==
  ASSUME [Next]_vars, ~Launch, ~RunBatch
  PROVE  ran' = ran
<1>1. CASE Others
  BY <1>1 DEF Others, Submit, Recall, Abort, Remind, Post, HookNote, Crash, history
<1>2. CASE Waits
  BY <1>2 DEF Waits, PreSend, Summarized, SummaryFails, Interrupted, Receive, TooLong, Retry,
              Fail, Woken, Refuse, ToolEnds, history
<1>3. CASE Steps
  BY <1>3 DEF Steps, SendFollowUp, Prepared, Wake, Top, DrainInbox, RecordNote, Continue,
              Answer, CallTools, Settle, Ask, Finish, Deliver, Advance, Close, history
<1>4. CASE Faults
  BY <1>4, FaultsFrame
<1>5. CASE UNCHANGED vars
  BY <1>5 DEF vars, history
<1> QED BY <1>1, <1>2, <1>3, <1>4, <1>5 DEF Next

(* A tool never starts in a run that has been interrupted: neither one      *)
(* whose permission was still open, nor one that waited for the rest of its *)
(* batch (executeCall, runPending).                                         *)
THEOREM NoToolAfterAbort == Spec => NoStartAfterAbort
<1>1. [Next]_vars => [aborted /\ aborted' => ran' = ran]_vars
  BY NothingStarts, OthersStartNothing
<1> QED BY <1>1, PTL DEF Spec, NoStartAfterAbort
-----------------------------------------------------------------------------
(* The places of a finite set of positions are numbered in their order. *)
LEMMA InOrder ==
  ASSUME NEW places \in SUBSET Nat, IsFiniteSet(places)
  PROVE  /\ Cardinality(places) \in Nat
         /\ \A i \in places : Rank(places, i) \in 1..Cardinality(places)
         /\ \A i, j \in places : i < j => Rank(places, i) < Rank(places, j)
         /\ \A k \in 1..Cardinality(places) :
              Nth(places, k) \in places /\ Rank(places, Nth(places, k)) = k
<1> DEFINE upTo(i) == {j \in places : j <= i}
           n == Cardinality(places)
           rank == [i \in places |-> Rank(places, i)]
<1>1. n \in Nat
  BY FS_CardinalityType
<1>2. ASSUME NEW i \in places
      PROVE  IsFiniteSet(upTo(i)) /\ Rank(places, i) \in 1..n
  <2>1. upTo(i) \in SUBSET places /\ i \in upTo(i)
    OBVIOUS
  <2>2. IsFiniteSet(upTo(i)) /\ Cardinality(upTo(i)) \in Nat /\ Cardinality(upTo(i)) <= n
    BY <2>1, FS_Subset, FS_CardinalityType
  <2>3. Cardinality(upTo(i)) # 0
    BY <2>1, <2>2, FS_EmptySet
  <2>4. Rank(places, i) = Cardinality(upTo(i))
    BY DEF Rank
  <2> HIDE DEF upTo, n
  <2> QED
    BY <1>1, <2>2, <2>3, <2>4
<1>3. ASSUME NEW i \in places, NEW j \in places, i < j
      PROVE  Rank(places, i) < Rank(places, j)
  <2>1. upTo(i) \in SUBSET upTo(j) /\ upTo(i) # upTo(j)
    <3>1. i \in Nat /\ j \in Nat /\ \A k \in places : k \in Nat
      OBVIOUS
    <3>2. \A k \in places : k <= i => k <= j
      BY <1>3, <3>1
    <3>3. j \in upTo(j) /\ j \notin upTo(i)
      BY <1>3, <3>1
    <3> QED
      BY <3>2, <3>3
  <2>2. /\ Cardinality(upTo(i)) <= Cardinality(upTo(j))
        /\ Cardinality(upTo(i)) # Cardinality(upTo(j))
    <3> HIDE DEF upTo
    <3> QED
      BY <1>2, <2>1, FS_Subset
  <2>3. Cardinality(upTo(i)) = Rank(places, i) /\ Cardinality(upTo(j)) = Rank(places, j)
    BY DEF Rank
  <2> HIDE DEF upTo
  <2> QED
    BY <1>1, <1>2, <2>2, <2>3
<1>4. rank \in Injection(places, 1..n)
  <2>1. rank \in [places -> 1..n]
    BY <1>2
  <2>2. ASSUME NEW i \in places, NEW j \in places, rank[i] = rank[j] PROVE i = j
    <3>1. Rank(places, i) = Rank(places, j)
      BY <2>2, Zenon
    <3>2. Rank(places, i) \in 1..n
      BY <1>2
    <3> HIDE DEF rank, n
    <3>3. ~(i < j) /\ ~(j < i)
      BY <1>1, <1>3, <3>1, <3>2
    <3> QED
      BY <3>3
  <2> HIDE DEF rank
  <2> QED
    BY <2>1, <2>2 DEF Injection, IsInjective
<1>5. IsFiniteSet(1..n) /\ Cardinality(1..n) = n
  BY <1>1, FS_Interval
<1>6. rank \in Surjection(places, 1..n)
  <2> HIDE DEF rank, n
  <2> QED
    BY <1>4, <1>5, FS_Injection DEF n
<1>7. ASSUME NEW k \in 1..n
      PROVE  Nth(places, k) \in places /\ Rank(places, Nth(places, k)) = k
  <2>1. \E i \in places : Rank(places, i) = k
    BY <1>6 DEF Surjection
  <2> QED
    BY <2>1 DEF Nth
<1> QED
  BY <1>1, <1>2, <1>3, <1>7

(* The positions of a sequence are a finite set of numbers. *)
LEMMA Positions ==
  ASSUME NEW S, NEW s \in Seq(S), NEW places \in SUBSET DOMAIN s
  PROVE  /\ places \in SUBSET Nat /\ IsFiniteSet(places)
         /\ Cardinality(places) \in Nat
<1>1. DOMAIN s = 1..Len(s) /\ Len(s) \in Nat
  OBVIOUS
<1>2. IsFiniteSet(1..Len(s))
  BY <1>1, FS_Interval
<1> QED
  BY <1>1, <1>2, FS_Subset, FS_CardinalityType

(* What is numbered is numbered in its order, and each place once. *)
LEMMA NthGrows ==
  ASSUME NEW places \in SUBSET Nat, IsFiniteSet(places)
  PROVE  /\ \A k, l \in 1..Cardinality(places) : k < l => Nth(places, k) < Nth(places, l)
         /\ \A i \in places : \E k \in 1..Cardinality(places) : Nth(places, k) = i
<1> DEFINE n == Cardinality(places)
<1>1. /\ n \in Nat
      /\ \A i \in places : Rank(places, i) \in 1..n
      /\ \A i, j \in places : i < j => Rank(places, i) < Rank(places, j)
      /\ \A k \in 1..n : Nth(places, k) \in places /\ Rank(places, Nth(places, k)) = k
  BY InOrder
<1>2. \A i \in places : i \in Nat
  OBVIOUS
<1> HIDE DEF n
<1>3. ASSUME NEW k \in 1..n, NEW l \in 1..n, k < l PROVE Nth(places, k) < Nth(places, l)
  <2>1. PICK i \in places : i = Nth(places, k) /\ Rank(places, i) = k
    BY <1>1
  <2>2. PICK j \in places : j = Nth(places, l) /\ Rank(places, j) = l
    BY <1>1
  <2>3. ~(j < i) /\ i # j
    BY <1>1, <1>3, <2>1, <2>2
  <2> QED
    BY <1>2, <2>1, <2>2, <2>3
<1>4. ASSUME NEW i \in places PROVE \E k \in 1..n : Nth(places, k) = i
  <2>1. PICK k \in 1..n : Rank(places, i) = k
    BY <1>1
  <2>2. PICK j \in places : j = Nth(places, k) /\ Rank(places, j) = k
    BY <1>1
  <2>3. ~(i < j) /\ ~(j < i)
    BY <1>1, <2>1, <2>2
  <2> QED
    BY <1>2, <2>1, <2>2, <2>3
<1> QED
  BY <1>3, <1>4 DEF n

(* An increasing list of all the places is their numbering. *)
LEMMA Increasing ==
  ASSUME NEW places \in SUBSET Nat, IsFiniteSet(places), NEW n \in Nat,
         NEW g \in [1..n -> places],
         \A k, l \in 1..n : k < l => g[k] < g[l],
         \A i \in places : \E k \in 1..n : g[k] = i
  PROVE  Cardinality(places) = n /\ \A k \in 1..n : Nth(places, k) = g[k]
<1>1. \A k \in 1..n : g[k] \in Nat /\ g[k] \in places
  OBVIOUS
<1>2. \A k, l \in 1..n : k <= l <=> g[k] <= g[l]
  <2> SUFFICES ASSUME NEW k \in 1..n, NEW l \in 1..n PROVE k <= l <=> g[k] <= g[l]
    OBVIOUS
  <2>1. (k < l => g[k] < g[l]) /\ (l < k => g[l] < g[k])
    OBVIOUS
  <2>2. k \in Nat /\ l \in Nat /\ g[k] \in Nat /\ g[l] \in Nat
    BY <1>1
  <2> QED
    BY <2>1, <2>2
<1>3. ASSUME NEW k \in 1..n PROVE Rank(places, g[k]) = k
  <2> DEFINE upTo == {j \in places : j <= g[k]}
             h == [i \in 1..k |-> g[i]]
  <2>1. \A i \in 1..k : i \in 1..n /\ i <= k
    OBVIOUS
  <2>2. \A i \in 1..k : g[i] \in upTo
    BY <1>1, <1>2, <2>1
  <2>3. h \in [1..k -> upTo]
    BY <2>2
  <2>4. ASSUME NEW j \in upTo PROVE \E i \in 1..k : h[i] = j
    <3>1. PICK i \in 1..n : g[i] = j
      OBVIOUS
    <3>2. i <= k
      BY <1>2, <3>1
    <3> QED
      BY <3>1, <3>2
  <2>5. \A i, j \in 1..k : h[i] = h[j] => i = j
    <3> SUFFICES ASSUME NEW i \in 1..k, NEW j \in 1..k, g[i] = g[j] PROVE i = j
      OBVIOUS
    <3>1. i \in 1..n /\ j \in 1..n /\ g[i] <= g[j] /\ g[j] <= g[i]
      BY <1>1, <2>1
    <3> QED
      BY <1>2, <3>1
  <2> HIDE DEF upTo, h
  <2>6. h \in Bijection(1..k, upTo)
    BY <2>3, <2>4, <2>5 DEF Bijection, Injection, IsInjective, Surjection
  <2>7. IsFiniteSet(1..k) /\ Cardinality(1..k) = k
    BY FS_Interval
  <2>8. Cardinality(upTo) = k
    BY <2>6, <2>7, FS_Bijection DEF ExistsBijection
  <2> QED
    BY <2>8 DEF Rank, upTo
<1>4. Cardinality(places) = n
  <2>1. \A i, j \in 1..n : g[i] = g[j] => i = j
    <3> SUFFICES ASSUME NEW i \in 1..n, NEW j \in 1..n, g[i] = g[j] PROVE i = j
      OBVIOUS
    <3>1. g[i] <= g[j] /\ g[j] <= g[i]
      BY <1>1
    <3> QED
      BY <1>2, <3>1
  <2>2. g \in Bijection(1..n, places)
    BY <2>1 DEF Bijection, Injection, IsInjective, Surjection
  <2>3. IsFiniteSet(1..n) /\ Cardinality(1..n) = n
    BY FS_Interval
  <2> QED
    BY <2>2, <2>3, FS_Bijection DEF ExistsBijection
<1>5. ASSUME NEW k \in 1..n PROVE Nth(places, k) = g[k]
  <2>1. PICK l \in 1..n : Nth(places, l) = g[k]
    BY <1>1, <1>4, NthGrows
  <2>2. Rank(places, Nth(places, l)) = l
    BY <1>4, InOrder
  <2> QED
    BY <1>3, <2>1, <2>2
<1> QED
  BY <1>4, <1>5

(* A selection has the elements at the places, each once and in their order. *)
LEMMA Chosen ==
  ASSUME NEW S, NEW s \in Seq(S), NEW places \in SUBSET DOMAIN s
  PROVE  /\ Selected(s, places) \in Seq(S)
         /\ DOMAIN Selected(s, places) = 1..Cardinality(places)
         /\ Len(Selected(s, places)) = Cardinality(places)
         /\ \A k \in 1..Cardinality(places) :
              Nth(places, k) \in places /\ Selected(s, places)[k] = s[Nth(places, k)]
         /\ \A i \in places : \E k \in 1..Cardinality(places) : Nth(places, k) = i
<1> DEFINE n == Cardinality(places)
           t == Selected(s, places)
<1>1. places \in SUBSET Nat /\ IsFiniteSet(places) /\ n \in Nat
  BY Positions
<1>2. \A k \in 1..n : Nth(places, k) \in places
  BY <1>1, InOrder
<1>3. \A i \in places : \E k \in 1..n : Nth(places, k) = i
  BY <1>1, NthGrows
<1>4. \A i \in places : s[i] \in S
  OBVIOUS
<1>5. t = [k \in 1..n |-> s[Nth(places, k)]]
  BY DEF Selected
<1> HIDE DEF n, t
<1>6. t \in Seq(S) /\ DOMAIN t = 1..n /\ Len(t) = n
  BY <1>1, <1>2, <1>4, <1>5
<1> QED
  BY <1>2, <1>3, <1>5, <1>6 DEF n, t

(* Some of the places of a sequence, the last of which there is. *)
LEMMA LastPlace ==
  ASSUME NEW places \in SUBSET Nat, IsFiniteSet(places), places # {}
  PROVE  \E i \in places : \A j \in places : j <= i
<1> DEFINE n == Cardinality(places)
<1>1. /\ n \in Nat
      /\ \A i \in places : Rank(places, i) \in 1..n
      /\ \A i, j \in places : i < j => Rank(places, i) < Rank(places, j)
      /\ \A k \in 1..n : Nth(places, k) \in places /\ Rank(places, Nth(places, k)) = k
  BY InOrder
<1> HIDE DEF n
<1>2. n \in 1..n
  <2>1. PICK i \in places : TRUE
    OBVIOUS
  <2>2. Rank(places, i) \in 1..n
    BY <1>1
  <2> QED
    BY <1>1, <2>2
<1>3. PICK i \in places : Rank(places, i) = n
  BY <1>1, <1>2
<1>4. \A j \in places : j \in Nat
  OBVIOUS
<1>5. \A j \in places : ~(i < j)
  BY <1>1, <1>3
<1> QED
  BY <1>3, <1>4, <1>5

(* Places of a sequence of length m, and of one that follows it. *)
Joined(P, m, Q) == P \cup {m + j : j \in Q}

LEMMA JoinedPlaces ==
  ASSUME NEW m \in Nat, NEW n \in Nat, NEW P \in SUBSET (1..m), NEW Q \in SUBSET (1..n)
  PROVE  /\ Cardinality(P) \in Nat /\ Cardinality(Q) \in Nat
         /\ Cardinality(Joined(P, m, Q)) = Cardinality(P) + Cardinality(Q)
         /\ \A k \in 1..Cardinality(P) :
              Nth(P, k) \in P /\ Nth(Joined(P, m, Q), k) = Nth(P, k)
         /\ \A k \in 1..Cardinality(Q) :
              Nth(Q, k) \in Q /\ Nth(Joined(P, m, Q), Cardinality(P) + k) = m + Nth(Q, k)
<1> DEFINE R == Joined(P, m, Q)
           p == Cardinality(P)
           q == Cardinality(Q)
           g == [k \in 1..(p + q) |-> IF k <= p THEN Nth(P, k) ELSE m + Nth(Q, k - p)]
<1>1. /\ P \in SUBSET Nat /\ IsFiniteSet(P) /\ p \in Nat
      /\ Q \in SUBSET Nat /\ IsFiniteSet(Q) /\ q \in Nat
  <2>1. IsFiniteSet(1..m) /\ IsFiniteSet(1..n)
    BY FS_Interval
  <2>2. IsFiniteSet(P) /\ IsFiniteSet(Q)
    BY <2>1, FS_Subset
  <2>3. p \in Nat /\ q \in Nat
    BY <2>2, FS_CardinalityType
  <2>4. P \in SUBSET Nat /\ Q \in SUBSET Nat
    OBVIOUS
  <2> QED
    BY <2>2, <2>3, <2>4
<1>2. R \in SUBSET Nat /\ IsFiniteSet(R)
  <2>1. \A i \in R : i \in 1..(m + n)
    <3>1. \A i \in P : i \in 1..(m + n)
      OBVIOUS
    <3>2. \A j \in Q : m + j \in 1..(m + n)
      OBVIOUS
    <3> QED
      BY <3>1, <3>2 DEF Joined
  <2> HIDE DEF R
  <2>2. m + n \in Nat
    OBVIOUS
  <2>3. IsFiniteSet(1..(m + n))
    BY <2>2, FS_Interval
  <2>4. R \in SUBSET (1..(m + n)) /\ R \in SUBSET Nat
    BY <2>1, <2>2
  <2>5. IsFiniteSet(R)
    BY <2>3, <2>4, FS_Subset
  <2> QED
    BY <2>4, <2>5
<1>3. /\ \A k \in 1..p : Nth(P, k) \in P
      /\ \A k, l \in 1..p : k < l => Nth(P, k) < Nth(P, l)
      /\ \A i \in P : \E k \in 1..p : Nth(P, k) = i
  BY <1>1, InOrder, NthGrows
<1>4. /\ \A k \in 1..q : Nth(Q, k) \in Q
      /\ \A k, l \in 1..q : k < l => Nth(Q, k) < Nth(Q, l)
      /\ \A i \in Q : \E k \in 1..q : Nth(Q, k) = i
  BY <1>1, InOrder, NthGrows
<1>5. \A i \in R : i \in P \/ \E j \in Q : i = m + j
  BY DEF Joined
<1>6. P \in SUBSET R /\ \A j \in Q : m + j \in R
  BY DEF Joined
<1>7. (\A i \in P : i \in Nat /\ i <= m) /\ (\A j \in Q : j \in Nat /\ j >= 1)
  OBVIOUS
<1> HIDE DEF R, p, q
<1>8. /\ p + q \in Nat
      /\ \A k \in 1..p : k \in 1..(p + q) /\ k <= p
      /\ \A k \in 1..q : p + k \in 1..(p + q) /\ ~(p + k <= p) /\ (p + k) - p = k
      /\ \A k \in 1..(p + q) : k \in 1..p \/ (k - p \in 1..q /\ p + (k - p) = k)
  BY <1>1
<1>9. /\ \A k \in 1..p : g[k] = Nth(P, k)
      /\ \A k \in 1..q : g[p + k] = m + Nth(Q, k)
  BY <1>8
<1>9a. \A k \in 1..(p + q) : k - p \in 1..q => g[k] = m + Nth(Q, k - p)
  <2> HIDE DEF g
  <2> QED
    BY <1>1, <1>8, <1>9
<1>10. ASSUME NEW k \in 1..(p + q) PROVE g[k] \in R
  <2> HIDE DEF g
  <2>1. CASE k \in 1..p
    BY <1>3, <1>6, <1>9, <2>1
  <2>2. CASE k - p \in 1..q
    <3>1. Nth(Q, k - p) \in Q
      BY <1>4, <2>2
    <3> QED
      BY <1>6, <1>9a, <2>2, <3>1
  <2> QED
    BY <1>8, <2>1, <2>2
<1>11. g \in [1..(p + q) -> R]
  BY <1>10
<1> HIDE DEF g
<1>12. ASSUME NEW k \in 1..(p + q), NEW l \in 1..(p + q), k < l PROVE g[k] < g[l]
  <2>1. CASE k \in 1..p /\ l \in 1..p
    BY <1>3, <1>9, <1>12, <2>1
  <2>2. CASE k \in 1..p /\ l - p \in 1..q
    <3>1. g[k] = Nth(P, k) /\ Nth(P, k) \in Nat /\ Nth(P, k) <= m
      BY <1>3, <1>7, <1>9, <2>2
    <3>2. g[l] = m + Nth(Q, l - p)
      BY <1>9a, <2>2
    <3>3. Nth(Q, l - p) \in Nat /\ Nth(Q, l - p) >= 1
      BY <1>4, <1>7, <2>2
    <3> QED
      BY <3>1, <3>2, <3>3
  <2>3. CASE k - p \in 1..q /\ l - p \in 1..q
    <3>1. g[k] = m + Nth(Q, k - p) /\ g[l] = m + Nth(Q, l - p)
      BY <1>9a, <2>3
    <3>2. k - p < l - p
      BY <1>1, <1>12
    <3>3. Nth(Q, k - p) < Nth(Q, l - p)
      BY <1>4, <2>3, <3>2
    <3>4. Nth(Q, k - p) \in Nat /\ Nth(Q, l - p) \in Nat
      BY <1>4, <1>7, <2>3
    <3> QED
      BY <3>1, <3>3, <3>4
  <2>4. ~(k - p \in 1..q /\ l \in 1..p)
    BY <1>1, <1>12
  <2> QED
    BY <1>8, <2>1, <2>2, <2>3, <2>4
<1>13. ASSUME NEW i \in R PROVE \E k \in 1..(p + q) : g[k] = i
  <2>1. CASE i \in P
    BY <1>3, <1>8, <1>9, <2>1
  <2>2. ASSUME NEW j \in Q, i = m + j PROVE \E k \in 1..(p + q) : g[k] = i
    <3>1. PICK k \in 1..q : Nth(Q, k) = j
      BY <1>4
    <3> QED
      BY <1>8, <1>9, <2>2, <3>1
  <2> QED
    BY <1>5, <2>1, <2>2
<1>14. Cardinality(R) = p + q /\ \A k \in 1..(p + q) : Nth(R, k) = g[k]
  BY <1>2, <1>8, <1>11, <1>12, <1>13, Increasing
<1>15. /\ \A k \in 1..p : Nth(R, k) = Nth(P, k)
       /\ \A k \in 1..q : Nth(R, p + k) = m + Nth(Q, k)
  BY <1>8, <1>9, <1>14
<1> QED
  BY <1>1, <1>3, <1>4, <1>14, <1>15 DEF R, p, q

(* Selecting from a sequence that is put together. *)
LEMMA SelectedJoined ==
  ASSUME NEW S, NEW a \in Seq(S), NEW b \in Seq(S),
         NEW P \in SUBSET DOMAIN a, NEW Q \in SUBSET DOMAIN b
  PROVE  Selected(a \o b, Joined(P, Len(a), Q)) = Selected(a, P) \o Selected(b, Q)
<1> DEFINE R == Joined(P, Len(a), Q)
           p == Cardinality(P)
           q == Cardinality(Q)
           s == Selected(a, P)
           t == Selected(b, Q)
           u == Selected(a \o b, R)
<1>1. /\ DOMAIN a = 1..Len(a) /\ DOMAIN b = 1..Len(b) /\ Len(a) \in Nat /\ Len(b) \in Nat
      /\ P \in SUBSET (1..Len(a)) /\ Q \in SUBSET (1..Len(b))
  OBVIOUS
<1>2. /\ p \in Nat /\ q \in Nat /\ Cardinality(R) = p + q
      /\ \A k \in 1..p : Nth(P, k) \in P /\ Nth(R, k) = Nth(P, k)
      /\ \A k \in 1..q : Nth(Q, k) \in Q /\ Nth(R, p + k) = Len(a) + Nth(Q, k)
  BY <1>1, JoinedPlaces
<1>3. /\ s \in Seq(S) /\ Len(s) = p /\ \A k \in 1..p : s[k] = a[Nth(P, k)]
      /\ t \in Seq(S) /\ Len(t) = q /\ \A k \in 1..q : t[k] = b[Nth(Q, k)]
  BY Chosen
<1>4. u = [k \in 1..(p + q) |-> (a \o b)[Nth(R, k)]]
  BY <1>2 DEF Selected
<1>5. /\ \A i \in 1..Len(a) : (a \o b)[i] = a[i]
      /\ \A i \in 1..Len(b) : (a \o b)[Len(a) + i] = b[i]
  OBVIOUS
<1> HIDE DEF R, p, q, s, t
<1>6. \A k \in 1..p : k \in 1..(p + q) /\ u[k] = s[k]
  <2>1. \A k \in 1..p : k \in 1..(p + q)
    BY <1>2
  <2>2. \A k \in 1..p : u[k] = (a \o b)[Nth(P, k)] /\ Nth(P, k) \in 1..Len(a)
    BY <1>1, <1>2, <1>4, <2>1
  <2> QED
    BY <1>3, <1>5, <2>1, <2>2
<1>7. \A k \in 1..q : p + k \in 1..(p + q) /\ u[p + k] = t[k]
  <2>1. \A k \in 1..q : p + k \in 1..(p + q)
    BY <1>2
  <2>2. \A k \in 1..q : u[p + k] = (a \o b)[Len(a) + Nth(Q, k)] /\ Nth(Q, k) \in 1..Len(b)
    BY <1>1, <1>2, <1>4, <2>1
  <2> QED
    BY <1>3, <1>5, <2>1, <2>2
<1>8. /\ s \o t \in Seq(S) /\ Len(s \o t) = p + q
      /\ \A k \in 1..p : (s \o t)[k] = s[k]
      /\ \A k \in 1..q : (s \o t)[p + k] = t[k]
  <2>1. /\ s \o t \in Seq(S) /\ Len(s \o t) = p + q
        /\ \A i \in 1..(p + q) : (s \o t)[i] = IF i <= p THEN s[i] ELSE t[i - p]
    BY <1>3, ConcatProperties
  <2>2. \A k \in 1..p : k \in 1..(p + q) /\ k <= p
    BY <1>2
  <2>3. \A k \in 1..q : p + k \in 1..(p + q) /\ ~(p + k <= p) /\ (p + k) - p = k
    BY <1>2
  <2> QED
    BY <2>1, <2>2, <2>3
<1>9. DOMAIN u = 1..(p + q) /\ \A k \in 1..(p + q) : u[k] = (s \o t)[k]
  <2>1. \A k \in 1..(p + q) : k \in 1..p \/ (k - p \in 1..q /\ p + (k - p) = k)
    BY <1>2
  <2>2. DOMAIN u = 1..(p + q)
    BY <1>4
  <2> HIDE DEF u
  <2>3. ASSUME NEW k \in 1..(p + q) PROVE u[k] = (s \o t)[k]
    <3>1. CASE k \in 1..p
      BY <1>6, <1>8, <3>1
    <3>2. CASE k - p \in 1..q /\ p + (k - p) = k
      <4>1. u[p + (k - p)] = t[k - p] /\ (s \o t)[p + (k - p)] = t[k - p]
        BY <1>7, <1>8, <3>2
      <4> QED
        BY <3>2, <4>1
    <3> QED
      BY <2>1, <3>1, <3>2
  <2> QED
    BY <2>2, <2>3
<1>10. u = s \o t
  <2> DEFINE w == s \o t
  <2> HIDE DEF w
  <2>1. w \in Seq(S) /\ Len(w) = p + q /\ \A k \in 1..(p + q) : u[k] = w[k]
    BY <1>8, <1>9 DEF w
  <2>2. w = [k \in 1..(p + q) |-> w[k]]
    BY <2>1
  <2>3. u = [k \in 1..(p + q) |-> u[k]]
    BY <1>4, <1>9
  <2> QED
    BY <2>1, <2>2, <2>3 DEF w
<1> QED
  BY <1>10 DEF R, s, t
-----------------------------------------------------------------------------
(* Numbers of texts, notes and reminders, and what a message may be about. *)
Given == 1..MaxEvents
Thing == {"text", "note", "reminder"} \X Given
Message ==
  [kind : {"text", "note", "reminder"}, id : Given]
    \cup [kind : {"words", "resume"}, id : {0}]
    \cup [kind : {"calls"}, id : Nat, n : Nat]
    \cup [kind : {"results"}, id : Nat, outs : Seq(Settled)]
    \cup [kind : {"summary"}, of : SUBSET Thing]
Entry == Message \cup [kind : {"boundary"}, of : SUBSET Thing, keep : Seq(Message)]

(* The conversation a resumed session would have. *)
Rebuilt == rebuildFromSession(log)

TalkTyped ==
  /\ conv \in Seq(Message) /\ log \in Seq(Entry) /\ replaced \in Seq(Message)
  /\ saved \in Seq(BOOLEAN) /\ Len(saved) = Len(conv)

(* What the kind of a message says of it. *)
LEMMA Kinds ==
  ASSUME NEW m \in Entry
  PROVE  /\ m.kind = "boundary" \/ m \in Message
         /\ m.kind = "boundary" => m.of \in SUBSET Thing /\ m.keep \in Seq(Message)
         /\ m \in Message => m.kind # "boundary"
         /\ m.kind = "summary" => m.of \in SUBSET Thing
         /\ m.kind \in {"text", "note", "reminder"} => m.id \in Given
         /\ m.kind = "calls" => m.id \in Nat /\ m.n \in Nat
         /\ m.kind = "results" => m.id \in Nat /\ m.outs \in Seq(Settled)
BY DEF Entry, Message

(* The messages the code makes. *)
LEMMA Made ==
  /\ \A n \in Given : Text(n) \in Message /\ Note(n) \in Message /\ Reminder(n) \in Message
  /\ Words \in Message /\ Resume \in Message
  /\ \A id, n \in Nat : Called(id, n) \in Message
  /\ \A id \in Nat, outs \in Seq(Settled) : Results(id, outs) \in Message
  /\ \A of \in SUBSET Thing : Summary(of) \in Message
  /\ \A of \in SUBSET Thing, keep \in Seq(Message) : Boundary(of, keep) \in Entry
  /\ Message \subseteq Entry
<1>1. \A n \in Given : Text(n) \in Message /\ Note(n) \in Message /\ Reminder(n) \in Message
  BY DEF Text, Note, Reminder, Numbered, Message
<1>2. Words \in Message /\ Resume \in Message
  BY DEF Words, Resume, Numbered, Message
<1>3. \A id, n \in Nat : Called(id, n) \in Message
  BY DEF Called, Message
<1>4. \A id \in Nat, outs \in Seq(Settled) : Results(id, outs) \in Message
  BY DEF Results, Message
<1>5. \A of \in SUBSET Thing : Summary(of) \in Message
  BY DEF Summary, Message
<1>6. \A of \in SUBSET Thing, keep \in Seq(Message) : Boundary(of, keep) \in Entry
  BY DEF Boundary, Entry
<1> QED
  BY <1>1, <1>2, <1>3, <1>4, <1>5, <1>6 DEF Entry

(* What messages are about is of the right kind. *)
LEMMA KnownThings ==
  ASSUME NEW messages \in Seq(Message)
  PROVE  Known(messages) \in SUBSET Thing
<1>1. ASSUME NEW m \in Message PROVE Items(m) \in SUBSET Thing
  <2>1. m \in Entry
    BY Made
  <2>2. CASE m.kind = "summary"
    BY <2>1, <2>2, Kinds DEF Items
  <2>3. CASE m.kind \in {"text", "note", "reminder"}
    <3>1. m.id \in Given
      BY <2>1, <2>3, Kinds
    <3> QED
      BY <2>3, <3>1 DEF Items, Thing
  <2> QED
    BY <2>2, <2>3 DEF Items
<1>2. \A i \in DOMAIN messages : messages[i] \in Message
  OBVIOUS
<1> QED
  BY <1>1, <1>2 DEF Known
-----------------------------------------------------------------------------
(* What is said goes to the end of what a resumed session would have. *)
LEMMA SaidIsRebuilt ==
  ASSUME NEW records \in Seq(Entry), NEW messages \in Seq(Message)
  PROVE  rebuildFromSession(records \o messages) = rebuildFromSession(records) \o messages
<1> DEFINE all == records \o messages
           places(s) == {i \in DOMAIN s : s[i].kind = "boundary"}
           last(s) == CHOOSE i \in places(s) : \A j \in places(s) : j <= i
<1>1. /\ all \in Seq(Entry) /\ Len(all) = Len(records) + Len(messages)
      /\ Len(records) \in Nat /\ Len(messages) \in Nat
      /\ \A i \in 1..Len(records) : all[i] = records[i]
      /\ \A i \in 1..Len(messages) : all[Len(records) + i] = messages[i]
  BY DEF Entry
<1>2. places(all) = places(records)
  <2>1. ASSUME NEW i \in DOMAIN all, all[i].kind = "boundary" PROVE i \in 1..Len(records)
    <3> SUFFICES ASSUME i \notin 1..Len(records) PROVE FALSE
      OBVIOUS
    <3>1. PICK j \in 1..Len(messages) : i = Len(records) + j
      <4>1. i - Len(records) \in 1..Len(messages) /\ i = Len(records) + (i - Len(records))
        BY <1>1
      <4> QED
        BY <4>1
    <3>2. all[i] \in Message
      BY <1>1, <3>1
    <3> QED
      BY <2>1, <3>2, Kinds, Made
  <2>2. DOMAIN records = 1..Len(records) /\ DOMAIN all = 1..(Len(records) + Len(messages))
    BY <1>1
  <2> HIDE DEF all
  <2>3. \A i \in 1..Len(records) : i \in DOMAIN all
    BY <1>1, <2>2
  <2> QED
    BY <1>1, <2>1, <2>2, <2>3
<1>3. last(all) = last(records)
  BY <1>2
<1>4. rebuildFromSession(all) =
        IF places(all) = {} THEN all
        ELSE <<Summary(all[last(all)].of)>> \o all[last(all)].keep
               \o SubSeq(all, last(all) + 1, Len(all))
  BY DEF rebuildFromSession
<1>5. rebuildFromSession(records) =
        IF places(records) = {} THEN records
        ELSE <<Summary(records[last(records)].of)>> \o records[last(records)].keep
               \o SubSeq(records, last(records) + 1, Len(records))
  BY DEF rebuildFromSession
<1>6. CASE places(records) = {}
  <2> HIDE DEF places, last
  <2>1. rebuildFromSession(all) = all /\ rebuildFromSession(records) = records
    BY <1>2, <1>4, <1>5, <1>6
  <2> QED
    BY <2>1
<1>7. CASE places(records) # {}
  <2>1. last(records) \in places(records)
    <3>1. places(records) \in SUBSET DOMAIN records
      OBVIOUS
    <3> HIDE DEF places
    <3>2. places(records) \in SUBSET Nat /\ IsFiniteSet(places(records))
      BY <3>1, Positions
    <3>3. PICK i \in places(records) : \A j \in places(records) : j <= i
      BY <1>7, <3>2, LastPlace
    <3> QED
      BY <3>3
  <2> HIDE DEF places, last
  <2>2. last(records) \in 1..Len(records) /\ records[last(records)].kind = "boundary"
    BY <2>1 DEF places
  <2> DEFINE l == last(records)
             b == records[l]
  <2>3. b \in Entry /\ b.kind = "boundary" /\ l \in 1..Len(records)
    BY <2>2
  <2>4. b.of \in SUBSET Thing /\ b.keep \in Seq(Message)
    BY <2>3, Kinds
  <2>5. all[l] = b
    BY <1>1, <2>3
  <2>6. SubSeq(all, l + 1, Len(all)) = SubSeq(records, l + 1, Len(records)) \o messages
    <3> DEFINE rest == SubSeq(records, l + 1, Len(records))
               more == SubSeq(all, l + 1, Len(all))
    <3>1. /\ rest \in Seq(Entry) /\ Len(rest) = Len(records) - l
          /\ \A i \in 1..(Len(records) - l) : rest[i] = records[l + i]
      BY <1>1, <2>3
    <3>2. /\ more \in Seq(Entry) /\ Len(more) = Len(all) - l
          /\ \A i \in 1..(Len(all) - l) : more[i] = all[l + i]
      <4> HIDE DEF all, l
      <4> QED
        BY <1>1, <2>3
    <3>3. messages \in Seq(Entry)
      BY <1>1 DEF Entry
    <3>4. /\ rest \o messages \in Seq(Entry)
          /\ Len(rest \o messages) = Len(rest) + Len(messages)
          /\ \A i \in 1..(Len(rest) + Len(messages)) :
               (rest \o messages)[i] = IF i <= Len(rest) THEN rest[i] ELSE messages[i - Len(rest)]
      BY <3>1, <3>3, ConcatProperties
    <3> HIDE DEF all, l, rest, more
    <3>5. Len(more) = Len(rest \o messages)
      BY <1>1, <2>3, <3>1, <3>2, <3>4
    <3>6. /\ l \in Nat /\ 1 <= l /\ l <= Len(records) /\ Len(rest) = Len(records) - l
          /\ Len(records) \in Nat /\ Len(messages) \in Nat
          /\ Len(more) = Len(records) + Len(messages) - l
          /\ Len(all) = Len(records) + Len(messages)
      BY <1>1, <2>3, <3>1, <3>2
    <3>7. ASSUME NEW i \in 1..Len(more) PROVE more[i] = (rest \o messages)[i]
      <4>1. CASE i <= Len(rest)
        <5>1. l + i \in 1..Len(records) /\ i \in 1..(Len(records) - l)
          BY <3>6, <4>1
        <5> QED
          BY <1>1, <3>1, <3>2, <3>4, <3>5, <4>1, <5>1
      <4>2. CASE ~(i <= Len(rest))
        <5>1. /\ i - Len(rest) \in 1..Len(messages) /\ i \in 1..(Len(all) - l)
              /\ l + i = Len(records) + (i - Len(rest))
          BY <3>6, <4>2
        <5> QED
          BY <1>1, <3>1, <3>2, <3>4, <3>5, <4>2, <5>1
      <4> QED
        BY <4>1, <4>2
    <3> QED
      BY <3>2, <3>4, <3>5, <3>7, SeqEqual DEF rest, more
  <2> DEFINE first == <<Summary(b.of)>> \o b.keep
             rest == SubSeq(records, l + 1, Len(records))
  <2>7. rebuildFromSession(records) = first \o rest
    BY <1>5, <1>7
  <2>8. rebuildFromSession(all) = first \o (rest \o messages)
    <3> HIDE DEF all
    <3> QED
      BY <1>2, <1>3, <1>4, <1>7, <2>5, <2>6
  <2>9. first \in Seq(Entry) /\ rest \in Seq(Entry) /\ messages \in Seq(Entry)
    <3>1. Summary(b.of) \in Message
      BY <2>4, Made
    <3>2. b.keep \in Seq(Entry) /\ messages \in Seq(Entry) /\ Summary(b.of) \in Entry
      BY <2>4, <3>1 DEF Entry
    <3>3. rest \in Seq(Entry)
      BY <1>1, <2>3
    <3> QED
      BY <3>2, <3>3
  <2> HIDE DEF first, rest
  <2> QED
    BY <2>7, <2>8, <2>9, ConcatAssociative
<1> QED
  BY <1>6, <1>7

(* What a resumed session would have after a compaction is what the boundary *)
(* says.                                                                     *)
LEMMA CutIsRebuilt ==
  ASSUME NEW records \in Seq(Entry), NEW of \in SUBSET Thing, NEW keep \in Seq(Message)
  PROVE  rebuildFromSession(Append(records, Boundary(of, keep))) = <<Summary(of)>> \o keep
<1> DEFINE b == Boundary(of, keep)
           all == Append(records, b)
           n == Len(records) + 1
           places == {i \in DOMAIN all : all[i].kind = "boundary"}
           last == CHOOSE i \in places : \A j \in places : j <= i
<1>1. b \in Entry /\ b.kind = "boundary" /\ b.of = of /\ b.keep = keep
  BY Made DEF Boundary
<1> HIDE DEF b
<1>2. /\ all \in Seq(Entry) /\ Len(all) = n /\ DOMAIN all = 1..n /\ all[n] = b
      /\ Len(records) \in Nat
  BY <1>1
<1>3. n \in places /\ \A j \in places : j \in Nat /\ j <= n
  BY <1>1, <1>2
<1>4. last = n
  <2> HIDE DEF places, n
  <2>1. \A i \in places : (\A j \in places : j <= i) => i = n
    BY <1>3
  <2>2. n \in places /\ \A j \in places : j <= n
    BY <1>3
  <2> QED
    BY <2>1, <2>2
<1>5. rebuildFromSession(all)
        = <<Summary(all[last].of)>> \o all[last].keep \o SubSeq(all, last + 1, Len(all))
  <2>1. places # {}
    BY <1>3
  <2>2. rebuildFromSession(all) =
          IF places = {} THEN all
          ELSE <<Summary(all[last].of)>> \o all[last].keep \o SubSeq(all, last + 1, Len(all))
    BY DEF rebuildFromSession
  <2> HIDE DEF places, last, all
  <2> QED
    BY <2>1, <2>2
<1>6. SubSeq(all, n + 1, n) = <<>>
  <2> HIDE DEF all
  <2>1. n \in Int /\ n + 1 \in Int /\ n < n + 1
    BY <1>2
  <2> QED
    BY <2>1, SubSeqEmpty
<1>7. rebuildFromSession(all) = <<Summary(of)>> \o keep \o <<>>
  <2> HIDE DEF all, last, n
  <2> QED
    BY <1>1, <1>2, <1>4, <1>5, <1>6
<1>8. Summary(of) \in Message
  BY Made
<1>9. <<Summary(of)>> \o keep \in Seq(Message)
  <2> DEFINE m == Summary(of)
  <2> HIDE DEF m
  <2>1. m \in Message
    BY <1>8 DEF m
  <2> QED
    BY <2>1 DEF m
<1> HIDE DEF all
<1> QED
  BY <1>7, <1>9, ConcatEmptySeq DEF all, b

(* A resumed session has messages. *)
LEMMA RebuiltTyped ==
  ASSUME NEW records \in Seq(Entry)
  PROVE  rebuildFromSession(records) \in Seq(Message)
<1> DEFINE places == {i \in DOMAIN records : records[i].kind = "boundary"}
           last == CHOOSE i \in places : \A j \in places : j <= i
<1>1. DOMAIN records = 1..Len(records) /\ Len(records) \in Nat
      /\ \A i \in 1..Len(records) : records[i] \in Entry
  OBVIOUS
<1>2. \A i \in 1..Len(records) : i \notin places => records[i] \in Message
  BY <1>1, Kinds
<1>3. rebuildFromSession(records) =
        IF places = {} THEN records
        ELSE <<Summary(records[last].of)>> \o records[last].keep
               \o SubSeq(records, last + 1, Len(records))
  BY DEF rebuildFromSession
<1>4. CASE places = {}
  <2>1. \A i \in 1..Len(records) : records[i] \in Message
    BY <1>2, <1>4
  <2> HIDE DEF places, last
  <2>2. rebuildFromSession(records) = records
    BY <1>3, <1>4
  <2>3. records \in Seq(Message)
    BY <1>1, <2>1
  <2> QED
    BY <2>2, <2>3
<1>5. CASE places # {}
  <2>1. last \in places /\ \A j \in places : j <= last
    <3>1. places \in SUBSET DOMAIN records
      OBVIOUS
    <3> HIDE DEF places
    <3>2. places \in SUBSET Nat /\ IsFiniteSet(places)
      BY <3>1, Positions
    <3>3. PICK i \in places : \A j \in places : j <= i
      BY <1>5, <3>2, LastPlace
    <3> QED
      BY <3>3
  <2>2. last \in 1..Len(records) /\ records[last].kind = "boundary"
    <3> HIDE DEF last
    <3> QED
      BY <1>1, <2>1
  <2> HIDE DEF places, last
  <2> DEFINE b == records[last]
             rest == SubSeq(records, last + 1, Len(records))
  <2>3. b.of \in SUBSET Thing /\ b.keep \in Seq(Message)
    BY <1>1, <2>2, Kinds
  <2>4. Summary(b.of) \in Message
    BY <2>3, Made
  <2>5. rest \in Seq(Message)
    <3>1. \A i \in (last + 1)..Len(records) : i \in 1..Len(records) /\ ~(i <= last)
      BY <1>1, <2>2
    <3>2. \A i \in (last + 1)..Len(records) : records[i] \in Message
      BY <1>2, <2>1, <3>1
    <3>3. last + 1 \in Int /\ Len(records) \in Int
      BY <1>1, <2>2
    <3> QED
      BY <3>2, <3>3, SubSeqProperties
  <2>6. rebuildFromSession(records) = <<Summary(b.of)>> \o b.keep \o rest
    BY <1>3, <1>5
  <2> DEFINE m == Summary(b.of)
             kept == b.keep
  <2> HIDE DEF m, kept, rest
  <2>7. m \in Message /\ kept \in Seq(Message) /\ rest \in Seq(Message)
    BY <2>3, <2>4, <2>5 DEF m, kept
  <2>8. <<m>> \o kept \o rest \in Seq(Message)
    BY <2>7
  <2> QED
    BY <2>6, <2>8 DEF m, kept
<1> QED
  BY <1>4, <1>5
-----------------------------------------------------------------------------
(* Which messages of a sequence are in the log. *)
Marks(a, f) == f \in Seq(BOOLEAN) /\ Len(f) = Len(a)

(* What is in the log of a conversation that is put together. *)
LEMMA MarksJoined ==
  ASSUME NEW a \in Seq(Message), NEW b \in Seq(Message), NEW f, NEW g, Marks(a, f), Marks(b, g)
  PROVE  Marks(a \o b, f \o g)
<1>1. /\ f \in Seq(BOOLEAN) /\ Len(f) = Len(a) /\ g \in Seq(BOOLEAN) /\ Len(g) = Len(b)
  BY DEF Marks
<1>2. Len(a \o b) = Len(a) + Len(b)
  BY ConcatProperties
<1>3. f \o g \in Seq(BOOLEAN) /\ Len(f \o g) = Len(f) + Len(g)
  BY <1>1, ConcatProperties
<1> QED
  BY <1>1, <1>2, <1>3 DEF Marks

LEMMA SavedJoined ==
  ASSUME NEW a \in Seq(Message), NEW b \in Seq(Message), NEW f, NEW g, Marks(a, f), Marks(b, g)
  PROVE  Saved(a \o b, f \o g) = Saved(a, f) \o Saved(b, g)
<1> DEFINE P == {i \in DOMAIN a : f[i]}
           Q == {i \in DOMAIN b : g[i]}
           c == a \o b
           h == f \o g
           R == {i \in DOMAIN c : h[i]}
           m == Len(a)
           n == Len(b)
<1>1. /\ f \in Seq(BOOLEAN) /\ Len(f) = m /\ g \in Seq(BOOLEAN) /\ Len(g) = n
      /\ m \in Nat /\ n \in Nat /\ DOMAIN a = 1..m /\ DOMAIN b = 1..n
  BY DEF Marks
<1>2. c \in Seq(Message) /\ Len(c) = m + n /\ DOMAIN c = 1..(m + n)
  BY ConcatProperties
<1>3. /\ h \in Seq(BOOLEAN) /\ Len(h) = m + n
      /\ \A i \in 1..(m + n) : h[i] = IF i <= m THEN f[i] ELSE g[i - m]
  <2> HIDE DEF m, n
  <2> QED
    BY <1>1, ConcatProperties
<1> HIDE DEF c, h, m, n
<1>4. ASSUME NEW i \in R PROVE i \in Joined(P, m, Q)
  <2>1. i \in 1..(m + n) /\ h[i]
    BY <1>2
  <2>2. CASE i <= m
    <3>1. i \in P
      BY <1>1, <1>3, <2>1, <2>2
    <3> QED
      BY <3>1 DEF Joined
  <2>3. CASE ~(i <= m)
    <3>1. i - m \in 1..n /\ i = m + (i - m)
      BY <1>1, <2>1, <2>3
    <3>2. i - m \in Q
      BY <1>1, <1>3, <2>1, <2>3, <3>1
    <3> HIDE DEF Q
    <3> QED
      BY <3>1, <3>2 DEF Joined
  <2> QED
    BY <2>2, <2>3
<1>5. ASSUME NEW i \in Joined(P, m, Q) PROVE i \in R
  <2>1. CASE i \in P
    <3>1. i \in 1..m /\ f[i] /\ i \in 1..(m + n) /\ i <= m
      BY <1>1, <2>1
    <3> QED
      BY <1>2, <1>3, <3>1
  <2>2. ASSUME NEW j \in Q, i = m + j PROVE i \in R
    <3>1. j \in 1..n /\ g[j] /\ i \in 1..(m + n) /\ ~(i <= m) /\ i - m = j
      BY <1>1, <2>2
    <3> QED
      BY <1>2, <1>3, <3>1
  <2> HIDE DEF P, Q, R
  <2> QED
    BY <2>1, <2>2 DEF Joined
<1>6. R = Joined(P, m, Q)
  <2> HIDE DEF P, Q, R
  <2> QED
    BY <1>4, <1>5
<1>7. P \in SUBSET DOMAIN a /\ Q \in SUBSET DOMAIN b
  OBVIOUS
<1>8. Selected(c, R) = Selected(a, P) \o Selected(b, Q)
  <2> HIDE DEF P, Q, R
  <2> QED
    BY <1>6, <1>7, SelectedJoined DEF c, m
<1>9. Saved(c, h) = Selected(c, R) /\ Saved(a, f) = Selected(a, P) /\ Saved(b, g) = Selected(b, Q)
  BY DEF Saved
<1> QED
  BY <1>8, <1>9 DEF c, h

LEMMA SavedTyped ==
  ASSUME NEW a \in Seq(Message), NEW f
  PROVE  Saved(a, f) \in Seq(Message)
<1> DEFINE P == {i \in DOMAIN a : f[i]}
<1>1. P \in SUBSET DOMAIN a
  OBVIOUS
<1> HIDE DEF P
<1>2. Selected(a, P) \in Seq(Message)
  BY <1>1, Chosen
<1> QED
  BY <1>2 DEF Saved, P

(* What is in the log is one stretch of the messages. *)
LEMMA SavedStretch ==
  ASSUME NEW a \in Seq(Message), NEW f, NEW lo \in Nat \ {0}, NEW hi \in 0..Len(a), lo <= hi + 1,
         \A i \in DOMAIN a : f[i] <=> (lo <= i /\ i <= hi)
  PROVE  Saved(a, f) = SubSeq(a, lo, hi)
<1> DEFINE P == {i \in DOMAIN a : f[i]}
           n == hi - lo + 1
           g == [k \in 1..n |-> lo + k - 1]
           s == SubSeq(a, lo, hi)
<1>1. /\ n \in Nat /\ lo \in Nat /\ lo >= 1 /\ hi \in Nat /\ hi <= Len(a)
      /\ Len(a) \in Nat /\ DOMAIN a = 1..Len(a)
  OBVIOUS
<1>2. \A i : i \in P <=> i \in lo..hi
  <2>1. \A i \in lo..hi : i \in 1..Len(a) /\ lo <= i /\ i <= hi
    BY <1>1
  <2>2. \A i \in 1..Len(a) : (lo <= i /\ i <= hi) => i \in lo..hi
    BY <1>1
  <2> QED
    BY <1>1, <2>1, <2>2
<1> HIDE DEF P
<1>3. P \in SUBSET Nat /\ IsFiniteSet(P)
  <2>1. P \in SUBSET DOMAIN a
    BY DEF P
  <2> QED
    BY <2>1, Positions
<1>4. g \in [1..n -> P]
  <2>1. \A k \in 1..n : lo + k - 1 \in lo..hi
    BY <1>1
  <2> QED
    BY <1>2, <2>1
<1>5. \A k, l \in 1..n : k < l => g[k] < g[l]
  BY <1>1
<1>6. \A i \in P : \E k \in 1..n : g[k] = i
  <2> SUFFICES ASSUME NEW i \in P PROVE \E k \in 1..n : g[k] = i
    OBVIOUS
  <2>1. i \in lo..hi
    BY <1>2
  <2>2. i - lo + 1 \in 1..n /\ lo + (i - lo + 1) - 1 = i
    BY <1>1, <2>1
  <2>3. g[i - lo + 1] = lo + (i - lo + 1) - 1
    BY <2>2
  <2> QED
    BY <2>2, <2>3
<1>7. \A k \in 1..n : g[k] = lo + k - 1
  OBVIOUS
<1> HIDE DEF n, g
<1>8. Cardinality(P) = n /\ \A k \in 1..n : Nth(P, k) = lo + k - 1
  <2>1. Cardinality(P) = n /\ \A k \in 1..n : Nth(P, k) = g[k]
    <3>1. n \in Nat
      BY <1>1
    <3> QED
      BY <1>3, <1>4, <1>5, <1>6, <3>1, Increasing
  <2> QED
    BY <1>7, <2>1
<1>9. Saved(a, f) = [k \in 1..n |-> a[lo + k - 1]]
  <2>1. Saved(a, f) = [k \in 1..Cardinality(P) |-> a[Nth(P, k)]]
    BY DEF Saved, Selected, P
  <2> QED
    BY <1>8, <2>1
<1>10. s = [k \in 1..n |-> a[lo + k - 1]]
  <2>1. s = [k \in 1..(hi - lo + 1) |-> a[lo + k - 1]]
    BY <1>1
  <2> QED
    BY <2>1, Zenon DEF n
<1> QED
  BY <1>9, <1>10

(* Everything, and nothing. *)
LEMMA SavedWhole ==
  ASSUME NEW a \in Seq(Message)
  PROVE  Saved(a, [i \in DOMAIN a |-> TRUE]) = a /\ Marks(a, [i \in DOMAIN a |-> TRUE])
<1> DEFINE f == [i \in DOMAIN a |-> TRUE]
<1>1. /\ Len(a) \in Nat /\ DOMAIN a = 1..Len(a) /\ 1 \in Nat \ {0}
      /\ Len(a) \in 0..Len(a) /\ 1 <= Len(a) + 1
  OBVIOUS
<1>2. \A i \in DOMAIN a : f[i] <=> (1 <= i /\ i <= Len(a))
  BY <1>1
<1>3. f \in Seq(BOOLEAN) /\ Len(f) = Len(a)
  <2> DEFINE n == Len(a)
  <2> HIDE DEF n
  <2>1. n \in Nat /\ f = [i \in 1..n |-> TRUE]
    BY <1>1 DEF n
  <2> HIDE DEF f
  <2>2. f \in Seq(BOOLEAN) /\ Len(f) = n
    BY <2>1
  <2> QED
    BY <2>2 DEF n
<1> HIDE DEF f
<1>4. Saved(a, f) = SubSeq(a, 1, Len(a))
  BY <1>1, <1>2, SavedStretch
<1>5. SubSeq(a, 1, Len(a)) = a
  OBVIOUS
<1> QED
  BY <1>3, <1>4, <1>5 DEF Marks, f

LEMMA SavedNothing ==
  ASSUME NEW m \in Message
  PROVE  Saved(<<m>>, <<FALSE>>) = <<>> /\ Marks(<<m>>, <<FALSE>>)
<1> DEFINE a == <<m>>
           f == <<FALSE>>
<1>1. a \in Seq(Message) /\ Len(a) = 1 /\ DOMAIN a = {1}
  OBVIOUS
<1>1a. f \in Seq(BOOLEAN) /\ Len(f) = 1 /\ f[1] = FALSE
  OBVIOUS
<1>2. \A i \in DOMAIN a : f[i] <=> (1 <= i /\ i <= 0)
  <2> HIDE DEF a, f
  <2>1. f[1] <=> (1 <= 1 /\ 1 <= 0)
    BY <1>1a
  <2> QED
    BY <1>1, <2>1
<1>2a. 1 \in Nat \ {0} /\ 0 \in 0..Len(a) /\ 1 <= 0 + 1
  BY <1>1
<1> HIDE DEF a, f
<1>3. Saved(a, f) = SubSeq(a, 1, 0)
  BY <1>1, <1>2, <1>2a, SavedStretch
<1>4. SubSeq(a, 1, 0) = <<>>
  BY <1>1
<1> QED
  BY <1>1, <1>1a, <1>3, <1>4 DEF Marks, a, f
-----------------------------------------------------------------------------
(* What the variables hold. *)
CallState == Settled \cup {"waiting", "asking", "submitted", "running"}

ControlTyped ==
  /\ pc \in Places /\ aborted \in BOOLEAN
  /\ tries \in [turns : 0..MaxIterations, escalated : BOOLEAN, recoveries : 0..MaxRecoveries,
                retries : 0..MaxRetries]
  /\ response \in Responses
CallsTyped ==
  /\ at \in 1..MaxCalls + 1 /\ calls \in Seq(CallState) /\ Len(calls) <= MaxCalls
  /\ turn \in Nat /\ ran \subseteq (1..turn) \X (1..MaxCalls) /\ broken \subseteq 1..turn
  /\ pc = "tools" => turn # 0
  /\ pc # "tools" => calls = <<>>
FlagsTyped == torn \in BOOLEAN /\ failed \in BOOLEAN /\ (torn => failed)
CompactTyped == pc = "summing" => compact.from \in 1..Len(compact.seen)
CountsTyped ==
  /\ DOMAIN counts = {"texts", "notes", "reminders", "others", "events"}
  /\ \A kind \in DOMAIN counts : counts[kind] \in Nat /\ counts[kind] <= counts.events
  /\ counts.events <= MaxEvents
QueuesTyped ==
  /\ hooked \in Seq(Given) /\ inbox \in Seq(Given) /\ held \in Seq(Given)
  /\ steering \in Seq(Given) /\ followUps \in Seq(Given)
  /\ sending \in Given \cup {0} /\ recalled \in SUBSET Given /\ dropped \in SUBSET Given
  /\ pc = "prepare" <=> sending # 0
  /\ pc = "reading" <=> held # <<>>

Typed ==
  /\ TalkTyped /\ FlagsTyped /\ ControlTyped /\ CallsTyped /\ CompactTyped /\ CountsTyped
  /\ QueuesTyped /\ lost \in SUBSET Thing

LEMMA Bounds ==
  /\ MaxCalls \in Nat /\ MaxTurns \in Nat /\ MaxIterations \in Nat /\ MaxRecoveries \in Nat
  /\ MaxRetries \in Nat /\ MinPrefix \in Nat /\ MaxEvents \in Nat
BY BoundsAssumption

(* A response without anything. *)
LEMMA NothingReceived == NoResponse \in Responses
<1>1. Cardinality({}) = 0
  BY FS_EmptySet
<1> QED
  BY <1>1, Bounds DEF NoResponse, Responses

(* The counters of a run that starts. *)
LEMMA FreshTyped ==
  Fresh \in [turns : 0..MaxIterations, escalated : BOOLEAN, recoveries : 0..MaxRecoveries,
             retries : 0..MaxRetries]
BY Bounds DEF Fresh

(* An event takes the next number of its kind, and other counts stay. *)
LEMMA EventCounts ==
  ASSUME CountsTyped, NEW what \in {"texts", "notes", "reminders", "others"}, Event(what)
  PROVE  /\ CountsTyped'
         /\ counts'[what] = counts[what] + 1 /\ counts'[what] \in Given
         /\ \A kind \in {"texts", "notes", "reminders"} : kind # what => counts'[kind] = counts[kind]
<1> DEFINE C == {"texts", "notes", "reminders", "others", "events"}
<1>1. /\ DOMAIN counts = C /\ DOMAIN counts' = C
      /\ \A kind \in C :
           counts'[kind] = IF kind \in {what, "events"} THEN counts[kind] + 1 ELSE counts[kind]
  BY DEF Event, CountsTyped
<1>2. /\ counts.events \in Nat /\ counts[what] \in Nat /\ counts[what] <= counts.events
      /\ \A kind \in C : counts[kind] \in Nat /\ counts[kind] <= counts.events
      /\ counts.events < MaxEvents
  BY <1>1 DEF CountsTyped, Event
<1>3. counts'.events = counts.events + 1 /\ counts'[what] = counts[what] + 1
  BY <1>1
<1>4. \A kind \in C : counts'[kind] \in Nat /\ counts'[kind] <= counts'.events
  BY <1>1, <1>2, <1>3
<1>5. counts'.events <= MaxEvents
  BY <1>2, <1>3, Bounds
<1>6. CountsTyped'
  BY <1>1, <1>4, <1>5 DEF CountsTyped
<1>7. counts'[what] \in Given
  BY <1>2, <1>3, Bounds DEF Given
<1>8. \A kind \in {"texts", "notes", "reminders"} : kind # what => counts'[kind] = counts[kind]
  BY <1>1
<1> QED
  BY <1>3, <1>6, <1>7, <1>8

LEMMA CountsStep ==
  ASSUME CountsTyped, [Next]_vars
  PROVE  CountsTyped'
<1>1. \/ UNCHANGED counts
      \/ \E what \in {"texts", "notes", "reminders", "others"} : Event(what)
  <2>1. CASE Others
    BY <2>1 DEF Others, Submit, Recall, Abort, Remind, Post, HookNote, Crash
  <2>2. CASE Waits
    BY <2>2 DEF Waits, PreSend, BeginCompact, Summarized, SummaryFails, Interrupted, Receive,
                TooLong, Retry, Fail, Woken, Refuse, Launch, ToolEnds
  <2>3. CASE Steps
    BY <2>3 DEF Steps, SendFollowUp, Prepared, Wake, Top, DrainInbox, RecordNote, Continue,
                Answer, CallTools, Settle, Ask, RunBatch, Finish, Deliver, Advance, Close
  <2>4. CASE Faults
    BY <2>4, FaultsFrame
  <2> QED
    BY <2>1, <2>2, <2>3, <2>4 DEF Next, vars
<1>2. CASE UNCHANGED counts
  BY <1>2 DEF CountsTyped
<1> QED
  BY <1>1, <1>2, EventCounts

LEMMA ControlStep ==
  ASSUME ControlTyped, [Next]_vars
  PROVE  ControlTyped'
<1> USE Bounds, NothingReceived, FreshTyped DEF ControlTyped, Places, Running, Goto
<1>1. CASE Others
  BY <1>1 DEF Others, Submit, Recall, Abort, Remind, Post, HookNote, Crash, turnVars
<1>2. CASE Waits
  <2>1. CASE Receive
    BY <2>1 DEF Receive
  <2>2. CASE PreSend \/ Summarized \/ SummaryFails \/ TooLong
    BY <2>2 DEF PreSend, BeginCompact, Request, Summarized, SummaryFails, TooLong, turnVars
  <2>3. CASE Interrupted \/ Fail \/ Retry \/ Woken
    BY <2>3 DEF Interrupted, Fail, Retry, Woken, turnVars
  <2>4. CASE Refuse \/ Launch \/ ToolEnds
    BY <2>4 DEF Refuse, Launch, ToolEnds
  <2> QED
    BY <1>2, <2>1, <2>2, <2>3, <2>4 DEF Waits
<1>3. CASE Steps
  <2>1. CASE SendFollowUp \/ Prepared \/ Wake \/ Top \/ DrainInbox \/ RecordNote
    BY <2>1 DEF SendFollowUp, Prepared, Wake, Top, AtLimit, DrainInbox, RecordNote, turnVars
  <2>2. CASE Continue
    <3>1. tries' \in [turns : 0..MaxIterations, escalated : BOOLEAN,
                      recoveries : 0..MaxRecoveries, retries : 0..MaxRetries]
      <4>1. CASE tries' = [tries EXCEPT !.escalated = TRUE]
        BY <4>1
      <4>2. CASE /\ tries.recoveries < MaxRecoveries
                 /\ tries' = [tries EXCEPT !.escalated = TRUE, !.recoveries = @ + 1]
        <5>1. /\ tries' = [turns |-> tries.turns, escalated |-> TRUE,
                            recoveries |-> tries.recoveries + 1, retries |-> tries.retries]
              /\ tries.turns \in 0..MaxIterations /\ tries.retries \in 0..MaxRetries
              /\ tries.recoveries \in 0..MaxRecoveries
          BY <4>2
        <5>2. tries.recoveries + 1 \in 0..MaxRecoveries
          BY <4>2, <5>1
        <5> QED
          BY <5>1, <5>2
      <4> QED
        BY <2>2, <4>1, <4>2 DEF Continue
    <3> QED
      BY <2>2, <3>1 DEF Continue
  <2>3. CASE Answer \/ CallTools
    BY <2>3 DEF Answer, CallTools
  <2>4. CASE Settle \/ Ask \/ RunBatch \/ Finish \/ Deliver \/ Advance \/ Close
    BY <2>4 DEF Settle, Ask, RunBatch, Finish, Deliver, Advance, Close, turnVars
  <2> QED
    BY <1>3, <2>1, <2>2, <2>4, <2>3 DEF Steps
<1>4. CASE UNCHANGED vars
  BY <1>4 DEF vars, turnVars
<1>5. CASE Faults
  <2>1. response' \in {response, NoResponse}
    <3>1. CASE PreparedFails \/ HeadFails \/ DrainFails \/ RecordFails \/ BoundaryFails
      BY <3>1 DEF PreparedFails, HeadFails, DrainFails, RecordFails, BoundaryFails, turnVars
    <3>2. CASE WordsFail \/ CallsFail \/ ResultsFail \/ DeliverFails
      BY <3>2 DEF WordsFail, CallsFail, ResultsFail, DeliverFails, turnVars
    <3> QED
      BY <1>5, <3>1, <3>2 DEF Faults
  <2>2. UNCHANGED <<aborted, tries>> /\ pc' \in {"closing", "idle"}
    BY <1>5, FaultsFrame
  <2> QED
    BY <2>1, <2>2
<1> QED
  BY <1>1, <1>2, <1>3, <1>4, <1>5 DEF Next

(* A call takes its next step. *)
LEMMA CallStep ==
  ASSUME CallsTyped, NEW p \in DOMAIN calls, NEW state \in CallState,
         calls' = [calls EXCEPT ![p] = state]
  PROVE  /\ calls' \in Seq(CallState) /\ Len(calls') = Len(calls)
         /\ DOMAIN calls' = DOMAIN calls /\ DOMAIN calls = 1..Len(calls)
         /\ calls'[p] = state /\ \A q \in DOMAIN calls : q # p => calls'[q] = calls[q]
<1>1. calls \in Seq(CallState) /\ p \in 1..Len(calls) /\ DOMAIN calls = 1..Len(calls)
  BY DEF CallsTyped
<1> DEFINE c == [calls EXCEPT ![p] = state]
<1>2. /\ c \in Seq(CallState) /\ Len(c) = Len(calls)
      /\ \A q \in 1..Len(calls) : c[q] = IF q = p THEN state ELSE calls[q]
  BY <1>1, ExceptSeq
<1>3. DOMAIN c = DOMAIN calls
  OBVIOUS
<1> HIDE DEF c
<1>4. calls' = c
  BY DEF c
<1> QED
  BY <1>1, <1>2, <1>3, <1>4

LEMMA CallsStep ==
  ASSUME Typed, [Next]_vars
  PROVE  CallsTyped'
<1> USE DEF Goto
<1>1. CallsTyped /\ ControlTyped
  BY DEF Typed
<1>2. CASE UNCHANGED <<at, calls, turn, ran, broken>> /\ (pc' = "tools" <=> pc = "tools")
  BY <1>1, <1>2 DEF CallsTyped
<1>3. CASE Crash
  <2>1. <<>> \in Seq(CallState) /\ Len(<<>>) = 0
    OBVIOUS
  <2>2. broken' \subseteq 1..turn
    BY <1>1, <1>3 DEF Crash, CallsTyped
  <2> QED
    BY <1>1, <1>3, <2>1, <2>2, Bounds DEF Crash, CallsTyped
<1>4. CASE CallTools
  <2>1. turn' = turn + 1 /\ turn \in Nat /\ turn' \in Nat /\ turn' # 0
    BY <1>1, <1>4 DEF CallTools, CallsTyped
  <2>2. response.calls \in 0..MaxCalls
    BY <1>1 DEF ControlTyped, Responses
  <2>3. calls' \in Seq(CallState) /\ Len(calls') = response.calls
    <3> DEFINE n == response.calls
    <3>1. n \in Nat /\ n <= MaxCalls /\ calls' = [p \in 1..n |-> "waiting"]
      BY <1>4, <2>2, Bounds DEF CallTools
    <3> HIDE DEF n
    <3>2. calls' \in Seq(CallState) /\ Len(calls') = n
      BY <3>1 DEF CallState
    <3> QED
      BY <3>2 DEF n
  <2>4. \A i \in 1..turn : i \in 1..turn'
    BY <2>1
  <2>5. ran' \subseteq (1..turn') \X (1..MaxCalls) /\ broken' \subseteq 1..turn'
    <3>1. ran' = ran /\ broken' \subseteq broken \cup {turn'} /\ turn' \in 1..turn'
      BY <1>4, <2>1 DEF CallTools
    <3> QED
      BY <1>1, <2>4, <3>1 DEF CallsTyped
  <2>6. at' \in 1..MaxCalls + 1 /\ pc' = "tools"
    BY <1>4, Bounds DEF CallTools
  <2> QED
    BY <2>1, <2>2, <2>3, <2>5, <2>6, Bounds DEF CallsTyped
<1>5. CASE Finish \/ ResultsFail
  <2>1. <<>> \in Seq(CallState) /\ Len(<<>>) = 0
    OBVIOUS
  <2>2. broken' \subseteq broken \cup {turn} /\ turn \in 1..turn
    BY <1>1, <1>5 DEF Finish, ResultsFail, CallsTyped
  <2>3. /\ calls' = <<>> /\ at' = 1 /\ turn' = turn /\ ran' = ran
        /\ pc' # "tools" /\ turn \in Nat
    BY <1>1, <1>5 DEF Finish, ResultsFail, CallsTyped
  <2>4. broken' \subseteq 1..turn
    BY <1>1, <2>2 DEF CallsTyped
  <2>5. 1 \in 1..MaxCalls + 1 /\ 0 <= MaxCalls
    BY Bounds
  <2> QED
    BY <1>1, <2>1, <2>3, <2>4, <2>5 DEF CallsTyped
<1>6. CASE Settle \/ Ask \/ Refuse \/ Launch \/ ToolEnds
  <2>1. /\ pc = "tools" /\ pc' = "tools" /\ turn' = turn /\ broken' = broken
        /\ at' \in {at, at + 1} /\ (at' = at + 1 => at \in DOMAIN calls)
        /\ ran' = ran \/ ran' = ran \cup NewlyRun(calls, calls')
    <3>1. CASE Settle \/ Ask
      BY <3>1 DEF Settle, Ask, MayPrepare, history
    <3>2. CASE Refuse \/ Launch
      BY <3>2 DEF Refuse, Launch, Asking, history
    <3>3. CASE ToolEnds
      BY <1>1, <3>3 DEF ToolEnds, CallsTyped, history
    <3> QED
      BY <1>6, <3>1, <3>2, <3>3
  <2>2. \E p \in DOMAIN calls, state \in CallState : calls' = [calls EXCEPT ![p] = state]
    <3>1. CASE Settle
      BY <3>1 DEF Settle, MayPrepare, CallState, Settled
    <3>2. CASE Ask
      BY <3>2 DEF Ask, MayPrepare, CallState
    <3>3. CASE Refuse
      BY <3>3 DEF Refuse, Asking, CallState, Settled
    <3>4. CASE Launch
      BY <3>4 DEF Launch, Asking, CallState, Settled, Started
    <3>5. CASE ToolEnds
      BY <3>5 DEF ToolEnds, CallState, Settled
    <3> QED
      BY <1>6, <3>1, <3>2, <3>3, <3>4, <3>5
  <2>3. /\ calls' \in Seq(CallState) /\ Len(calls') = Len(calls)
        /\ DOMAIN calls = 1..Len(calls)
    BY <1>1, <2>2, CallStep
  <2>4. ran' \subseteq (1..turn) \X (1..MaxCalls)
    BY <1>1, <2>1, <2>3, Bounds DEF NewlyRun, CallsTyped
  <2>5. at' \in 1..MaxCalls + 1
    BY <1>1, <2>1, <2>3, Bounds DEF CallsTyped
  <2> QED
    BY <1>1, <2>1, <2>3, <2>4, <2>5 DEF CallsTyped
<1>7. CASE RunBatch
  <2>1. DOMAIN calls = 1..Len(calls) /\ Len(calls) \in Nat /\ calls \in Seq(CallState)
    BY <1>1 DEF CallsTyped
  <2>2. calls' = [p \in 1..Len(calls) |->
                   IF calls[p] = "submitted" THEN Started(p) ELSE calls[p]]
    BY <1>7, <2>1 DEF RunBatch
  <2>3. \A p \in 1..Len(calls) : Started(p) \in CallState /\ calls[p] \in CallState
    BY <2>1 DEF Started, CallState, Settled
  <2>4. calls' \in Seq(CallState) /\ Len(calls') = Len(calls)
    BY <2>1, <2>2, <2>3
  <2>5. ran' \subseteq (1..turn) \X (1..MaxCalls)
    BY <1>1, <1>7, <2>1, Bounds DEF RunBatch, NewlyRun, CallsTyped
  <2> QED
    BY <1>1, <1>7, <2>4, <2>5 DEF RunBatch, CallsTyped
<1>8. CASE CallsFail
  <2>1. turn' = turn + 1 /\ turn \in Nat /\ turn' \in Nat /\ calls = <<>>
    BY <1>1, <1>8 DEF CallsFail, CallsTyped
  <2>2. (\A i \in 1..turn : i \in 1..turn') /\ turn' \in 1..turn'
    BY <2>1
  <2>3. ran' = ran /\ broken' = broken \cup {turn'} /\ at' = at /\ calls' = calls /\ pc' # "tools"
    BY <1>8 DEF CallsFail
  <2> QED
    BY <1>1, <2>1, <2>2, <2>3 DEF CallsTyped
<1>9. \/ CallsFail \/ ResultsFail
      \/ Crash \/ CallTools \/ Finish \/ Settle \/ Ask \/ Refuse \/ Launch \/ ToolEnds \/ RunBatch
      \/ UNCHANGED <<at, calls, turn, ran, broken>> /\ (pc' = "tools" <=> pc = "tools")
  <2>1. CASE Others
    BY <2>1 DEF Others, Submit, Recall, Abort, Remind, Post, HookNote, turnVars, history
  <2>2. CASE Waits
    BY <2>2 DEF Waits, PreSend, BeginCompact, Request, Summarized, SummaryFails, Interrupted,
                Receive, TooLong, Retry, Fail, Woken, turnVars, history
  <2>3. CASE Steps
    BY <2>3 DEF Steps, SendFollowUp, Prepared, Wake, Top, DrainInbox, RecordNote, Continue,
                Answer, Deliver, Advance, Close, turnVars, history
  <2>4. CASE Faults
    BY <2>4 DEF Faults, PreparedFails, HeadFails, DrainFails, RecordFails, BoundaryFails,
                WordsFail, DeliverFails, turnVars
  <2> QED
    BY <2>1, <2>2, <2>3, <2>4 DEF Next, vars, turnVars, history
<1> QED
  BY <1>2, <1>3, <1>4, <1>5, <1>6, <1>7, <1>9, <1>8

(* The tail that is kept starts in what was seen. *)
LEMMA TailStarts ==
  ASSUME NEW messages \in Seq(Message), NEW start \in DOMAIN messages
  PROVE  backUpPastToolUse(messages, start) \in 1..Len(messages)
<1> DEFINE owners == {i \in 1..start - 1 : /\ messages[i].kind = "calls"
                                           /\ messages[i].id = messages[start].id}
<1>1. start \in 1..Len(messages) /\ Len(messages) \in Nat
  OBVIOUS
<1>2. owners # {} => (CHOOSE i \in owners : TRUE) \in owners
  OBVIOUS
<1>3. \A i \in owners : i \in 1..Len(messages)
  BY <1>1
<1>4. backUpPastToolUse(messages, start) =
        IF messages[start].kind = "results" /\ owners # {}
        THEN CHOOSE i \in owners : TRUE ELSE start
  BY DEF backUpPastToolUse
<1> HIDE DEF owners
<1> QED
  BY <1>1, <1>2, <1>3, <1>4

LEMMA CompactStep ==
  ASSUME TalkTyped', CompactTyped, [Next]_vars
  PROVE  CompactTyped'
<1> USE DEF Goto
<1>1. CASE pc' = "summing" /\ ~(pc = "summing" /\ compact' = compact)
  <2>1. \E forced \in BOOLEAN : BeginCompact(conv', forced)
    <3>1. CASE Others
      BY <1>1, <3>1 DEF Others, Submit, Recall, Abort, Remind, Post, HookNote, Crash
    <3>2. CASE Waits
      <4>1. CASE PreSend
        BY <1>1, <4>1 DEF PreSend, Request
      <4>2. CASE TooLong
        BY <1>1, <4>2 DEF TooLong, BeginCompact, talk
      <4> QED
        BY <1>1, <3>2, <4>1, <4>2 DEF Waits, Request, Summarized, SummaryFails, Interrupted,
           Receive, Retry, Fail, Woken, Refuse, Launch, ToolEnds
    <3>3. CASE Steps
      BY <1>1, <3>3 DEF Steps, SendFollowUp, Prepared, Wake, Top, DrainInbox, RecordNote,
                  Continue, Answer, CallTools, Settle, Ask, RunBatch, Finish, Deliver, Advance,
                  Close
    <3>4. CASE UNCHANGED vars
      BY <1>1, <3>4 DEF vars
    <3>5. CASE Faults
      BY <1>1, <3>5, FaultsFrame
    <3> QED
      BY <3>1, <3>2, <3>3, <3>4, <3>5 DEF Next
  <2>2. conv' \in Seq(Message)
    BY DEF TalkTyped
  <2>3. PICK start \in DOMAIN conv' :
          compact'.from = backUpPastToolUse(conv', start) /\ compact'.seen = conv'
    BY <2>1 DEF BeginCompact
  <2> QED
    BY <2>2, <2>3, TailStarts DEF CompactTyped
<1>2. CASE ~(pc' = "summing" /\ ~(pc = "summing" /\ compact' = compact))
  BY <1>2 DEF CompactTyped
<1> QED
  BY <1>1, <1>2

(* A sequence and its last element. *)
LEMMA FrontAndLast ==
  ASSUME NEW S, NEW s \in Seq(S), s # <<>>
  PROVE  Front(s) \in Seq(S) /\ Last(s) \in S /\ s = Front(s) \o <<Last(s)>>
<1>1. PICK t \in Seq(S), e \in S : s = Append(t, e)
  BY SequenceEmptyOrAppend
<1>2. Len(s) = Len(t) + 1 /\ s[Len(s)] = e /\ Len(t) \in Nat
  BY <1>1
<1>3. Last(s) = e
  BY <1>2 DEF Last
<1>4. Front(s) = t
  <2>1. Front(s) = SubSeq(s, 1, Len(t))
    BY <1>2 DEF Front
  <2>2. /\ SubSeq(s, 1, Len(t)) \in Seq(S) /\ Len(SubSeq(s, 1, Len(t))) = Len(t)
        /\ \A i \in 1..Len(t) : SubSeq(s, 1, Len(t))[i] = s[i]
    BY <1>2
  <2>3. \A i \in 1..Len(t) : s[i] = t[i]
    BY <1>1
  <2> QED
    BY <2>1, <2>2, <2>3, SeqEqual
<1>5. s = t \o <<e>>
  BY <1>1, AppendIsConcat
<1> QED
  BY <1>3, <1>4, <1>5

(* A sequence and its first element. *)
LEMMA HeadAndTail ==
  ASSUME NEW S, NEW s \in Seq(S), s # <<>>
  PROVE  Head(s) \in S /\ Tail(s) \in Seq(S) /\ s = <<Head(s)>> \o Tail(s)
<1> DEFINE h == Head(s)
           t == Tail(s)
<1>1. /\ h \in S /\ t \in Seq(S) /\ Len(t) = Len(s) - 1 /\ Len(s) \in Nat /\ Len(s) >= 1
      /\ h = s[1] /\ \A i \in 1..Len(t) : t[i] = s[i + 1]
  BY HeadTailProperties, EmptySeq
<1> HIDE DEF h, t
<1>2. /\ <<h>> \o t \in Seq(S) /\ Len(<<h>> \o t) = Len(t) + 1
      /\ \A i \in 1..(Len(t) + 1) : (<<h>> \o t)[i] = IF i <= 1 THEN <<h>>[i] ELSE t[i - 1]
  <2>1. <<h>> \in Seq(S) /\ Len(<<h>>) = 1
    BY <1>1
  <2> QED
    BY <1>1, <2>1, ConcatProperties
<1>3. ASSUME NEW i \in 1..Len(s) PROVE s[i] = (<<h>> \o t)[i]
  <2>1. CASE i = 1
    BY <1>1, <1>2, <2>1
  <2>2. CASE i # 1
    <3>1. i - 1 \in 1..Len(t) /\ (i - 1) + 1 = i /\ i \in 1..(Len(t) + 1) /\ ~(i <= 1)
      BY <1>1, <2>2
    <3> QED
      BY <1>1, <1>2, <3>1
  <2> QED
    BY <2>1, <2>2
<1>4. Len(s) = Len(<<h>> \o t)
  BY <1>1, <1>2
<1>5. s = <<h>> \o t
  BY <1>2, <1>3, <1>4, SeqEqual
<1> QED
  BY <1>1, <1>5 DEF h, t

LEMMA QueuesStep ==
  ASSUME Typed, [Next]_vars
  PROVE  QueuesTyped'
<1> USE DEF Goto
<1> DEFINE Q == <<hooked, inbox, held, steering, followUps, sending, recalled, dropped>>
<1>1. QueuesTyped /\ CountsTyped /\ <<>> \in Seq(Given)
  BY DEF Typed
<1>2. CASE UNCHANGED Q /\ (pc' = "prepare" <=> pc = "prepare") /\ (pc' = "reading" <=> pc = "reading")
  BY <1>1, <1>2 DEF QueuesTyped
<1>3. CASE Submit
  <2>1. counts'.texts \in Given
    BY <1>1, <1>3, EventCounts DEF Submit
  <2> DEFINE n == counts'.texts
  <2> HIDE DEF n
  <2>2. Append(steering, n) \in Seq(Given) /\ Append(followUps, n) \in Seq(Given)
    BY <1>1, <2>1 DEF QueuesTyped, n
  <2>3. steering' \in Seq(Given) /\ followUps' \in Seq(Given)
    BY <1>1, <1>3, <2>2 DEF Submit, QueuesTyped, n
  <2> QED
    BY <1>1, <1>3, <2>3 DEF Submit, QueuesTyped, history
<1>4. CASE Post \/ HookNote
  <2>1. counts'.notes \in Given
    BY <1>1, <1>4, EventCounts DEF Post, HookNote
  <2> DEFINE n == counts'.notes
  <2> HIDE DEF n
  <2>2. Append(inbox, n) \in Seq(Given) /\ Append(hooked, n) \in Seq(Given)
    BY <1>1, <2>1 DEF QueuesTyped, n
  <2>3. inbox' \in Seq(Given) /\ hooked' \in Seq(Given)
    BY <1>1, <1>4, <2>2 DEF Post, HookNote, QueuesTyped, n
  <2> QED
    BY <1>1, <1>4, <2>3 DEF Post, HookNote, QueuesTyped, history
<1>5. CASE Recall
  <2>1. followUps # <<>> => Front(followUps) \in Seq(Given) /\ Last(followUps) \in Given
    BY <1>1, FrontAndLast DEF QueuesTyped
  <2>2. steering # <<>> => Front(steering) \in Seq(Given) /\ Last(steering) \in Given
    BY <1>1, FrontAndLast DEF QueuesTyped
  <2> QED
    BY <1>1, <1>5, <2>1, <2>2 DEF Recall, QueuesTyped
<1>6. CASE SendFollowUp
  <2>1. Head(followUps) \in Given /\ Tail(followUps) \in Seq(Given)
    BY <1>1, <1>6, HeadAndTail DEF SendFollowUp, QueuesTyped
  <2>2. Head(followUps) # 0
    BY <2>1, Bounds DEF Given
  <2> QED
    BY <1>1, <1>6, <2>1, <2>2 DEF SendFollowUp, QueuesTyped, history
<1>7. CASE Prepared \/ Top \/ DrainInbox \/ Close
  <2>1. CASE Prepared
    BY <1>1, <1>7, <2>1 DEF Prepared, QueuesTyped, history
  <2>2. CASE Top
    BY <1>1, <1>7, <2>2 DEF Top, QueuesTyped, history
  <2>3. CASE DrainInbox
    BY <1>1, <1>7, <2>3 DEF DrainInbox, QueuesTyped, history
  <2>4. CASE Close
    BY <1>1, <1>7, <2>4 DEF Close, QueuesTyped, history
  <2> QED
    BY <1>7, <2>1, <2>2, <2>3, <2>4
<1>8. CASE RecordNote
  <2>1. held # <<>> /\ Tail(held) \in Seq(Given)
    BY <1>1, <1>8, HeadAndTail DEF RecordNote, QueuesTyped
  <2> QED
    BY <1>1, <1>8, <2>1 DEF RecordNote, QueuesTyped, history
<1>9. CASE PreSend
  BY <1>1, <1>9 DEF PreSend, BeginCompact, Request, QueuesTyped, history
<1>10. CASE Deliver
  <2>1. Tail(steering) \in Seq(Given)
    BY <1>1, <1>10, HeadAndTail DEF Deliver, QueuesTyped
  <2> QED
    BY <1>1, <1>10, <2>1 DEF Deliver, QueuesTyped, history
<1>11. CASE Crash
  BY <1>1, <1>11 DEF Crash, QueuesTyped
<1>12. CASE Faults
  <2>1. /\ pc' # "prepare" /\ pc' # "reading" /\ followUps' = followUps /\ recalled' = recalled
        /\ sending' = 0 /\ held' = <<>>
    <3>1. CASE PreparedFails \/ HeadFails \/ DrainFails
      BY <1>1, <1>12, <3>1, FaultsFrame DEF PreparedFails, HeadFails, DrainFails, QueuesTyped
    <3>2. CASE RecordFails \/ DeliverFails
      BY <1>1, <1>12, <3>2, FaultsFrame DEF RecordFails, DeliverFails, QueuesTyped
    <3>3. CASE BoundaryFails \/ WordsFail \/ CallsFail \/ ResultsFail
      <4>1. sending' = sending /\ held' = held /\ pc \notin {"prepare", "reading"}
        BY <3>3 DEF BoundaryFails, WordsFail, CallsFail, ResultsFail, queues
      <4> QED
        BY <1>1, <1>12, <4>1, FaultsFrame DEF QueuesTyped
    <3> QED
      BY <1>12, <3>1, <3>2, <3>3 DEF Faults
  <2>2. /\ hooked' \in Seq(Given) /\ inbox' \in Seq(Given) /\ steering' \in Seq(Given)
        /\ dropped' \in SUBSET Given
    <3>1. CASE PreparedFails \/ BoundaryFails \/ WordsFail \/ CallsFail \/ ResultsFail
      BY <1>1, <3>1 DEF PreparedFails, BoundaryFails, WordsFail, CallsFail, ResultsFail, queues,
                        QueuesTyped
    <3>2. CASE HeadFails
      <4>1. Range(hooked) \in SUBSET Given
        BY <1>1, RangeOfSeq DEF QueuesTyped
      <4>2. /\ hooked' = <<>> /\ inbox' = inbox /\ steering' = steering
            /\ dropped' \in SUBSET (dropped \cup Range(hooked))
        BY <3>2 DEF HeadFails
      <4> QED
        BY <1>1, <4>1, <4>2 DEF QueuesTyped
    <3>3. CASE DrainFails
      <4>1. PICK gone \in SUBSET DOMAIN inbox :
              /\ inbox' = Selected(inbox, DOMAIN inbox \ gone)
              /\ dropped' = dropped \cup {inbox[i] : i \in gone}
        BY <3>3 DEF DrainFails
      <4>2. inbox' \in Seq(Given)
        <5> DEFINE places == DOMAIN inbox \ gone
        <5>1. places \in SUBSET DOMAIN inbox /\ inbox \in Seq(Given)
          BY <1>1 DEF QueuesTyped
        <5> HIDE DEF places
        <5>2. Selected(inbox, places) \in Seq(Given)
          BY <5>1, Chosen
        <5> QED
          BY <4>1, <5>2 DEF places
      <4>3. \A i \in gone : inbox[i] \in Given
        BY <1>1 DEF QueuesTyped
      <4>4. dropped' \in SUBSET Given
        BY <1>1, <4>1, <4>3 DEF QueuesTyped
      <4> QED
        BY <1>1, <3>3, <4>2, <4>4 DEF DrainFails, QueuesTyped
    <3>4. CASE RecordFails
      <4>1. held \in Seq(Given) /\ held # <<>>
        BY <1>1, <3>4 DEF RecordFails, QueuesTyped
      <4>2. Tail(held) \in Seq(Given)
        BY <4>1
      <4>3. Range(Tail(held)) \in SUBSET Given
        BY <4>2, RangeOfSeq
      <4> QED
        BY <1>1, <3>4, <4>3 DEF RecordFails, QueuesTyped
    <3>5. CASE DeliverFails
      <4>1. Tail(steering) \in Seq(Given)
        BY <1>1, <3>5, HeadAndTail DEF DeliverFails, QueuesTyped
      <4> QED
        BY <1>1, <3>5, <4>1 DEF DeliverFails, QueuesTyped
    <3> QED
      BY <1>12, <3>1, <3>2, <3>3, <3>4, <3>5 DEF Faults
  <2> QED
    BY <1>1, <2>1, <2>2 DEF QueuesTyped
<1>13. \/ Faults \/ Submit \/ Post \/ HookNote \/ Recall \/ SendFollowUp \/ Prepared \/ Top \/ DrainInbox
       \/ Close \/ RecordNote \/ PreSend \/ Deliver \/ Crash
       \/ UNCHANGED Q /\ (pc' = "prepare" <=> pc = "prepare") /\ (pc' = "reading" <=> pc = "reading")
  <2>1. CASE Others
    BY <2>1 DEF Others, Abort, Remind, queues, history
  <2>2. CASE Waits
    BY <2>2 DEF Waits, BeginCompact, Request, Summarized, SummaryFails, Interrupted,
                Receive, TooLong, Retry, Fail, Woken, Refuse, Launch, ToolEnds, queues, history
  <2>3. CASE Steps
    BY <2>3 DEF Steps, Wake, Continue, Answer, CallTools, Settle, Ask, RunBatch, Finish,
                Advance, queues, history
  <2> QED
    BY <2>1, <2>2, <2>3 DEF Next, vars, queues, history
<1> HIDE DEF Q
<1> QED
  BY <1>2, <1>3, <1>4, <1>5, <1>6, <1>7, <1>8, <1>9, <1>10, <1>11, <1>13, <1>12

LEMMA LostStep ==
  ASSUME Typed, [Next]_vars
  PROVE  lost' \in SUBSET Thing
<1>1. CASE UNCHANGED lost
  BY <1>1 DEF Typed
<1>2. CASE Crash
  <2>1. Known(conv) \in SUBSET Thing
    BY KnownThings DEF Typed, TalkTyped
  <2>2. Range(steering \o followUps) \in SUBSET Given /\ Range(hooked \o held) \in SUBSET Given
    <3>1. steering \o followUps \in Seq(Given) /\ hooked \o held \in Seq(Given)
      BY DEF Typed, QueuesTyped
    <3> QED
      BY <3>1, RangeOfSeq
  <2>3. {sending} \ {0} \in SUBSET Given
    BY DEF Typed, QueuesTyped
  <2>4. InMemory \in SUBSET Thing
    BY <2>1, <2>2, <2>3 DEF InMemory, Thing
  <2> QED
    BY <1>2, <2>4 DEF Crash, Typed
<1>3. UNCHANGED lost \/ Crash
  <2>1. CASE Others
    BY <2>1 DEF Others, Submit, Recall, Abort, Remind, Post, HookNote, history
  <2>2. CASE Waits
    BY <2>2 DEF Waits, PreSend, Summarized, SummaryFails, Interrupted,
                Receive, TooLong, Retry, Fail, Woken, Refuse, Launch, ToolEnds, history
  <2>3. CASE Steps
    BY <2>3 DEF Steps, SendFollowUp, Prepared, Wake, Top, DrainInbox, RecordNote, Continue,
                Answer, CallTools, Settle, Ask, RunBatch, Finish, Deliver, Advance, Close, history
  <2>4. CASE Faults
    BY <2>4, FaultsFrame
  <2> QED
    BY <2>1, <2>2, <2>3, <2>4 DEF Next, vars, history
<1> QED
  BY <1>1, <1>2, <1>3
-----------------------------------------------------------------------------
(* A line is torn only where something failed, and what failed stays so.     *)
LEMMA FlagsStep ==
  ASSUME FlagsTyped, [Next]_vars
  PROVE  FlagsTyped' /\ (failed => failed')
<1> USE DEF FlagsTyped
<1>1. CASE UNCHANGED <<torn, failed>>
  BY <1>1
<1>2. ASSUME NEW messages, Say(messages), failed' = failed
      PROVE  FlagsTyped' /\ (failed => failed')
  BY <1>2 DEF Say, SayTo
<1>3. CASE Others
  <2>1. CASE Crash
    BY <2>1 DEF Crash
  <2> QED
    BY <1>1, <1>3, <2>1 DEF Others, Submit, Recall, Abort, Remind, Post, HookNote, talk, history
<1>4. CASE Waits
  <2>1. CASE PreSend \/ Interrupted \/ Fail
    BY <1>2, <2>1 DEF PreSend, Interrupted, Fail, Partial, history
  <2>2. CASE Summarized
    BY <2>2 DEF Summarized, Shorten, history
  <2> QED
    BY <1>1, <1>4, <2>1, <2>2 DEF Waits, SummaryFails, Receive, TooLong, Retry, Woken, Refuse,
                                  Launch, ToolEnds, talk, history
<1>5. CASE Steps
  <2>1. CASE Prepared \/ Top \/ RecordNote
    BY <1>1, <1>2, <2>1 DEF Prepared, Top, RecordNote, talk, history
  <2>2. CASE Continue \/ Answer \/ CallTools
    BY <1>2, <2>2 DEF Continue, Answer, CallTools, history
  <2>3. CASE Finish \/ Deliver
    BY <1>2, <2>3 DEF Finish, Deliver, history
  <2> QED
    BY <1>1, <1>5, <2>1, <2>2, <2>3
       DEF Steps, SendFollowUp, Wake, DrainInbox, Settle, Ask, RunBatch, Advance, Close, talk,
           history
<1>6. CASE Faults
  <2>1. failed' = TRUE
    BY <1>6, FaultsFrame
  <2>2. ASSUME NEW messages, SayFails(messages) PROVE torn' \in BOOLEAN
    BY <2>2 DEF SayFails, SayTo
  <2>3. torn' \in BOOLEAN
    <3>1. CASE PreparedFails \/ HeadFails \/ RecordFails
      BY <2>2, <3>1 DEF PreparedFails, HeadFails, RecordFails
    <3>2. CASE WordsFail \/ CallsFail \/ ResultsFail \/ DeliverFails
      BY <2>2, <3>2 DEF WordsFail, CallsFail, ResultsFail, DeliverFails
    <3>3. CASE BoundaryFails
      BY <3>3 DEF BoundaryFails, Shorten
    <3>4. CASE DrainFails
      BY <3>4 DEF DrainFails, talk
    <3> QED
      BY <1>6, <3>1, <3>2, <3>3, <3>4 DEF Faults
  <2> QED
    BY <2>1, <2>3
<1>7. CASE UNCHANGED vars
  BY <1>1, <1>7 DEF vars, talk, history
<1> QED
  BY <1>3, <1>4, <1>5, <1>6, <1>7 DEF Next

(* The ways the conversation and its log change: messages are said, some of  *)
(* them only in the conversation; its beginning is replaced, in the log too  *)
(* or only in the conversation; and the session is resumed.                  *)
Added(a, f) ==
  /\ conv' = conv \o a /\ saved' = saved \o f
  /\ log' = log \o Saved(a, f) /\ replaced' = replaced
Loggable(a, f) == \A i \in DOMAIN a : f[i] \/ a[i].kind = "reminder"
Said ==
  \E a \in Seq(Message), f \in Seq(BOOLEAN) :
    Marks(a, f) /\ Added(a, f) /\ (~failed' => Loggable(a, f))
Kept(of, a, from) == <<Summary(of)>> \o SubSeq(a, from, Len(a))
Recorded ==
  \E from \in 1..Len(conv), of \in SUBSET Thing :
    /\ of = Known(SubSeq(conv, 1, from - 1))
    /\ conv' = Kept(of, conv, from)
    /\ log' = Append(log, Boundary(of, SubSeq(conv, from, Len(conv))))
    /\ saved' = [i \in DOMAIN conv' |-> TRUE] /\ replaced' = <<>>
Unrecorded ==
  \E from \in 1..Len(conv), of \in SUBSET Thing :
    /\ of = Known(SubSeq(conv, 1, from - 1))
    /\ conv' = Kept(of, conv, from)
    /\ log' = log /\ failed'
    /\ saved' = <<FALSE>> \o SubSeq(saved, from, Len(conv))
    /\ replaced' = replaced \o Saved(SubSeq(conv, 1, from - 1), SubSeq(saved, 1, from - 1))
Resumed ==
  /\ conv' = Rebuilt /\ log' = log
  /\ saved' = [i \in DOMAIN conv' |-> TRUE] /\ replaced' = <<>>

(* However much of it reaches the log. *)
LEMMA SaidInPart ==
  ASSUME NEW messages \in Seq(Message), NEW said \in 0..Len(messages), NEW written \in 0..said,
         NEW part, SayTo(messages, said, written, part), torn \in BOOLEAN,
         ~failed' => ~torn /\ written = said
  PROVE  LET a == SubSeq(messages, 1, said)
             f == [i \in 1..said |-> i <= written /\ (torn => i > 1)]
         IN /\ a \in Seq(Message) /\ Marks(a, f) /\ Added(a, f) /\ (~failed' => Loggable(a, f))
            /\ Len(a) = said /\ \A i \in 1..said : a[i] = messages[i]
<1> DEFINE a == SubSeq(messages, 1, said)
           f == [i \in 1..said |-> i <= written /\ (torn => i > 1)]
           lo == IF torn /\ written # 0 THEN 2 ELSE 1
           from == IF torn THEN 2 ELSE 1
<1>1. /\ said \in Nat /\ written \in Nat /\ written <= said /\ said <= Len(messages)
      /\ Len(messages) \in Nat /\ DOMAIN messages = 1..Len(messages)
  OBVIOUS
<1>2. a \in Seq(Message) /\ Len(a) = said /\ \A i \in 1..said : a[i] = messages[i]
  <2>1. \A i \in 1..said : i \in 1..Len(messages) /\ messages[i] \in Message
    BY <1>1
  <2> QED
    BY <1>1
<1>3. f \in Seq(BOOLEAN) /\ Len(f) = said /\ DOMAIN f = 1..said
      /\ \A i \in 1..said : f[i] <=> (i <= written /\ (torn => i > 1))
  <2>1. DOMAIN f = 1..said /\ \A i \in 1..said : f[i] = (i <= written /\ (torn => i > 1))
    BY Zenon
  <2>2. \A i \in 1..said : (i <= written /\ (torn => i > 1)) \in BOOLEAN
    BY Zenon
  <2>3. f \in [1..said -> BOOLEAN]
    BY <2>2, Zenon
  <2> HIDE DEF f
  <2>4. f \in Seq(BOOLEAN) /\ Len(f) = said
    BY <1>1, <2>3
  <2>5. \A i \in 1..said : f[i] <=> (i <= written /\ (torn => i > 1))
    BY <2>1, Zenon
  <2> QED
    BY <2>1, <2>4, <2>5
<1> HIDE DEF a, f
<1>4. /\ lo \in Nat \ {0} /\ written \in 0..Len(a) /\ lo <= written + 1
      /\ \A i \in DOMAIN a : f[i] <=> (lo <= i /\ i <= written)
  <2>1. DOMAIN a = 1..said
    BY <1>2
  <2>2. \A i \in 1..said : (i <= written /\ (torn => i > 1)) <=> (lo <= i /\ i <= written)
    BY <1>1
  <2> QED
    BY <1>1, <1>2, <1>3, <2>1, <2>2
<1>5. Saved(a, f) = SubSeq(a, lo, written)
  <2> HIDE DEF lo
  <2> QED
    BY <1>2, <1>4, SavedStretch
<1>6. SubSeq(a, lo, written) = SubSeq(messages, from, written)
  <2>1. CASE from > written
    <3>1. SubSeq(messages, from, written) = <<>>
      BY <1>1, <2>1
    <3>2. SubSeq(a, lo, written) = <<>>
      <4>1. lo > written
        BY <1>1, <2>1
      <4> HIDE DEF lo
      <4> QED
        BY <1>1, <1>2, <1>4, <4>1
    <3> QED
      BY <3>1, <3>2
  <2>2. CASE ~(from > written)
    <3>1. lo = from /\ from \in Nat /\ from >= 1 /\ from <= written
      BY <1>1, <2>2
    <3> HIDE DEF lo, from
    <3>2. \A k \in 1..(written - from + 1) : a[from + k - 1] = messages[from + k - 1]
      <4>1. \A k \in 1..(written - from + 1) : from + k - 1 \in 1..said
        BY <1>1, <3>1
      <4> QED
        BY <1>2, <4>1
    <3>3. SubSeq(a, from, written) = [k \in 1..(written - from + 1) |-> a[from + k - 1]]
      BY <1>1, <1>2, <3>1
    <3>4. SubSeq(messages, from, written)
            = [k \in 1..(written - from + 1) |-> messages[from + k - 1]]
      BY <1>1, <3>1
    <3> QED
      BY <3>1, <3>2, <3>3, <3>4
  <2> QED
    BY <2>1, <2>2
<1>7. Added(a, f)
  <2>1. log' = log \o SubSeq(messages, from, written)
    BY DEF SayTo
  <2>2. conv' = conv \o a /\ saved' = saved \o f /\ replaced' = replaced
    BY DEF SayTo, a, f
  <2>3. Saved(a, f) = SubSeq(messages, from, written)
    BY <1>5, <1>6, Zenon
  <2> HIDE DEF from, lo
  <2>4. log' = log \o Saved(a, f)
    BY <2>1, <2>3
  <2> QED
    BY <2>2, <2>4 DEF Added
<1>8. ASSUME ~failed' PROVE Loggable(a, f)
  <2>1. DOMAIN a = 1..said
    BY <1>2
  <2>2. \A i \in 1..said : f[i]
    BY <1>1, <1>3, <1>8
  <2> QED
    BY <2>1, <2>2 DEF Loggable
<1>9. Marks(a, f)
  BY <1>2, <1>3 DEF Marks
<1> QED
  BY <1>2, <1>7, <1>8, <1>9 DEF a, f

LEMMA SaidWhole ==
  ASSUME FlagsTyped, NEW messages \in Seq(Message), Say(messages), failed => failed'
  PROVE  /\ \E f \in Seq(BOOLEAN) :
              /\ Marks(messages, f) /\ Added(messages, f) /\ (~failed' => Loggable(messages, f))
              /\ ~torn => f = [i \in DOMAIN messages |-> TRUE]
              /\ torn => f = [i \in DOMAIN messages |-> i > 1]
         /\ Said
<1> DEFINE n == Len(messages)
           a == SubSeq(messages, 1, n)
           f == [i \in 1..n |-> i <= n /\ (torn => i > 1)]
<1>1. n \in Nat /\ n \in 0..Len(messages) /\ n \in 0..n /\ DOMAIN messages = 1..n
  OBVIOUS
<1>2. SayTo(messages, n, n, FALSE)
  BY DEF Say
<1>3. ~failed' => ~torn /\ n = n
  BY DEF FlagsTyped
<1>4. torn \in BOOLEAN
  BY DEF FlagsTyped
<1>5. Marks(a, f) /\ Added(a, f) /\ (~failed' => Loggable(a, f))
  <2> HIDE DEF a, f, n
  <2> QED
    BY <1>1, <1>2, <1>3, <1>4, SaidInPart DEF a, f
<1>6. a = messages
  OBVIOUS
<1>7. f \in Seq(BOOLEAN)
  BY <1>5 DEF Marks
<1>8. /\ ~torn => f = [i \in 1..n |-> TRUE]
      /\ torn => f = [i \in 1..n |-> i > 1]
  <2>1. f = [i \in 1..n |-> i <= n /\ (torn => i > 1)]
    BY Zenon
  <2> HIDE DEF f, n
  <2>2. CASE ~torn
    <3>1. \A i \in 1..n : (i <= n /\ (torn => i > 1)) = TRUE
      BY <1>1, <2>2
    <3> QED
      BY <2>1, <2>2, <3>1, Zenon
  <2>3. CASE torn
    <3>1. \A i \in 1..n : (i <= n /\ (torn => i > 1)) = (i > 1)
      BY <1>1, <2>3
    <3> QED
      BY <2>1, <2>3, <3>1, Zenon
  <2> QED
    BY <2>2, <2>3
<1> HIDE DEF a, f, n
<1>9. /\ Marks(messages, f) /\ Added(messages, f) /\ (~failed' => Loggable(messages, f))
      /\ ~torn => f = [i \in DOMAIN messages |-> TRUE]
      /\ torn => f = [i \in DOMAIN messages |-> i > 1]
  BY <1>1, <1>5, <1>6, <1>8
<1> QED
  BY <1>7, <1>9 DEF Said

(* A write that fails: at least one message is said. *)
LEMMA SaidAndFailed ==
  ASSUME FlagsTyped, NEW messages \in Seq(Message), SayFails(messages)
  PROVE  /\ \E n \in DOMAIN messages, f \in Seq(BOOLEAN) :
              Marks(SubSeq(messages, 1, n), f) /\ Added(SubSeq(messages, 1, n), f)
         /\ Said
<1>1. PICK n \in DOMAIN messages : \E written \in {n - 1, n} : \E part \in BOOLEAN :
        SayTo(messages, n, written, part) /\ failed' = TRUE
  BY DEF SayFails
<1>2. PICK written \in {n - 1, n}, part \in BOOLEAN :
        SayTo(messages, n, written, part) /\ failed' = TRUE
  BY <1>1
<1>3. n \in 0..Len(messages) /\ written \in 0..n /\ torn \in BOOLEAN
  BY DEF FlagsTyped
<1> DEFINE a == SubSeq(messages, 1, n)
           f == [i \in 1..n |-> i <= written /\ (torn => i > 1)]
<1>4. a \in Seq(Message) /\ Marks(a, f) /\ Added(a, f) /\ (~failed' => Loggable(a, f))
  <2> HIDE DEF a, f
  <2> QED
    BY <1>2, <1>3, SaidInPart DEF a, f
<1> HIDE DEF f
<1>5. f \in Seq(BOOLEAN)
  BY <1>4 DEF Marks
<1>6. Said
  <2> HIDE DEF a
  <2> QED
    BY <1>4, <1>5 DEF Said
<1> QED
  BY <1>4, <1>5, <1>6
(* What a note, several notes, and the end of a response make of the conversation. *)
LEMMA Sayings ==
  /\ \A m \in Message : <<m>> \in Seq(Message)
  /\ \A queue \in Seq(Given) : Notes(queue) \in Seq(Message)
  /\ <<Words>> \in Seq(Message) /\ <<Words, Resume>> \in Seq(Message) /\ <<>> \in Seq(Message)
<1>1. ASSUME NEW queue \in Seq(Given)
      PROVE  Notes(queue) \in Seq(Message)
  <2> DEFINE n == Len(queue)
             notes == [i \in 1..n |-> Note(queue[i])]
  <2>1. n \in Nat /\ DOMAIN queue = 1..n /\ \A i \in 1..n : Note(queue[i]) \in Message
    BY Made
  <2> HIDE DEF n
  <2>2. notes \in Seq(Message)
    BY <2>1
  <2> QED
    BY <2>1, <2>2 DEF Notes
<1>2. Words \in Message /\ Resume \in Message
  BY Made
<1>3. \A m \in Message : <<m>> \in Seq(Message)
  OBVIOUS
<1>4. <<Words>> \in Seq(Message) /\ <<Words, Resume>> \in Seq(Message) /\ <<>> \in Seq(Message)
  <2> DEFINE w == Words
             r == Resume
  <2> HIDE DEF w, r
  <2>1. w \in Message /\ r \in Message
    BY <1>2 DEF w, r
  <2>2. <<w>> \in Seq(Message) /\ <<w, r>> \in Seq(Message) /\ <<>> \in Seq(Message)
    BY <2>1
  <2> QED
    BY <2>2 DEF w, r
<1> QED
  BY <1>1, <1>3, <1>4

(* The messages a compaction leaves are messages, and so is what is recorded. *)
LEMMA Shortens ==
  ASSUME Typed, Unchanged(compact.seen), pc = "summing",
         NEW written \in BOOLEAN, NEW part \in BOOLEAN, Shorten(written, part),
         ~failed' => ~torn /\ written
  PROVE  Recorded \/ Unrecorded
<1> DEFINE n == Len(conv)
           from == compact.from
           before == SubSeq(conv, 1, from - 1)
           of == Known(before)
           recorded == written /\ ~torn
<1>1. conv \in Seq(Message) /\ conv = compact.seen /\ from \in 1..n /\ n \in Nat
  BY DEF Typed, TalkTyped, CompactTyped, Unchanged
<1>2. before \in Seq(Message)
  <2>1. \A i \in 1..(from - 1) : i \in 1..n /\ conv[i] \in Message
    BY <1>1
  <2>2. from - 1 \in Int /\ 1 \in Int
    BY <1>1
  <2> QED
    BY <2>1, <2>2, SubSeqProperties
<1>3. of \in SUBSET Thing
  BY <1>2, KnownThings
<1>4. /\ conv' = Kept(of, conv, from)
      /\ log' = IF recorded THEN Append(log, Boundary(of, SubSeq(conv, from, n))) ELSE log
      /\ saved' = IF recorded THEN [i \in DOMAIN conv' |-> TRUE]
                  ELSE <<FALSE>> \o SubSeq(saved, from, n)
      /\ replaced' = IF recorded THEN <<>>
                     ELSE replaced \o Saved(before, SubSeq(saved, 1, from - 1))
  BY <1>1 DEF Shorten, Kept
<1>5. CASE recorded
  BY <1>1, <1>3, <1>4, <1>5 DEF Recorded
<1>6. CASE ~recorded
  <2>1. failed'
    BY <1>6
  <2> QED
    BY <1>1, <1>3, <1>4, <1>6, <2>1 DEF Unrecorded
<1> QED
  BY <1>5, <1>6

(* What a step says, or tries to say, is a list of messages. *)
Saying == \E messages \in Seq(Message) : Say(messages) \/ SayFails(messages)

LEMMA SayingIsSaid ==
  ASSUME Typed, [Next]_vars, Saying
  PROVE  Said
BY FlagsStep, SaidWhole, SaidAndFailed DEF Saying, Typed

LEMMA TalkMoves ==
  ASSUME Typed, [Next]_vars
  PROVE  UNCHANGED talk \/ Said \/ Recorded \/ Unrecorded \/ Resumed
<1>1. CASE Others
  <2>1. CASE Remind
    <3>1. counts'.reminders \in Given
      BY <2>1, EventCounts DEF Remind, Typed
    <3> DEFINE m == Reminder(counts'.reminders)
    <3>2. m \in Message /\ m.kind = "reminder"
      BY <3>1, Made DEF Reminder, Numbered
    <3>3. conv' = Append(conv, m) /\ saved' = Append(saved, FALSE) /\ log' = log
          /\ replaced' = replaced
      BY <2>1 DEF Remind
    <3> HIDE DEF m
    <3>4. Append(conv, m) = conv \o <<m>> /\ Append(saved, FALSE) = saved \o <<FALSE>>
      <4>1. conv \in Seq(Message) /\ saved \in Seq(BOOLEAN) /\ FALSE \in BOOLEAN
        BY DEF Typed, TalkTyped
      <4> QED
        BY <3>2, <4>1, AppendIsConcat
    <3>5. Saved(<<m>>, <<FALSE>>) = <<>> /\ Marks(<<m>>, <<FALSE>>)
      BY <3>2, SavedNothing
    <3>6. log \o <<>> = log
      BY ConcatEmptySeq DEF Typed, TalkTyped
    <3>7. Added(<<m>>, <<FALSE>>)
      BY <3>3, <3>4, <3>5, <3>6 DEF Added
    <3>8. <<m>> \in Seq(Message) /\ <<FALSE>> \in Seq(BOOLEAN) /\ Loggable(<<m>>, <<FALSE>>)
      BY <3>2 DEF Loggable
    <3> QED
      BY <3>5, <3>7, <3>8 DEF Said
  <2>2. CASE Crash
    BY <2>2 DEF Crash, Resumed, Rebuilt
  <2> QED
    BY <1>1, <2>1, <2>2 DEF Others, Submit, Recall, Abort, Post, HookNote
<1>2. CASE Waits
  <2>1. CASE PreSend
    <3>1. Saying
      BY <2>1, Sayings DEF PreSend, Typed, QueuesTyped, Saying
    <3> QED
      BY <3>1, SayingIsSaid
  <2>2. CASE Interrupted \/ Fail
    <3>1. Saying
      BY <2>2, Sayings DEF Interrupted, Fail, Partial, Saying
    <3> QED
      BY <3>1, SayingIsSaid
  <2>3. CASE Summarized
    <3>1. failed' = failed /\ Shorten(TRUE, FALSE) /\ Unchanged(compact.seen) /\ pc = "summing"
      BY <2>3 DEF Summarized, history
    <3>2. ~failed' => ~torn
      BY <3>1 DEF Typed, FlagsTyped
    <3> QED
      BY <3>1, <3>2, Shortens
  <2> QED
    BY <1>2, <2>1, <2>2, <2>3
       DEF Waits, SummaryFails, Receive, TooLong, Retry, Woken, Refuse, Launch, ToolEnds
<1>3. CASE \/ Prepared \/ Top \/ RecordNote \/ Continue \/ Answer \/ CallTools \/ Finish
           \/ Deliver \/ PreparedFails \/ HeadFails \/ RecordFails \/ WordsFail \/ CallsFail
           \/ ResultsFail \/ DeliverFails
  <2> SUFFICES Saying \/ UNCHANGED talk
    BY SayingIsSaid
  <2>1. CASE Prepared \/ PreparedFails
    <3>1. Text(sending) \in Message
      BY <2>1, Made DEF Prepared, PreparedFails, Typed, QueuesTyped
    <3> QED
      BY <2>1, <3>1, Sayings DEF Prepared, PreparedFails, Saying
  <2>2. CASE Top \/ HeadFails
    BY <2>2, Sayings DEF Top, HeadFails, Typed, QueuesTyped, Saying
  <2>3. CASE RecordNote \/ RecordFails
    <3>1. Head(held) \in Given
      BY <2>3, HeadAndTail DEF RecordNote, RecordFails, Typed, QueuesTyped
    <3>2. Note(Head(held)) \in Message
      BY <3>1, Made
    <3> QED
      BY <2>3, <3>2, Sayings DEF RecordNote, RecordFails, Saying
  <2>4. CASE Continue \/ Answer \/ WordsFail
    BY <2>4, Sayings DEF Continue, Answer, WordsFail, Saying
  <2>5. CASE CallTools \/ CallsFail
    <3> DEFINE m == Called(turn', response.calls)
    <3>1. turn' \in Nat /\ response.calls \in Nat
      BY <2>5, Bounds DEF CallTools, CallsFail, Typed, CallsTyped, ControlTyped, Responses
    <3>2. m \in Message
      BY <3>1, Made
    <3>3. Say(<<m>>) \/ SayFails(<<m>>)
      BY <2>5 DEF CallTools, CallsFail
    <3> HIDE DEF m
    <3> QED
      BY <3>2, <3>3, Sayings DEF Saying
  <2>6. CASE Finish \/ ResultsFail
    <3>1. turn \in Nat /\ calls \in Seq(Settled)
      BY <2>6 DEF Finish, ResultsFail, Complete, Typed, CallsTyped
    <3>2. Results(turn, calls) \in Message
      BY <3>1, Made
    <3> QED
      BY <2>6, <3>2, Sayings DEF Finish, ResultsFail, Saying
  <2>7. CASE Deliver \/ DeliverFails
    <3>1. Head(steering) \in Given
      BY <2>7, HeadAndTail DEF Deliver, DeliverFails, Typed, QueuesTyped
    <3>2. Text(Head(steering)) \in Message
      BY <3>1, Made
    <3> QED
      BY <2>7, <3>2, Sayings DEF Deliver, DeliverFails, Saying
  <2> QED
    BY <1>3, <2>1, <2>2, <2>3, <2>4, <2>5, <2>6, <2>7
<1>4. CASE Steps
  BY <1>3, <1>4 DEF Steps, SendFollowUp, Wake, DrainInbox, Settle, Ask, RunBatch, Advance, Close
<1>5. CASE Faults
  <2>1. CASE BoundaryFails
    <3>1. Unchanged(compact.seen) /\ pc = "summing"
      BY <2>1 DEF BoundaryFails
    <3>2. PICK written \in BOOLEAN, part \in BOOLEAN : Shorten(written, part)
      BY <2>1 DEF BoundaryFails
    <3>3. failed'
      BY <1>5, FaultsFrame
    <3> QED
      BY <3>1, <3>2, <3>3, Shortens
  <2> QED
    BY <1>3, <1>5, <2>1 DEF Faults, DrainFails
<1> QED
  BY <1>1, <1>2, <1>4, <1>5 DEF Next, vars

(* The conversation is cut in two with its marks. *)
LEMMA CutInTwo ==
  ASSUME NEW a \in Seq(Message), NEW f, Marks(a, f), NEW from \in 1..Len(a)
  PROVE  LET before == SubSeq(a, 1, from - 1)
             keep == SubSeq(a, from, Len(a))
             fb == SubSeq(f, 1, from - 1)
             fk == SubSeq(f, from, Len(a))
         IN /\ before \in Seq(Message) /\ keep \in Seq(Message) /\ a = before \o keep
            /\ Marks(before, fb) /\ Marks(keep, fk) /\ f = fb \o fk
            /\ Len(before) = from - 1 /\ Len(keep) = Len(a) - from + 1
            /\ Len(fb) = from - 1
            /\ \A i \in 1..Len(keep) : keep[i] = a[from + i - 1] /\ fk[i] = f[from + i - 1]
<1> DEFINE n == Len(a)
<1>1. n \in Nat /\ from \in Nat /\ from >= 1 /\ from <= n /\ Len(f) = n
  BY DEF Marks
<1>2. ASSUME NEW S, NEW s \in Seq(S), Len(s) = n
      PROVE  /\ SubSeq(s, 1, from - 1) \in Seq(S) /\ SubSeq(s, from, n) \in Seq(S)
             /\ Len(SubSeq(s, 1, from - 1)) = from - 1 /\ Len(SubSeq(s, from, n)) = n - from + 1
             /\ s = SubSeq(s, 1, from - 1) \o SubSeq(s, from, n)
             /\ \A i \in 1..(n - from + 1) : SubSeq(s, from, n)[i] = s[from + i - 1]
  <2> DEFINE b == SubSeq(s, 1, from - 1)
             k == SubSeq(s, from, n)
  <2> HIDE DEF n
  <2>1. /\ b \in Seq(S) /\ Len(b) = from - 1
        /\ \A i \in 1..(from - 1) : b[i] = s[i]
    <3>1. \A i \in 1..(from - 1) : i \in 1..n /\ s[i] \in S
      BY <1>1, <1>2
    <3> QED
      BY <1>1, <3>1, SubSeqProperties
  <2>2. /\ k \in Seq(S) /\ Len(k) = n - from + 1
        /\ \A i \in 1..(n - from + 1) : k[i] = s[from + i - 1]
    <3>1. \A i \in from..n : i \in 1..n /\ s[i] \in S
      BY <1>1, <1>2
    <3> QED
      BY <1>1, <3>1, SubSeqProperties
  <2> HIDE DEF b, k
  <2>3. /\ b \o k \in Seq(S) /\ Len(b \o k) = (from - 1) + (n - from + 1)
        /\ \A i \in 1..((from - 1) + (n - from + 1)) :
             (b \o k)[i] = IF i <= from - 1 THEN b[i] ELSE k[i - (from - 1)]
    BY <2>1, <2>2, ConcatProperties
  <2>4. \A i \in 1..n : (b \o k)[i] = s[i]
    <3> SUFFICES ASSUME NEW i \in 1..n PROVE (b \o k)[i] = s[i]
      OBVIOUS
    <3>1. CASE i <= from - 1
      BY <1>1, <2>1, <2>3, <3>1
    <3>2. CASE ~(i <= from - 1)
      <4>1. i - (from - 1) \in 1..(n - from + 1) /\ from + (i - (from - 1)) - 1 = i
        BY <1>1, <3>2
      <4> QED
        BY <1>1, <2>2, <2>3, <3>2, <4>1
    <3> QED
      BY <3>1, <3>2
  <2>5. s = b \o k
    <3>1. Len(b \o k) = n
      BY <1>1, <2>3
    <3> QED
      BY <1>2, <2>3, <2>4, <3>1, SeqEqual
  <2> QED
    BY <2>1, <2>2, <2>5 DEF b, k
<1>3. f \in Seq(BOOLEAN)
  BY DEF Marks
<1> HIDE DEF n
<1>4. /\ SubSeq(a, 1, from - 1) \in Seq(Message) /\ SubSeq(a, from, n) \in Seq(Message)
      /\ Len(SubSeq(a, 1, from - 1)) = from - 1 /\ Len(SubSeq(a, from, n)) = n - from + 1
      /\ a = SubSeq(a, 1, from - 1) \o SubSeq(a, from, n)
      /\ \A i \in 1..(n - from + 1) : SubSeq(a, from, n)[i] = a[from + i - 1]
  BY <1>2 DEF n
<1>5. /\ SubSeq(f, 1, from - 1) \in Seq(BOOLEAN) /\ SubSeq(f, from, n) \in Seq(BOOLEAN)
      /\ Len(SubSeq(f, 1, from - 1)) = from - 1 /\ Len(SubSeq(f, from, n)) = n - from + 1
      /\ f = SubSeq(f, 1, from - 1) \o SubSeq(f, from, n)
      /\ \A i \in 1..(n - from + 1) : SubSeq(f, from, n)[i] = f[from + i - 1]
  BY <1>1, <1>2, <1>3
<1>6. Marks(SubSeq(a, 1, from - 1), SubSeq(f, 1, from - 1))
      /\ Marks(SubSeq(a, from, n), SubSeq(f, from, n))
  BY <1>4, <1>5 DEF Marks
<1> QED
  BY <1>4, <1>5, <1>6 DEF n

LEMMA TalkStep ==
  ASSUME TalkTyped, UNCHANGED talk \/ Said \/ Recorded \/ Unrecorded \/ Resumed
  PROVE  TalkTyped'
<1>1. /\ conv \in Seq(Message) /\ log \in Seq(Entry) /\ replaced \in Seq(Message)
      /\ saved \in Seq(BOOLEAN) /\ Len(saved) = Len(conv) /\ Marks(conv, saved)
  BY DEF TalkTyped, Marks
<1>2. CASE UNCHANGED talk
  BY <1>1, <1>2 DEF talk, TalkTyped
<1>3. CASE Said
  <2>1. PICK a \in Seq(Message), f \in Seq(BOOLEAN) : Marks(a, f) /\ Added(a, f)
    BY <1>3 DEF Said
  <2>2. Saved(a, f) \in Seq(Entry)
    BY SavedTyped DEF Entry
  <2>3. conv \o a \in Seq(Message) /\ log \o Saved(a, f) \in Seq(Entry)
    BY <1>1, <2>2
  <2>4. Marks(conv \o a, saved \o f)
    BY <1>1, <2>1, MarksJoined
  <2> QED
    BY <1>1, <2>1, <2>3, <2>4 DEF TalkTyped, Added, Marks
<1>4. CASE Recorded
  <2>1. PICK from \in 1..Len(conv), of \in SUBSET Thing :
          /\ conv' = Kept(of, conv, from)
          /\ log' = Append(log, Boundary(of, SubSeq(conv, from, Len(conv))))
          /\ saved' = [i \in DOMAIN conv' |-> TRUE] /\ replaced' = <<>>
    BY <1>4 DEF Recorded
  <2> DEFINE m == Summary(of)
             keep == SubSeq(conv, from, Len(conv))
             b == Boundary(of, keep)
  <2>2. keep \in Seq(Message)
    BY <1>1, CutInTwo
  <2> HIDE DEF keep
  <2>3. m \in Message /\ b \in Entry
    BY <2>2, Made
  <2> HIDE DEF m, b
  <2>4. <<m>> \o keep \in Seq(Message) /\ Append(log, b) \in Seq(Entry) /\ <<>> \in Seq(Message)
    BY <1>1, <2>2, <2>3
  <2>5. conv' = <<m>> \o keep /\ log' = Append(log, b)
    BY <2>1 DEF Kept, m, b, keep
  <2>6. Marks(conv', saved')
    BY <2>1, <2>4, <2>5, SavedWhole
  <2> QED
    BY <2>1, <2>4, <2>5, <2>6 DEF TalkTyped, Marks
<1>5. CASE Unrecorded
  <2>1. PICK from \in 1..Len(conv), of \in SUBSET Thing :
          /\ conv' = Kept(of, conv, from) /\ log' = log
          /\ saved' = <<FALSE>> \o SubSeq(saved, from, Len(conv))
          /\ replaced' = replaced \o Saved(SubSeq(conv, 1, from - 1), SubSeq(saved, 1, from - 1))
    BY <1>5 DEF Unrecorded
  <2> DEFINE m == Summary(of)
             keep == SubSeq(conv, from, Len(conv))
             fk == SubSeq(saved, from, Len(conv))
             before == SubSeq(conv, 1, from - 1)
             fb == SubSeq(saved, 1, from - 1)
  <2>2. keep \in Seq(Message) /\ Marks(keep, fk) /\ before \in Seq(Message)
    BY <1>1, CutInTwo
  <2> HIDE DEF keep, fk, before, fb
  <2>3. m \in Message
    BY Made
  <2> HIDE DEF m
  <2>4. <<m>> \in Seq(Message) /\ Marks(<<m>>, <<FALSE>>)
    BY <2>3, SavedNothing
  <2>5. Marks(<<m>> \o keep, <<FALSE>> \o fk) /\ <<m>> \o keep \in Seq(Message)
    <3>1. Marks(<<m>> \o keep, <<FALSE>> \o fk)
      BY <2>2, <2>4, MarksJoined
    <3> QED
      BY <2>2, <2>4, <3>1
  <2>6. Saved(before, fb) \in Seq(Message)
    BY <2>2, SavedTyped
  <2>7. replaced \o Saved(before, fb) \in Seq(Message)
    BY <1>1, <2>6
  <2>8. conv' = <<m>> \o keep /\ saved' = <<FALSE>> \o fk /\ replaced' = replaced \o Saved(before, fb)
    BY <2>1 DEF Kept, m, keep, fk, before, fb
  <2> QED
    BY <1>1, <2>1, <2>5, <2>7, <2>8 DEF TalkTyped, Marks
<1>6. CASE Resumed
  <2>1. Rebuilt \in Seq(Message)
    BY <1>1, RebuiltTyped DEF Rebuilt
  <2>2. Marks(conv', saved')
    BY <1>6, <2>1, SavedWhole DEF Resumed
  <2>3. <<>> \in Seq(Message)
    OBVIOUS
  <2> QED
    BY <1>1, <1>6, <2>1, <2>2, <2>3 DEF Resumed, TalkTyped, Marks
<1> QED
  BY <1>2, <1>3, <1>4, <1>5, <1>6

(* No step loses the types. *)
LEMMA TypesKept ==
  ASSUME Typed, [Next]_vars
  PROVE  Typed'
<1>1. TalkTyped'
  BY TalkMoves, TalkStep DEF Typed
<1>2. FlagsTyped'
  BY FlagsStep DEF Typed
<1>3. ControlTyped' /\ CallsTyped' /\ CountsTyped' /\ QueuesTyped' /\ lost' \in SUBSET Thing
  BY ControlStep, CallsStep, CountsStep, QueuesStep, LostStep DEF Typed
<1>4. CompactTyped'
  BY <1>1, CompactStep DEF Typed
<1> QED
  BY <1>1, <1>3, <1>4, <1>2 DEF Typed

LEMMA InitTyped ==
  ASSUME Init
  PROVE  Typed
<1>1. <<>> \in Seq(Message) /\ <<>> \in Seq(Entry) /\ <<>> \in Seq(CallState)
      /\ <<>> \in Seq(Given) /\ <<>> \in Seq(BOOLEAN) /\ Len(<<>>) = 0
  OBVIOUS
<1>2. TalkTyped /\ CallsTyped /\ CompactTyped
  BY <1>1, Bounds DEF Init, TalkTyped, CallsTyped, CompactTyped
<1>3. FlagsTyped
  BY DEF Init, FlagsTyped
<1>4. ControlTyped
  BY NothingReceived, FreshTyped DEF Init, ControlTyped, Places
<1>5. CountsTyped
  BY Bounds DEF Init, CountsTyped
<1>6. QueuesTyped /\ lost \in SUBSET Thing
  BY <1>1 DEF Init, QueuesTyped
<1> QED
  BY <1>2, <1>4, <1>5, <1>6, <1>3 DEF Typed

LEMMA AlwaysTyped == Spec => []Typed
BY InitTyped, TypesKept, PTL DEF Spec
-----------------------------------------------------------------------------
LEMMA Regrouped ==
  \A r, s, t \in Seq(Message) : (r \o s) \o t = r \o (s \o t) /\ <<>> \o s = s
BY ConcatAssociative, ConcatEmptySeq

(* A message that is not in the log leaves nothing there. *)
LEMMA SavedBehind ==
  ASSUME NEW m \in Message, NEW keep \in Seq(Message), NEW marks, Marks(keep, marks)
  PROVE  Saved(<<m>> \o keep, <<FALSE>> \o marks) = Saved(keep, marks)
<1>1. <<m>> \in Seq(Message) /\ <<FALSE>> \in Seq(BOOLEAN)
  OBVIOUS
<1>2. PICK one \in Seq(Message), none \in Seq(BOOLEAN) : one = <<m>> /\ none = <<FALSE>>
  BY <1>1
<1>3. Saved(one, none) = <<>>
  BY <1>2, SavedNothing
<1>4. Saved(one \o keep, none \o marks) = Saved(one, none) \o Saved(keep, marks)
  <2>1. Marks(one, none)
    BY <1>2, SavedNothing
  <2> QED
    BY <2>1, SavedJoined
<1>5. <<>> \o Saved(keep, marks) = Saved(keep, marks)
  <2>1. PICK s \in Seq(Message) : s = Saved(keep, marks)
    BY SavedTyped
  <2>2. <<>> \o s = s
    BY Regrouped
  <2> QED
    BY <2>1, <2>2
<1> QED
  BY <1>2, <1>3, <1>4, <1>5

LEMMA LogStep ==
  ASSUME TalkTyped, LogStandsIn, failed => failed',
         UNCHANGED talk \/ Said \/ Recorded \/ Unrecorded \/ Resumed
  PROVE  LogStandsIn'
<1>1. /\ conv \in Seq(Message) /\ log \in Seq(Entry) /\ replaced \in Seq(Message)
      /\ Rebuilt \in Seq(Message) /\ Marks(conv, saved)
  BY RebuiltTyped DEF TalkTyped, Rebuilt, Marks
<1>2. /\ Rebuilt = replaced \o Saved(conv, saved)
      /\ ~failed => replaced = <<>> /\ Loggable(conv, saved)
  BY DEF LogStandsIn, Rebuilt, Loggable
<1>3. SUFFICES /\ Rebuilt' = replaced' \o Saved(conv', saved')
               /\ ~failed' => replaced' = <<>> /\ Loggable(conv', saved')
  BY DEF LogStandsIn, Rebuilt, Loggable
<1>4. CASE UNCHANGED talk
  <2>1. conv' = conv /\ log' = log /\ saved' = saved /\ replaced' = replaced
    BY <1>4 DEF talk
  <2> QED
    BY <1>2, <2>1 DEF Rebuilt
<1>5. CASE Said
  <2>1. PICK a \in Seq(Message), f \in Seq(BOOLEAN) :
          Marks(a, f) /\ Added(a, f) /\ (~failed' => Loggable(a, f))
    BY <1>5 DEF Said
  <2>2. Saved(a, f) \in Seq(Message) /\ Saved(conv, saved) \in Seq(Message)
    BY <1>1, SavedTyped
  <2>3. rebuildFromSession(log \o Saved(a, f)) = Rebuilt \o Saved(a, f)
    BY <1>1, <2>2, SaidIsRebuilt DEF Rebuilt
  <2>4. Saved(conv \o a, saved \o f) = Saved(conv, saved) \o Saved(a, f)
    BY <1>1, <2>1, SavedJoined
  <2>5. (replaced \o Saved(conv, saved)) \o Saved(a, f)
          = replaced \o (Saved(conv, saved) \o Saved(a, f))
    <3> DEFINE sc == Saved(conv, saved)
               sa == Saved(a, f)
    <3> HIDE DEF sc, sa
    <3>1. sc \in Seq(Message) /\ sa \in Seq(Message)
      BY <2>2 DEF sc, sa
    <3>2. (replaced \o sc) \o sa = replaced \o (sc \o sa)
      BY <1>1, <3>1, Regrouped
    <3> QED
      BY <3>2 DEF sc, sa
  <2>6. Rebuilt' = rebuildFromSession(log \o Saved(a, f))
    BY <2>1 DEF Added, Rebuilt
  <2>7. Rebuilt' = replaced' \o Saved(conv', saved')
    <3> DEFINE sc == Saved(conv, saved)
               sa == Saved(a, f)
    <3>1. conv' = conv \o a /\ saved' = saved \o f /\ replaced' = replaced
      BY <2>1 DEF Added
    <3>2. Saved(conv', saved') = sc \o sa
      BY <2>4, <3>1
    <3>3. Rebuilt' = Rebuilt \o sa /\ Rebuilt = replaced \o sc
      BY <1>2, <2>3, <2>6
    <3>4. (replaced \o sc) \o sa = replaced \o (sc \o sa)
      BY <2>5
    <3> HIDE DEF sc, sa
    <3> QED
      BY <3>1, <3>2, <3>3, <3>4
  <2>8. ASSUME ~failed' PROVE replaced' = <<>> /\ Loggable(conv', saved')
    <3>1. replaced = <<>> /\ Loggable(conv, saved) /\ Loggable(a, f)
      BY <1>2, <2>1, <2>8
    <3> DEFINE m == Len(conv)
               n == Len(a)
    <3>2. /\ m \in Nat /\ n \in Nat /\ DOMAIN conv = 1..m /\ DOMAIN a = 1..n
          /\ Len(saved) = m /\ Len(f) = n /\ saved \in Seq(BOOLEAN)
      BY <1>1, <2>1 DEF Marks
    <3> HIDE DEF m, n
    <3>3. /\ DOMAIN (conv \o a) = 1..(m + n)
          /\ \A i \in 1..(m + n) :
               /\ (conv \o a)[i] = IF i <= m THEN conv[i] ELSE a[i - m]
               /\ (saved \o f)[i] = IF i <= m THEN saved[i] ELSE f[i - m]
      <4>1. /\ conv \o a \in Seq(Message) /\ Len(conv \o a) = m + n
            /\ \A i \in 1..(m + n) : (conv \o a)[i] = IF i <= m THEN conv[i] ELSE a[i - m]
        BY <1>1, ConcatProperties DEF m, n
      <4>2. \A i \in 1..(m + n) : (saved \o f)[i] = IF i <= m THEN saved[i] ELSE f[i - m]
        BY <3>2, ConcatProperties
      <4> DEFINE c == conv \o a
      <4> HIDE DEF c
      <4>3. DOMAIN c = 1..(m + n)
        BY <4>1 DEF c
      <4> QED
        BY <4>1, <4>2, <4>3 DEF c
    <3>4. ASSUME NEW i \in 1..(m + n)
          PROVE  (saved \o f)[i] \/ (conv \o a)[i].kind = "reminder"
      <4>1. CASE i <= m
        <5>1. i \in 1..m
          BY <3>2, <4>1
        <5> QED
          BY <3>1, <3>2, <3>3, <4>1, <5>1 DEF Loggable
      <4>2. CASE ~(i <= m)
        <5>1. i - m \in 1..n
          BY <3>2, <4>2
        <5> QED
          BY <3>1, <3>2, <3>3, <4>2, <5>1 DEF Loggable
      <4> QED
        BY <4>1, <4>2
    <3>5. Loggable(conv \o a, saved \o f)
      BY <3>3, <3>4 DEF Loggable
    <3> QED
      BY <2>1, <3>1, <3>5 DEF Added
  <2> QED
    BY <2>7, <2>8
<1>6. CASE Recorded
  <2>1. PICK from \in 1..Len(conv), of \in SUBSET Thing :
          /\ conv' = Kept(of, conv, from)
          /\ log' = Append(log, Boundary(of, SubSeq(conv, from, Len(conv))))
          /\ saved' = [i \in DOMAIN conv' |-> TRUE] /\ replaced' = <<>>
    BY <1>6 DEF Recorded
  <2>2. SubSeq(conv, from, Len(conv)) \in Seq(Message)
    BY <1>1, CutInTwo
  <2>3. Rebuilt' = conv'
    BY <1>1, <2>1, <2>2, CutIsRebuilt DEF Kept, Rebuilt
  <2>4. conv' \in Seq(Message)
    BY <1>6, TalkStep DEF TalkTyped
  <2>5. Saved(conv', saved') = conv'
    BY <2>1, <2>4, SavedWhole
  <2>6. <<>> \o conv' = conv'
    BY <2>4, ConcatEmptySeq
  <2>7. Loggable(conv', saved')
    BY <2>1 DEF Loggable
  <2> QED
    BY <2>1, <2>3, <2>5, <2>6, <2>7
<1>7. CASE Unrecorded
  <2>1. PICK from \in 1..Len(conv), of \in SUBSET Thing :
          /\ conv' = Kept(of, conv, from) /\ log' = log /\ failed'
          /\ saved' = <<FALSE>> \o SubSeq(saved, from, Len(conv))
          /\ replaced' = replaced \o Saved(SubSeq(conv, 1, from - 1), SubSeq(saved, 1, from - 1))
    BY <1>7 DEF Unrecorded
  <2> DEFINE m == Summary(of)
             keep == SubSeq(conv, from, Len(conv))
             fk == SubSeq(saved, from, Len(conv))
             before == SubSeq(conv, 1, from - 1)
             fb == SubSeq(saved, 1, from - 1)
             sb == Saved(before, fb)
             sk == Saved(keep, fk)
  <2>2. /\ keep \in Seq(Message) /\ Marks(keep, fk) /\ before \in Seq(Message)
        /\ Marks(before, fb) /\ conv = before \o keep /\ saved = fb \o fk
    BY <1>1, CutInTwo
  <2>3. /\ conv' = <<m>> \o keep /\ saved' = <<FALSE>> \o fk /\ replaced' = replaced \o sb
        /\ log' = log /\ failed'
    BY <2>1 DEF Kept
  <2>4. m \in Message
    BY Made
  <2> HIDE DEF m, keep, fk, before, fb
  <2>5. sb \in Seq(Message) /\ sk \in Seq(Message)
    BY <2>2, SavedTyped
  <2>6. Saved(conv, saved) = sb \o sk
    BY <2>2, SavedJoined
  <2>7. Saved(<<m>> \o keep, <<FALSE>> \o fk) = sk
    BY <2>2, <2>4, SavedBehind
  <2> HIDE DEF sb, sk
  <2>8. replaced \o (sb \o sk) = (replaced \o sb) \o sk
    BY <1>1, <2>5, Regrouped
  <2>9. Rebuilt' = Rebuilt
    BY <2>3 DEF Rebuilt
  <2>10. Rebuilt' = replaced' \o Saved(conv', saved')
    <3>1. Rebuilt' = replaced \o (sb \o sk)
      BY <1>2, <2>6, <2>9
    <3>2. Saved(conv', saved') = sk
      BY <2>3, <2>7
    <3> QED
      BY <2>3, <2>8, <3>1, <3>2
  <2> QED
    BY <2>3, <2>10
<1>8. CASE Resumed
  <2>1. Rebuilt' = Rebuilt
    BY <1>8 DEF Resumed, Rebuilt
  <2>2. conv' = Rebuilt /\ saved' = [i \in DOMAIN conv' |-> TRUE] /\ replaced' = <<>>
    BY <1>8 DEF Resumed
  <2>3. Saved(conv', saved') = conv'
    BY <1>1, <2>2, SavedWhole
  <2>4. <<>> \o conv' = conv'
    BY <1>1, <2>2, ConcatEmptySeq
  <2>5. Loggable(conv', saved')
    BY <2>2 DEF Loggable
  <2> QED
    BY <2>1, <2>2, <2>3, <2>4, <2>5
<1> QED
  BY <1>4, <1>5, <1>6, <1>7, <1>8

(* A session that is resumed from its log has every message that was        *)
(* recorded, in its order, and what a summary that was not recorded stands  *)
(* for, however often it is compacted, interrupted, killed and resumed and  *)
(* whatever writes fail; if none has failed, that is the conversation but   *)
(* for reminders (saveMessage, appendCompactBoundary, rebuildFromSession).  *)
THEOREM SessionCanBeResumed == Spec => []LogStandsIn
<1>1. Init => LogStandsIn
  <2>1. rebuildFromSession(<<>>) = <<>>
    BY DEF rebuildFromSession
  <2>2. Saved(<<>>, <<>>) = <<>>
    <3>1. <<>> \in Seq(Message) /\ DOMAIN <<>> = {}
      OBVIOUS
    <3>2. Cardinality({}) = 0
      BY FS_EmptySet
    <3>3. Saved(<<>>, <<>>) = Selected(<<>>, {})
      BY <3>1 DEF Saved
    <3>4. Selected(<<>>, {}) = [k \in 1..0 |-> <<>>[Nth({}, k)]]
      BY <3>2 DEF Selected
    <3> QED
      BY <3>3, <3>4
  <2> QED
    BY <2>1, <2>2 DEF Init, LogStandsIn
<1>2. Typed /\ LogStandsIn /\ [Next]_vars => LogStandsIn'
  BY TalkMoves, LogStep, FlagsStep DEF Typed
<1> QED
  BY <1>1, <1>2, AlwaysTyped, PTL DEF Spec
-----------------------------------------------------------------------------
(* Messages that are neither calls nor their results. *)
Plain(messages) == \A i \in DOMAIN messages : messages[i].kind \notin {"calls", "results"}

(* The results of the calls at i come later. *)
Answered(messages, i) ==
  \E j \in DOMAIN messages :
    /\ j > i /\ messages[j].kind = "results" /\ messages[j].id = messages[i].id
    /\ Len(messages[j].outs) = messages[i].n

(* What messages say of calls is true: the last response with calls has the *)
(* number last, the calls of the response in open are at work, those in     *)
(* started were started, and those of the responses in gone died.           *)
Honest(messages, last, open, started, gone) ==
  \A i \in DOMAIN messages :
    /\ messages[i].kind = "calls" =>
         /\ messages[i].id \in 1..last
         /\ \/ Answered(messages, i) \/ messages[i].id \in gone
            \/ <<messages[i].id, messages[i].n>> \in open
         /\ \A j \in DOMAIN messages :
              messages[j].kind = "calls" /\ messages[j].id = messages[i].id => i = j
    /\ messages[i].kind = "results" =>
         /\ messages[i].id \in 1..last
         /\ \A o \in open : o[1] # messages[i].id
         /\ \A p \in DOMAIN messages[i].outs :
              messages[i].outs[p] = "ran" <=> <<messages[i].id, p>> \in started

(* Results stand right after their calls, but for the responses in gone. *)
Adjacent(messages, gone) ==
  \A i \in DOMAIN messages :
    messages[i].kind = "results" /\ messages[i].id \notin gone =>
      i > 1 /\ messages[i - 1].kind = "calls" /\ messages[i - 1].id = messages[i].id

(* The positions of a sequence that is put together. *)
LEMMA Positioned ==
  ASSUME NEW a \in Seq(Message), NEW b \in Seq(Message)
  PROVE  /\ a \o b \in Seq(Message) /\ Len(a) \in Nat /\ Len(b) \in Nat
         /\ DOMAIN a = 1..Len(a) /\ DOMAIN b = 1..Len(b)
         /\ Len(a \o b) = Len(a) + Len(b)
         /\ DOMAIN (a \o b) = 1..(Len(a) + Len(b))
         /\ \A i \in 1..Len(a) : (a \o b)[i] = a[i]
         /\ \A i \in 1..Len(b) : (a \o b)[Len(a) + i] = b[i]
         /\ \A i \in 1..(Len(a) + Len(b)) :
              i \in 1..Len(a) \/ (i - Len(a) \in 1..Len(b) /\ (a \o b)[i] = b[i - Len(a)])
<1>1. /\ a \o b \in Seq(Message) /\ Len(a) \in Nat /\ Len(b) \in Nat
      /\ DOMAIN a = 1..Len(a) /\ DOMAIN b = 1..Len(b)
      /\ Len(a \o b) = Len(a) + Len(b)
      /\ DOMAIN (a \o b) = 1..(Len(a) + Len(b))
      /\ \A i \in 1..Len(a) : (a \o b)[i] = a[i]
      /\ \A i \in 1..Len(b) : (a \o b)[Len(a) + i] = b[i]
  OBVIOUS
<1> DEFINE c == a \o b
<1> HIDE DEF c
<1>2. ASSUME NEW i \in 1..(Len(a) + Len(b)), i \notin 1..Len(a)
      PROVE  i - Len(a) \in 1..Len(b) /\ c[i] = b[i - Len(a)]
  <2>1. i - Len(a) \in 1..Len(b) /\ i = Len(a) + (i - Len(a))
    BY <1>1, <1>2
  <2>2. c[Len(a) + (i - Len(a))] = b[i - Len(a)]
    BY <1>1, <2>1 DEF c
  <2> QED
    BY <2>1, <2>2
<1> QED
  BY <1>1, <1>2 DEF c

(* Other messages change nothing about what is said of calls. *)
LEMMA HonestChat ==
  ASSUME NEW a \in Seq(Message), NEW b \in Seq(Message), Plain(b),
         NEW last, NEW open, NEW started, NEW gone, Honest(a, last, open, started, gone)
  PROVE  Honest(a \o b, last, open, started, gone)
<1> DEFINE c == a \o b
<1>1. /\ Len(a) \in Nat /\ Len(b) \in Nat /\ DOMAIN a = 1..Len(a) /\ DOMAIN b = 1..Len(b)
      /\ DOMAIN c = 1..(Len(a) + Len(b))
      /\ \A i \in 1..Len(a) : c[i] = a[i]
      /\ \A i \in 1..(Len(a) + Len(b)) :
           i \in 1..Len(a) \/ (i - Len(a) \in 1..Len(b) /\ c[i] = b[i - Len(a)])
  BY Positioned
<1> HIDE DEF c
<1>2. \A i \in 1..Len(a) : i \in DOMAIN c
  BY <1>1
<1>3. \A i \in DOMAIN c : c[i].kind \in {"calls", "results"} => i \in 1..Len(a)
  BY <1>1 DEF Plain
<1>4. \A i \in 1..Len(a) : Answered(a, i) => Answered(c, i)
  BY <1>1, <1>2 DEF Answered
<1> QED
  BY <1>1, <1>3, <1>4 DEF Honest, c

LEMMA AdjacentChat ==
  ASSUME NEW a \in Seq(Message), NEW b \in Seq(Message), Plain(b), NEW gone, Adjacent(a, gone)
  PROVE  Adjacent(a \o b, gone)
<1> DEFINE c == a \o b
<1>1. /\ Len(a) \in Nat /\ Len(b) \in Nat /\ DOMAIN a = 1..Len(a) /\ DOMAIN b = 1..Len(b)
      /\ DOMAIN c = 1..(Len(a) + Len(b))
      /\ \A i \in 1..Len(a) : c[i] = a[i]
      /\ \A i \in 1..(Len(a) + Len(b)) :
           i \in 1..Len(a) \/ (i - Len(a) \in 1..Len(b) /\ c[i] = b[i - Len(a)])
  BY Positioned
<1> HIDE DEF c
<1>2. \A i \in DOMAIN c : c[i].kind = "results" => i \in 1..Len(a)
  BY <1>1 DEF Plain
<1>3. \A i \in 1..Len(a) : i > 1 => i - 1 \in 1..Len(a)
  BY <1>1
<1> QED
  BY <1>1, <1>2, <1>3 DEF Adjacent, c

(* A response with calls is received. *)
LEMMA HonestCall ==
  ASSUME NEW a \in Seq(Message), NEW last \in Nat, NEW n \in Nat, NEW started, NEW gone,
         Honest(a, last, {}, started, gone)
  PROVE  Honest(a \o <<Called(last + 1, n)>>, last + 1, {<<last + 1, n>>}, started, gone)
<1> DEFINE m == Called(last + 1, n)
           b == <<m>>
           c == a \o b
           t == last + 1
<1>1. m \in Message /\ m.kind = "calls" /\ m.id = t /\ m.n = n
  BY Made DEF Called
<1> HIDE DEF m
<1>2. b \in Seq(Message) /\ Len(b) = 1 /\ b[1] = m
  BY <1>1
<1> HIDE DEF b
<1>3. /\ Len(a) \in Nat /\ DOMAIN a = 1..Len(a)
      /\ DOMAIN c = 1..(Len(a) + 1) /\ c[Len(a) + 1] = m
      /\ \A i \in 1..Len(a) : c[i] = a[i]
  <2>1. /\ Len(a) \in Nat /\ DOMAIN a = 1..Len(a)
        /\ DOMAIN c = 1..(Len(a) + Len(b))
        /\ \A i \in 1..Len(a) : c[i] = a[i]
        /\ \A i \in 1..Len(b) : c[Len(a) + i] = b[i]
    BY <1>2, Positioned
  <2> HIDE DEF c
  <2> QED
    BY <1>2, <2>1
<1> HIDE DEF c
<1>4. /\ \A i \in 1..Len(a) : i \in DOMAIN c /\ i # Len(a) + 1
      /\ \A i \in DOMAIN c : i \in 1..Len(a) \/ i = Len(a) + 1
      /\ Len(a) + 1 \in DOMAIN c
  BY <1>3
<1>5. \A i \in 1..Len(a) : Answered(a, i) => Answered(c, i)
  BY <1>3, <1>4 DEF Answered
<1>6. t \in 1..t /\ t \notin 1..last /\ \A i \in 1..last : i \in 1..t
  OBVIOUS
<1> HIDE DEF t
<1>7. \A i \in 1..Len(a) : a[i].kind \in {"calls", "results"} => a[i].id # t /\ a[i].id \in 1..t
  BY <1>3, <1>6 DEF Honest
<1>8. ASSUME NEW i \in DOMAIN c, c[i].kind = "calls"
      PROVE  /\ c[i].id \in 1..t
             /\ Answered(c, i) \/ c[i].id \in gone \/ <<c[i].id, c[i].n>> \in {<<t, n>>}
             /\ \A j \in DOMAIN c : c[j].kind = "calls" /\ c[j].id = c[i].id => i = j
  <2>1. CASE i \in 1..Len(a)
    BY <1>1, <1>3, <1>4, <1>5, <1>7, <1>8, <2>1 DEF Honest
  <2>2. CASE i = Len(a) + 1
    BY <1>1, <1>3, <1>4, <1>6, <1>7, <1>8, <2>2
  <2> QED
    BY <1>4, <2>1, <2>2
<1>9. ASSUME NEW i \in DOMAIN c, c[i].kind = "results"
      PROVE  /\ c[i].id \in 1..t
             /\ \A o \in {<<t, n>>} : o[1] # c[i].id
             /\ \A p \in DOMAIN c[i].outs : c[i].outs[p] = "ran" <=> <<c[i].id, p>> \in started
  <2>1. i \in 1..Len(a)
    BY <1>1, <1>3, <1>4, <1>9
  <2> QED
    BY <1>3, <1>7, <1>9, <2>1 DEF Honest
<1>10. Honest(c, t, {<<t, n>>}, started, gone)
  BY <1>8, <1>9 DEF Honest
<1> QED
  BY <1>10 DEF c, b, m, t

(* The results of the last response with calls are recorded. *)
LEMMA HonestResults ==
  ASSUME NEW a \in Seq(Message), NEW last \in Nat \ {0}, NEW outs \in Seq(Settled),
         NEW started, NEW gone,
         Honest(a, last, {<<last, Len(outs)>>}, started, gone),
         \A p \in DOMAIN outs : outs[p] = "ran" <=> <<last, p>> \in started
  PROVE  Honest(a \o <<Results(last, outs)>>, last, {}, started, gone)
<1> DEFINE m == Results(last, outs)
           b == <<m>>
           c == a \o b
<1>1. m \in Message /\ m.kind = "results" /\ m.id = last /\ m.outs = outs
  BY Made DEF Results
<1> HIDE DEF m
<1>2. b \in Seq(Message) /\ Len(b) = 1 /\ b[1] = m
  BY <1>1
<1> HIDE DEF b
<1>3. /\ Len(a) \in Nat /\ DOMAIN a = 1..Len(a)
      /\ DOMAIN c = 1..(Len(a) + 1) /\ c[Len(a) + 1] = m
      /\ \A i \in 1..Len(a) : c[i] = a[i]
  <2>1. /\ Len(a) \in Nat /\ DOMAIN a = 1..Len(a)
        /\ DOMAIN c = 1..(Len(a) + Len(b))
        /\ \A i \in 1..Len(a) : c[i] = a[i]
        /\ \A i \in 1..Len(b) : c[Len(a) + i] = b[i]
    BY <1>2, Positioned
  <2> HIDE DEF c
  <2> QED
    BY <1>2, <2>1
<1> HIDE DEF c
<1>4. /\ \A i \in 1..Len(a) : i \in DOMAIN c /\ i < Len(a) + 1
      /\ \A i \in DOMAIN c : i \in 1..Len(a) \/ i = Len(a) + 1
      /\ Len(a) + 1 \in DOMAIN c
  BY <1>3
<1>5. \A i \in 1..Len(a) : Answered(a, i) => Answered(c, i)
  BY <1>3, <1>4 DEF Answered
<1>6. ASSUME NEW i \in 1..Len(a), <<a[i].id, a[i].n>> \in {<<last, Len(outs)>>}
      PROVE  Answered(c, i)
  <2>1. a[i].id = last /\ a[i].n = Len(outs)
    BY <1>6
  <2>2. Len(a) + 1 > i
    BY <1>3
  <2> QED
    BY <1>1, <1>3, <1>4, <2>1, <2>2 DEF Answered
<1>7. ASSUME NEW i \in DOMAIN c, c[i].kind = "calls"
      PROVE  /\ c[i].id \in 1..last
             /\ Answered(c, i) \/ c[i].id \in gone
             /\ \A j \in DOMAIN c : c[j].kind = "calls" /\ c[j].id = c[i].id => i = j
  <2>1. i \in 1..Len(a) /\ c[i] = a[i]
    BY <1>1, <1>3, <1>4, <1>7
  <2>2. \A j \in DOMAIN c : c[j].kind = "calls" => j \in 1..Len(a) /\ c[j] = a[j]
    BY <1>1, <1>3, <1>4
  <2> QED
    BY <1>3, <1>5, <1>6, <1>7, <2>1, <2>2 DEF Honest
<1>8. ASSUME NEW i \in DOMAIN c, c[i].kind = "results"
      PROVE  /\ c[i].id \in 1..last
             /\ \A p \in DOMAIN c[i].outs : c[i].outs[p] = "ran" <=> <<c[i].id, p>> \in started
  <2>1. CASE i \in 1..Len(a)
    BY <1>3, <1>8, <2>1 DEF Honest
  <2>2. CASE i = Len(a) + 1
    BY <1>1, <1>3, <2>2
  <2> QED
    BY <1>4, <2>1, <2>2
<1>9. Honest(c, last, {}, started, gone)
  BY <1>7, <1>8 DEF Honest
<1> QED
  BY <1>9 DEF c, b, m

(* A response with calls is received, and is not among the messages. *)
LEMMA HonestLater ==
  ASSUME NEW a \in Seq(Message), NEW last \in Nat, NEW n \in Nat, NEW started, NEW gone,
         Honest(a, last, {}, started, gone)
  PROVE  Honest(a, last + 1, {<<last + 1, n>>}, started, gone)
<1> DEFINE t == last + 1
<1>1. \A i \in 1..last : i \in 1..t /\ i # t
  OBVIOUS
<1> HIDE DEF t
<1>2. Honest(a, t, {<<t, n>>}, started, gone)
  BY <1>1 DEF Honest
<1> QED
  BY <1>2 DEF t

(* What a compaction leaves: the summary and the messages from a position on. *)
LEMMA TailPositions ==
  ASSUME NEW a \in Seq(Message), NEW from \in 1..Len(a), NEW of \in SUBSET Thing
  PROVE  LET c == Kept(of, a, from)
         IN /\ c \in Seq(Message) /\ c[1].kind = "summary" /\ Len(c) \in Nat
            /\ DOMAIN a = 1..Len(a) /\ DOMAIN c = 1..Len(c) /\ Len(a) \in Nat
            /\ \A i \in DOMAIN c : i # 1 =>
                 /\ i + (from - 2) \in DOMAIN a /\ i + (from - 2) >= from
                 /\ c[i] = a[i + (from - 2)]
            /\ \A j \in DOMAIN a : j >= from =>
                 /\ j - (from - 2) \in DOMAIN c /\ j - (from - 2) # 1
                 /\ (j - (from - 2)) + (from - 2) = j
                 /\ c[j - (from - 2)] = a[j]
<1> DEFINE c == Kept(of, a, from)
           m == Summary(of)
           s == SubSeq(a, from, Len(a))
           b == <<m>>
<1>1. m \in Message /\ m.kind = "summary"
  BY Made DEF Summary
<1> HIDE DEF m
<1>2. b \in Seq(Message) /\ Len(b) = 1 /\ b[1] = m
  BY <1>1
<1>3. Len(a) \in Nat /\ DOMAIN a = 1..Len(a) /\ from \in Nat /\ from >= 1 /\ from <= Len(a)
  OBVIOUS
<1>4. /\ s \in Seq(Message) /\ Len(s) = Len(a) - from + 1
      /\ \A i \in 1..(Len(a) - from + 1) : s[i] = a[from + i - 1]
  <2>1. \A i \in from..Len(a) : i \in 1..Len(a) /\ a[i] \in Message
    BY <1>3
  <2>2. from \in Int /\ Len(a) \in Int /\ from <= Len(a)
    BY <1>3
  <2> QED
    BY <2>1, <2>2, SubSeqProperties
<1> HIDE DEF s, b
<1>5. /\ c \in Seq(Message) /\ Len(b) \in Nat /\ Len(s) \in Nat
      /\ Len(c) = Len(b) + Len(s) /\ DOMAIN c = 1..(Len(b) + Len(s))
      /\ \A i \in 1..Len(b) : c[i] = b[i]
      /\ \A i \in 1..Len(s) : c[Len(b) + i] = s[i]
  <2>1. c = b \o s
    BY DEF Kept, m, s, b
  <2>2. /\ b \o s \in Seq(Message) /\ Len(b) \in Nat /\ Len(s) \in Nat
        /\ Len(b \o s) = Len(b) + Len(s) /\ DOMAIN (b \o s) = 1..(Len(b) + Len(s))
        /\ \A i \in 1..Len(b) : (b \o s)[i] = b[i]
        /\ \A i \in 1..Len(s) : (b \o s)[Len(b) + i] = s[i]
    BY <1>2, <1>4, Positioned
  <2> HIDE DEF c
  <2> QED
    BY <2>1, <2>2
<1> HIDE DEF c
<1>6. ASSUME NEW i \in DOMAIN c, i # 1
      PROVE  /\ i + (from - 2) \in DOMAIN a /\ i + (from - 2) >= from
             /\ c[i] = a[i + (from - 2)]
  <2>1. /\ i - 1 \in 1..Len(s) /\ i - 1 \in 1..(Len(a) - from + 1) /\ i = Len(b) + (i - 1)
        /\ from + (i - 1) - 1 = i + (from - 2)
        /\ i + (from - 2) \in DOMAIN a /\ i + (from - 2) >= from
    <3>1. /\ i \in Int /\ i >= 1 /\ i # 1 /\ i <= 1 + (Len(a) - from + 1)
          /\ Len(b) = 1 /\ Len(s) = Len(a) - from + 1
      BY <1>2, <1>3, <1>4, <1>5, <1>6
    <3>2. i - 1 \in 1..Len(s) /\ i - 1 \in 1..(Len(a) - from + 1)
      BY <1>3, <3>1
    <3>3. i + (from - 2) \in 1..Len(a) /\ i + (from - 2) >= from
      BY <1>3, <3>1
    <3>4. i = Len(b) + (i - 1) /\ from + (i - 1) - 1 = i + (from - 2)
      BY <1>3, <3>1
    <3> QED
      BY <1>3, <3>2, <3>3, <3>4
  <2>2. c[Len(b) + (i - 1)] = s[i - 1] /\ s[i - 1] = a[from + (i - 1) - 1]
    BY <1>4, <1>5, <2>1
  <2> QED
    BY <2>1, <2>2
<1>7. ASSUME NEW j \in DOMAIN a, j >= from
      PROVE  /\ j - (from - 2) \in DOMAIN c /\ j - (from - 2) # 1
             /\ (j - (from - 2)) + (from - 2) = j
             /\ c[j - (from - 2)] = a[j]
  <2>1. /\ j - (from - 2) \in DOMAIN c /\ j - (from - 2) # 1
        /\ (j - (from - 2)) + (from - 2) = j
    BY <1>2, <1>3, <1>4, <1>5, <1>7
  <2> QED
    BY <1>6, <2>1
<1>8. c[1] = m
  BY <1>2, <1>5
<1>9. Len(c) \in Nat /\ DOMAIN c = 1..Len(c)
  BY <1>5
<1> QED
  BY <1>1, <1>3, <1>5, <1>6, <1>7, <1>8, <1>9 DEF c

LEMMA HonestTail ==
  ASSUME NEW a \in Seq(Message), NEW from \in 1..Len(a), NEW of \in SUBSET Thing,
         NEW last, NEW open, NEW started, NEW gone, Honest(a, last, open, started, gone)
  PROVE  Honest(Kept(of, a, from), last, open, started, gone)
<1> DEFINE c == Kept(of, a, from)
           k == from - 2
           to(j) == j - k
<1>1. /\ c[1].kind = "summary" /\ DOMAIN a = 1..Len(a) /\ DOMAIN c = 1..Len(c)
      /\ Len(a) \in Nat /\ Len(c) \in Nat
      /\ \A i \in DOMAIN c : i # 1 => i + k \in DOMAIN a /\ i + k >= from /\ c[i] = a[i + k]
      /\ \A j \in DOMAIN a : j >= from =>
           to(j) \in DOMAIN c /\ to(j) # 1 /\ to(j) + k = j /\ c[to(j)] = a[j]
  BY TailPositions
<1>2. k \in Int /\ from \in Int
  OBVIOUS
<1> HIDE DEF c, k, to
<1>3. \A i \in DOMAIN c : c[i].kind \in {"calls", "results"} => i # 1
  BY <1>1
<1>4. ASSUME NEW i \in DOMAIN c, i # 1, Answered(a, i + k) PROVE Answered(c, i)
  <2>1. i + k \in DOMAIN a /\ i + k >= from /\ c[i] = a[i + k] /\ i \in Int
    BY <1>1, <1>4
  <2>2. PICK j \in DOMAIN a :
          /\ j > i + k /\ a[j].kind = "results" /\ a[j].id = a[i + k].id
          /\ Len(a[j].outs) = a[i + k].n
    BY <1>4 DEF Answered
  <2>3. j >= from /\ j \in Int
    BY <1>1, <1>2, <2>1, <2>2
  <2>4. to(j) \in DOMAIN c /\ to(j) + k = j /\ c[to(j)] = a[j]
    BY <1>1, <2>3
  <2>5. to(j) > i
    BY <1>1, <1>2, <2>1, <2>2, <2>4
  <2> QED
    BY <2>1, <2>2, <2>4, <2>5 DEF Answered
<1>5. ASSUME NEW i \in DOMAIN c, c[i].kind = "calls"
      PROVE  /\ c[i].id \in 1..last
             /\ Answered(c, i) \/ c[i].id \in gone \/ <<c[i].id, c[i].n>> \in open
             /\ \A j \in DOMAIN c : c[j].kind = "calls" /\ c[j].id = c[i].id => i = j
  <2>1. i # 1 /\ i + k \in DOMAIN a /\ c[i] = a[i + k]
    BY <1>1, <1>3, <1>5
  <2>2. ASSUME NEW j \in DOMAIN c, c[j].kind = "calls", c[j].id = c[i].id PROVE i = j
    <3>1. j # 1 /\ j + k \in DOMAIN a /\ c[j] = a[j + k]
      BY <1>1, <1>3, <2>2
    <3>2. i + k = j + k
      BY <1>5, <2>1, <2>2, <3>1 DEF Honest
    <3> QED
      BY <1>1, <1>2, <3>2
  <2> QED
    BY <1>4, <1>5, <2>1, <2>2 DEF Honest
<1>6. ASSUME NEW i \in DOMAIN c, c[i].kind = "results"
      PROVE  /\ c[i].id \in 1..last
             /\ \A o \in open : o[1] # c[i].id
             /\ \A p \in DOMAIN c[i].outs : c[i].outs[p] = "ran" <=> <<c[i].id, p>> \in started
  <2>1. i # 1 /\ i + k \in DOMAIN a /\ c[i] = a[i + k]
    BY <1>1, <1>3, <1>6
  <2> QED
    BY <1>6, <2>1 DEF Honest
<1> QED
  BY <1>5, <1>6 DEF Honest, c

(* A tail that does not start with results keeps results beside their calls. *)
LEMMA AdjacentTail ==
  ASSUME NEW a \in Seq(Message), NEW from \in 1..Len(a), NEW of \in SUBSET Thing,
         NEW gone, Adjacent(a, gone), a[from].kind = "results" => a[from].id \in gone
  PROVE  Adjacent(Kept(of, a, from), gone)
<1> DEFINE c == Kept(of, a, from)
           k == from - 2
<1>1. /\ c[1].kind = "summary" /\ DOMAIN a = 1..Len(a) /\ DOMAIN c = 1..Len(c)
      /\ Len(a) \in Nat /\ Len(c) \in Nat
      /\ \A i \in DOMAIN c : i # 1 => i + k \in DOMAIN a /\ i + k >= from /\ c[i] = a[i + k]
  BY TailPositions
<1>2. k \in Int /\ from \in Int /\ k = from - 2
  OBVIOUS
<1> HIDE DEF c, k
<1>3. ASSUME NEW i \in DOMAIN c, c[i].kind = "results", c[i].id \notin gone
      PROVE  i > 1 /\ c[i - 1].kind = "calls" /\ c[i - 1].id = c[i].id
  <2>1. i # 1 /\ i + k \in DOMAIN a /\ i + k >= from /\ c[i] = a[i + k] /\ i \in Int /\ i >= 1
    BY <1>1, <1>3
  <2>2. i + k # from
    BY <1>3, <2>1
  <2>3. i - 1 \in DOMAIN c /\ i - 1 # 1 /\ (i - 1) + k = (i + k) - 1
    <3>1. i \in Int /\ i > 2 /\ i <= Len(c)
      BY <1>1, <1>2, <2>1, <2>2
    <3> QED
      BY <1>1, <1>2, <3>1
  <2>4. c[i - 1] = a[(i + k) - 1]
    BY <1>1, <2>3
  <2>5. i + k > 1 /\ a[(i + k) - 1].kind = "calls" /\ a[(i + k) - 1].id = a[i + k].id
    BY <1>3, <2>1 DEF Adjacent
  <2> QED
    BY <1>1, <2>1, <2>3, <2>4, <2>5
<1> QED
  BY <1>3 DEF Adjacent, c

(* Results go right after their calls. *)
LEMMA AdjacentResults ==
  ASSUME NEW a \in Seq(Message), NEW id \in Nat, NEW n, NEW outs \in Seq(Settled),
         NEW gone, Adjacent(a, gone),
         id \in gone \/ (a # <<>> /\ a[Len(a)] = Called(id, n))
  PROVE  Adjacent(a \o <<Results(id, outs)>>, gone)
<1> DEFINE m == Results(id, outs)
           b == <<m>>
           c == a \o b
<1>1. m \in Message /\ m.kind = "results" /\ m.id = id
  BY Made DEF Results
<1> HIDE DEF m
<1>2. b \in Seq(Message) /\ Len(b) = 1 /\ b[1] = m
  BY <1>1
<1> HIDE DEF b
<1>3. /\ Len(a) \in Nat /\ DOMAIN a = 1..Len(a)
      /\ DOMAIN c = 1..(Len(a) + 1) /\ c[Len(a) + 1] = m
      /\ \A i \in 1..Len(a) : c[i] = a[i]
  <2>1. /\ Len(a) \in Nat /\ DOMAIN a = 1..Len(a)
        /\ DOMAIN c = 1..(Len(a) + Len(b))
        /\ \A i \in 1..Len(a) : c[i] = a[i]
        /\ \A i \in 1..Len(b) : c[Len(a) + i] = b[i]
    BY <1>2, Positioned
  <2> HIDE DEF c
  <2> QED
    BY <1>2, <2>1
<1> HIDE DEF c
<1>4. id \notin gone => Len(a) >= 1
  BY EmptySeq
<1>5. id \notin gone => a[Len(a)].kind = "calls" /\ a[Len(a)].id = id
  BY DEF Called
<1>6. ASSUME NEW i \in DOMAIN c, c[i].kind = "results", c[i].id \notin gone
      PROVE  i > 1 /\ c[i - 1].kind = "calls" /\ c[i - 1].id = c[i].id
  <2>1. CASE i = Len(a) + 1
    <3>1. id \notin gone
      BY <1>1, <1>3, <1>6, <2>1
    <3>2. i - 1 = Len(a) /\ Len(a) \in 1..Len(a) /\ i > 1
      BY <1>3, <1>4, <2>1, <3>1
    <3>3. c[i - 1] = a[Len(a)] /\ c[i] = m
      BY <1>3, <2>1, <3>2
    <3> QED
      BY <1>1, <1>5, <3>1, <3>2, <3>3
  <2>2. CASE i \in 1..Len(a)
    <3>1. c[i] = a[i] /\ i \in DOMAIN a
      BY <1>3, <2>2
    <3>2. i > 1 /\ a[i - 1].kind = "calls" /\ a[i - 1].id = a[i].id
      BY <1>6, <3>1 DEF Adjacent
    <3>3. i - 1 \in 1..Len(a)
      BY <1>3, <2>2, <3>2
    <3> QED
      BY <1>3, <3>1, <3>2, <3>3
  <2> QED
    BY <1>3, <2>1, <2>2
<1> QED
  BY <1>6 DEF Adjacent, c, b, m

(* A response with calls comes after everything else. *)
LEMMA AdjacentCall ==
  ASSUME NEW a \in Seq(Message), NEW id \in Nat, NEW n \in Nat, NEW gone, Adjacent(a, gone)
  PROVE  LET c == a \o <<Called(id, n)>>
         IN Adjacent(c, gone) /\ c # <<>> /\ c[Len(c)] = Called(id, n)
<1> DEFINE m == Called(id, n)
           b == <<m>>
           c == a \o b
<1>1. m \in Message /\ m.kind = "calls"
  BY Made DEF Called
<1> HIDE DEF m
<1>2. b \in Seq(Message) /\ Len(b) = 1 /\ b[1] = m
  BY <1>1
<1> HIDE DEF b
<1>3. /\ Len(a) \in Nat /\ DOMAIN a = 1..Len(a) /\ Len(c) = Len(a) + 1
      /\ DOMAIN c = 1..(Len(a) + 1) /\ c[Len(a) + 1] = m
      /\ \A i \in 1..Len(a) : c[i] = a[i]
  <2>1. /\ Len(a) \in Nat /\ DOMAIN a = 1..Len(a) /\ Len(c) = Len(a) + Len(b)
        /\ DOMAIN c = 1..(Len(a) + Len(b))
        /\ \A i \in 1..Len(a) : c[i] = a[i]
        /\ \A i \in 1..Len(b) : c[Len(a) + i] = b[i]
    BY <1>2, Positioned
  <2> HIDE DEF c
  <2> QED
    BY <1>2, <2>1
<1> HIDE DEF c
<1>4. c # <<>> /\ c[Len(c)] = m
  BY <1>3
<1>5. ASSUME NEW i \in DOMAIN c, c[i].kind = "results", c[i].id \notin gone
      PROVE  i > 1 /\ c[i - 1].kind = "calls" /\ c[i - 1].id = c[i].id
  <2>1. i \in 1..Len(a)
    BY <1>1, <1>3, <1>5
  <2>2. c[i] = a[i] /\ i \in DOMAIN a
    BY <1>3, <2>1
  <2>3. i > 1 /\ a[i - 1].kind = "calls" /\ a[i - 1].id = a[i].id
    BY <1>5, <2>2 DEF Adjacent
  <2>4. i - 1 \in 1..Len(a)
    BY <1>3, <2>1, <2>3
  <2> QED
    BY <1>3, <2>2, <2>3, <2>4
<1>6. Adjacent(c, gone)
  BY <1>5 DEF Adjacent
<1> QED
  BY <1>4, <1>6 DEF c, b, m

(* More calls of the response at work are started. *)
LEMMA HonestStarts ==
  ASSUME NEW a \in Seq(Message), NEW last, NEW n, NEW started, NEW more, NEW gone,
         Honest(a, last, {<<last, n>>}, started, gone),
         \A x \in more : x[1] = last
  PROVE  Honest(a, last, {<<last, n>>}, started \cup more, gone)
<1>1. ASSUME NEW i \in DOMAIN a, a[i].kind = "results", NEW p
      PROVE  <<a[i].id, p>> \in started \cup more <=> <<a[i].id, p>> \in started
  <2>1. a[i].id # last
    BY <1>1 DEF Honest
  <2>2. <<a[i].id, p>> \notin more
    BY <2>1
  <2> QED
    BY <2>2
<1> QED
  BY <1>1 DEF Honest

(* The response at work dies with its process, or is not recorded. *)
LEMMA HonestDies ==
  ASSUME NEW a \in Seq(Message), NEW last, NEW open, NEW started, NEW gone, NEW all,
         Honest(a, last, open, started, gone),
         \A o \in open : o[1] \in all, gone \subseteq all
  PROVE  Honest(a, last, {}, started, all)
<1>1. ASSUME NEW i \in DOMAIN a, <<a[i].id, a[i].n>> \in open PROVE a[i].id \in all
  BY <1>1
<1> QED
  BY <1>1 DEF Honest

LEMMA MoreGone ==
  ASSUME NEW a \in Seq(Message), NEW last, NEW open, NEW started, NEW gone, NEW all,
         gone \subseteq all
  PROVE  /\ Honest(a, last, open, started, gone) => Honest(a, last, open, started, all)
         /\ Adjacent(a, gone) => Adjacent(a, all)
BY DEF Honest, Adjacent
-----------------------------------------------------------------------------
(* The calls that are at work. *)
AtWork == IF pc = "tools" THEN {<<turn, Len(calls)>>} ELSE {}

(* What the conversation says of calls is true, and so it would be after a   *)
(* resume.                                                                  *)
ToldTruly ==
  Honest(conv, turn, AtWork, ran, broken) /\ Honest(Rebuilt, turn, AtWork, ran, broken)
StartsTrue ==
  pc = "tools" =>
    \A p \in DOMAIN calls : calls[p] \in {"running", "ran"} <=> <<turn, p>> \in ran
EndsIn(messages, m) == messages # <<>> /\ messages[Len(messages)] = m
SideBySide ==
  counts.reminders = 0 =>
    /\ Adjacent(conv, broken) /\ Adjacent(Rebuilt, broken)
    /\ pc = "tools" =>
         /\ EndsIn(conv, Called(turn, Len(calls)))
         /\ turn \in broken \/ EndsIn(Rebuilt, Called(turn, Len(calls)))
(* A tail that starts with results has their calls nowhere before it. *)
TailWhole ==
  pc = "summing" =>
    (compact.seen[compact.from].kind = "results" =>
       \A i \in 1..compact.from - 1 : ~(/\ compact.seen[i].kind = "calls"
                                        /\ compact.seen[i].id = compact.seen[compact.from].id))

(* What a step does to the calls and to what is said of them. *)
Still ==
  /\ UNCHANGED <<conv, log, calls, turn, ran, broken>> /\ (pc' = "tools" <=> pc = "tools")
  /\ counts'.reminders = counts.reminders
Chat ==
  \E a \in Seq(Message), f \in Seq(BOOLEAN) : Plain(a) /\ Marks(a, f) /\ Added(a, f)
Chatted ==
  /\ pc # "tools" /\ pc' # "tools" /\ UNCHANGED <<turn, ran, broken>>
  /\ counts'.reminders = counts.reminders
  /\ Chat
Shortened ==
  /\ pc # "tools" /\ pc' # "tools" /\ UNCHANGED <<turn, ran, broken>>
  /\ counts'.reminders = counts.reminders
  /\ \E from \in 1..Len(conv), of \in SUBSET Thing :
       /\ conv' = Kept(of, conv, from)
       /\ Rebuilt' \in {Rebuilt, conv'}
       /\ pc = "summing" /\ from = compact.from /\ compact.seen = conv
ToolStep == Settle \/ Ask \/ Refuse \/ Launch \/ RunBatch \/ ToolEnds

LEMMA Chats ==
  /\ \A n : Plain(<<Text(n)>>) /\ Plain(<<Note(n)>>)
  /\ \A queue \in Seq(Given) : Plain(Notes(queue))
  /\ Plain(<<Words>>) /\ Plain(<<Words, Resume>>) /\ Plain(<<>>)
BY DEF Plain, Text, Note, Words, Resume, Numbered, Notes

(* What is said, or tried to be said, beside calls and their results. *)
LEMMA ChatIsSaid ==
  ASSUME Typed, [Next]_vars, NEW messages \in Seq(Message), Plain(messages),
         Say(messages) \/ SayFails(messages)
  PROVE  Chat
<1>1. FlagsTyped /\ (failed => failed')
  BY FlagsStep DEF Typed
<1>2. CASE Say(messages)
  <2>1. PICK f \in Seq(BOOLEAN) : Marks(messages, f) /\ Added(messages, f)
    BY <1>1, <1>2, SaidWhole
  <2> QED
    BY <2>1 DEF Chat
<1>3. CASE SayFails(messages)
  <2>1. PICK n \in DOMAIN messages, f \in Seq(BOOLEAN) :
          Marks(SubSeq(messages, 1, n), f) /\ Added(SubSeq(messages, 1, n), f)
    BY <1>1, <1>3, SaidAndFailed
  <2> DEFINE a == SubSeq(messages, 1, n)
  <2>2. a \in Seq(Message) /\ DOMAIN a = 1..n /\ \A i \in 1..n : a[i] = messages[i]
    <3>1. n \in 1..Len(messages) /\ \A i \in 1..n : i \in DOMAIN messages
      OBVIOUS
    <3>2. \A i \in 1..n : messages[i] \in Message
      BY <3>1
    <3> QED
      BY <3>1, <3>2
  <2>3. Plain(a)
    <3> HIDE DEF a
    <3>1. \A i \in 1..n : i \in DOMAIN messages
      OBVIOUS
    <3> QED
      BY <2>2, <3>1 DEF Plain
  <2> HIDE DEF a
  <2>4. Marks(a, f) /\ Added(a, f)
    BY <2>1 DEF a
  <2> QED
    BY <2>2, <2>3, <2>4 DEF Chat
<1> QED
  BY <1>2, <1>3

(* A message that is said goes to the end of the conversation, and to that *)
(* of the log unless a line is torn or the write fails.                    *)
LEMMA OneIsSaid ==
  ASSUME Typed, [Next]_vars, NEW m \in Message, Say(<<m>>) \/ SayFails(<<m>>)
  PROVE  /\ conv' = conv \o <<m>> /\ (Rebuilt' = Rebuilt \/ Rebuilt' = Rebuilt \o <<m>>)
         /\ Say(<<m>>) /\ ~torn => Rebuilt' = Rebuilt \o <<m>>
<1> DEFINE a == <<m>>
<1>1. a \in Seq(Message) /\ Len(a) = 1 /\ DOMAIN a = {1} /\ SubSeq(a, 1, 1) = a
      /\ SubSeq(a, 1, 0) = <<>>
  <2>1. a \in Seq(Message) /\ Len(a) = 1 /\ DOMAIN a = {1}
    OBVIOUS
  <2> HIDE DEF a
  <2>2. SubSeq(a, 1, Len(a)) = a /\ SubSeq(a, 1, 0) = <<>>
    BY <2>1
  <2> QED
    BY <2>1, <2>2
<1> HIDE DEF a
<1>2. FlagsTyped /\ (failed => failed')
  BY FlagsStep DEF Typed
<1>3. \E f \in Seq(BOOLEAN) :
        Marks(a, f) /\ Added(a, f) /\ (Say(a) /\ ~torn => f = [i \in DOMAIN a |-> TRUE])
  <2>1. CASE Say(a)
    BY <1>1, <1>2, <2>1, SaidWhole
  <2>2. CASE SayFails(a) /\ ~Say(a)
    <3>1. PICK n \in DOMAIN a, f \in Seq(BOOLEAN) :
            Marks(SubSeq(a, 1, n), f) /\ Added(SubSeq(a, 1, n), f)
      BY <1>1, <1>2, <2>2, SaidAndFailed
    <3>2. n = 1
      BY <1>1
    <3> QED
      BY <1>1, <2>2, <3>1, <3>2
  <2> QED
    BY <2>1, <2>2 DEF a
<1>4. PICK f \in Seq(BOOLEAN) :
        Marks(a, f) /\ Added(a, f) /\ (Say(a) /\ ~torn => f = [i \in DOMAIN a |-> TRUE])
  BY <1>3
<1>5. Saved(a, f) \in {<<>>, a} /\ (Say(a) /\ ~torn => Saved(a, f) = a)
  <2>1. CASE f[1]
    <3>1. \A i \in DOMAIN a : f[i] <=> (1 <= i /\ i <= 1)
      BY <1>1, <2>1
    <3>2. 1 \in Nat \ {0} /\ 1 \in 0..Len(a) /\ 1 <= 1 + 1
      BY <1>1
    <3>3. Saved(a, f) = SubSeq(a, 1, 1)
      BY <1>1, <3>1, <3>2, SavedStretch
    <3> QED
      BY <1>1, <3>3
  <2>2. CASE ~f[1]
    <3>1. 1 \in Nat \ {0} /\ 0 \in 0..Len(a)
      BY <1>1
    <3>2. Saved(a, f) = SubSeq(a, 1, 0)
      <4>1. PICK lo \in Nat \ {0}, hi \in 0..Len(a) : lo = 1 /\ hi = 0
        BY <3>1
      <4>2. lo <= hi + 1 /\ \A i \in DOMAIN a : f[i] <=> (lo <= i /\ i <= hi)
        BY <1>1, <2>2, <4>1
      <4>3. a \in Seq(Message)
        BY <1>1
      <4>4. Saved(a, f) = SubSeq(a, lo, hi)
        BY <4>2, <4>3, SavedStretch
      <4> QED
        BY <4>1, <4>4
    <3>3. ~(Say(a) /\ ~torn)
      BY <1>1, <1>4, <2>2
    <3> QED
      BY <1>1, <3>2, <3>3
  <2> QED
    BY <2>1, <2>2
<1>6. log \in Seq(Entry) /\ Rebuilt \in Seq(Message) /\ Saved(a, f) \in Seq(Message)
  BY <1>1, SavedTyped, RebuiltTyped DEF Typed, TalkTyped, Rebuilt
<1>7. Rebuilt' = Rebuilt \o Saved(a, f)
  <2>1. rebuildFromSession(log \o Saved(a, f)) = rebuildFromSession(log) \o Saved(a, f)
    BY <1>6, SaidIsRebuilt
  <2>2. Rebuilt' = rebuildFromSession(log \o Saved(a, f))
    BY <1>4 DEF Added, Rebuilt
  <2> QED
    BY <2>1, <2>2 DEF Rebuilt
<1>8. Rebuilt \o <<>> = Rebuilt
  BY <1>6, ConcatEmptySeq
<1>9. conv' = conv \o a
  BY <1>4 DEF Added
<1> QED
  BY <1>5, <1>7, <1>8, <1>9 DEF a

(* A chat adds messages that are neither calls nor results to both. *)
LEMMA ChatIsPlain ==
  ASSUME Typed, Chat
  PROVE  \E a \in Seq(Message), b \in Seq(Message) :
           Plain(a) /\ Plain(b) /\ conv' = conv \o a /\ Rebuilt' = Rebuilt \o b
<1>1. PICK a \in Seq(Message), f \in Seq(BOOLEAN) : Plain(a) /\ Marks(a, f) /\ Added(a, f)
  BY DEF Chat
<1>2. PICK b \in Seq(Message) : b = Saved(a, f)
  BY SavedTyped
<1>3. Plain(b)
  <2> DEFINE P == {i \in DOMAIN a : f[i]}
  <2>1. P \in SUBSET DOMAIN a
    OBVIOUS
  <2>2. b = Selected(a, P)
    BY <1>2 DEF Saved
  <2> HIDE DEF P
  <2>3. \A k \in DOMAIN b : Nth(P, k) \in DOMAIN a /\ b[k] = a[Nth(P, k)]
    BY <2>1, <2>2, Chosen
  <2> QED
    BY <1>1, <2>3 DEF Plain
<1>4. Rebuilt' = Rebuilt \o b
  <2>1. log \in Seq(Entry) /\ log' = log \o b
    BY <1>1, <1>2 DEF Added, Typed, TalkTyped
  <2>2. rebuildFromSession(log \o b) = rebuildFromSession(log) \o b
    BY <2>1, SaidIsRebuilt
  <2> QED
    BY <2>1, <2>2 DEF Rebuilt
<1> QED
  BY <1>1, <1>3, <1>4 DEF Added

LEMMA Cuts ==
  ASSUME Typed, [Next]_vars, Summarized \/ BoundaryFails
  PROVE  Shortened
<1>1. counts'.reminders = counts.reminders
  BY EventCounts DEF Typed, Summarized, BoundaryFails
<1>2. /\ pc = "summing" /\ pc' # "tools" /\ UNCHANGED <<turn, ran, broken>>
      /\ Unchanged(compact.seen)
  BY DEF Summarized, BoundaryFails, Request, Goto, turnVars, history
<1>3. PICK written \in BOOLEAN, part \in BOOLEAN : Shorten(written, part)
  BY DEF Summarized, BoundaryFails
<1> DEFINE from == compact.from
           of == Known(SubSeq(conv, 1, from - 1))
           keep == SubSeq(conv, from, Len(conv))
<1>4. conv \in Seq(Message) /\ log \in Seq(Entry) /\ compact.seen = conv /\ from \in 1..Len(conv)
  BY <1>2 DEF Typed, TalkTyped, CompactTyped, Unchanged
<1>5. of \in SUBSET Thing /\ keep \in Seq(Message)
  <2>1. Marks(conv, saved)
    BY DEF Typed, TalkTyped, Marks
  <2>2. SubSeq(conv, 1, from - 1) \in Seq(Message) /\ keep \in Seq(Message)
    <3> HIDE DEF from
    <3> QED
      BY <1>4, <2>1, CutInTwo
  <2> QED
    BY <2>2, KnownThings
<1>6. conv' = Kept(of, conv, from)
      /\ (log' = log \/ log' = Append(log, Boundary(of, keep)))
  BY <1>3, <1>4 DEF Shorten, Kept
<1>7. Rebuilt' \in {Rebuilt, conv'}
  <2> HIDE DEF of, keep, from
  <2>1. CASE log' = log
    BY <2>1 DEF Rebuilt
  <2>2. CASE log' = Append(log, Boundary(of, keep))
    <3>1. Rebuilt' = <<Summary(of)>> \o keep
      BY <1>4, <1>5, <2>2, CutIsRebuilt DEF Rebuilt
    <3> QED
      BY <1>6, <3>1 DEF Kept, keep
  <2> QED
    BY <1>6, <2>1, <2>2
<1> HIDE DEF of
<1> QED
  BY <1>1, <1>2, <1>4, <1>5, <1>6, <1>7 DEF Shortened

LEMMA Doings ==
  ASSUME Typed, [Next]_vars
  PROVE  \/ Still \/ Chatted \/ Remind \/ CallTools \/ CallsFail \/ Finish \/ ResultsFail
         \/ ToolStep \/ Shortened \/ Crash
<1>1. \A what \in {"texts", "notes", "others"} :
        Event(what) => counts'.reminders = counts.reminders
  BY EventCounts DEF Typed
<1>2. CASE Others
  BY <1>1, <1>2 DEF Others, Submit, Recall, Abort, Post, HookNote, Still, talk, history, turnVars
<1>3. CASE Waits
  <2>1. CASE PreSend
    <3>1. counts'.reminders = counts.reminders
      BY <1>1, <2>1 DEF PreSend, BeginCompact
    <3>2. pc # "tools" /\ pc' # "tools" /\ UNCHANGED <<turn, ran, broken>>
      BY <2>1 DEF PreSend, BeginCompact, Request, Goto, turnVars, history
    <3>3. Chat
      BY <2>1, Sayings, Chats, ChatIsSaid DEF PreSend, Typed, QueuesTyped
    <3> QED
      BY <3>1, <3>2, <3>3 DEF Chatted
  <2>2. CASE Interrupted \/ Fail
    <3>1. Chat
      BY <2>2, Sayings, Chats, ChatIsSaid DEF Interrupted, Fail, Partial
    <3> QED
      BY <2>2, <3>1 DEF Interrupted, Fail, Chatted, Goto, turnVars, history
  <2>3. CASE TooLong
    BY <1>1, <2>3 DEF TooLong, BeginCompact, Still, Goto, talk, turnVars, history
  <2>4. CASE SummaryFails \/ Receive \/ Retry \/ Woken
    BY <2>4 DEF SummaryFails, Receive, Retry, Woken, Still, Goto, Request, talk, turnVars, history
  <2> QED
    BY <1>3, <2>1, <2>2, <2>3, <2>4, Cuts DEF Waits, ToolStep
<1>4. CASE Prepared \/ PreparedFails
  <2>1. <<Text(sending)>> \in Seq(Message)
    BY <1>4, Made, Sayings DEF Prepared, PreparedFails, Typed, QueuesTyped
  <2>2. Chat
    BY <1>4, <2>1, Chats, ChatIsSaid DEF Prepared, PreparedFails
  <2> QED
    BY <1>1, <1>4, <2>2 DEF Prepared, PreparedFails, Chatted, Goto, turnVars, history
<1>5. CASE Top \/ HeadFails
  <2>1. CASE Top /\ (aborted \/ AtLimit)
    BY <2>1 DEF Top, Still, Goto, talk, turnVars, history
  <2>2. CASE HeadFails \/ (Top /\ ~(aborted \/ AtLimit))
    <3>1. Chat
      BY <2>2, Sayings, Chats, ChatIsSaid DEF Top, HeadFails, Typed, QueuesTyped
    <3> QED
      BY <1>1, <2>2, <3>1 DEF Top, HeadFails, Chatted, Goto, turnVars, history
  <2> QED
    BY <1>5, <2>1, <2>2
<1>6. CASE RecordNote \/ RecordFails
  <2>1. Head(held) \in Given
    BY <1>6, HeadAndTail DEF RecordNote, RecordFails, Typed, QueuesTyped
  <2>2. <<Note(Head(held))>> \in Seq(Message)
    BY <2>1, Made, Sayings
  <2>3. Chat
    BY <1>6, <2>2, Chats, ChatIsSaid DEF RecordNote, RecordFails
  <2> QED
    BY <1>1, <1>6, <2>3 DEF RecordNote, RecordFails, Chatted, Goto, turnVars, history
<1>7. CASE Continue \/ Answer \/ WordsFail
  <2>1. Chat
    BY <1>7, Sayings, Chats, ChatIsSaid DEF Continue, Answer, WordsFail
  <2> QED
    BY <1>1, <1>7, <2>1 DEF Continue, Answer, WordsFail, Chatted, Goto, history
<1>8. CASE Deliver \/ DeliverFails
  <2>1. Head(steering) \in Given
    BY <1>8, HeadAndTail DEF Deliver, DeliverFails, Typed, QueuesTyped
  <2>2. <<Text(Head(steering))>> \in Seq(Message)
    BY <2>1, Made, Sayings
  <2>3. Chat
    BY <1>8, <2>2, Chats, ChatIsSaid DEF Deliver, DeliverFails
  <2> QED
    BY <1>1, <1>8, <2>3 DEF Deliver, DeliverFails, Chatted, Goto, turnVars, history
<1>9. CASE SendFollowUp \/ Wake \/ DrainInbox \/ Advance \/ Close \/ DrainFails
  BY <1>1, <1>9 DEF SendFollowUp, Wake, DrainInbox, Advance, Close, DrainFails, Still, Goto, talk,
                    turnVars, history
<1>10. CASE Steps
  BY <1>4, <1>5, <1>6, <1>7, <1>8, <1>9, <1>10 DEF Steps, ToolStep
<1>11. CASE Faults
  BY <1>4, <1>5, <1>6, <1>7, <1>8, <1>9, <1>11, Cuts DEF Faults
<1>12. CASE UNCHANGED vars
  BY <1>12 DEF vars, Still, talk, turnVars, history
<1> QED
  BY <1>2, <1>3, <1>10, <1>11, <1>12 DEF Next

LEMMA TruthStep ==
  ASSUME Typed, ToldTruly, StartsTrue, [Next]_vars
  PROVE  ToldTruly'
<1>1. TalkTyped /\ CallsTyped /\ ControlTyped
  BY DEF Typed
<1>2. conv \in Seq(Message) /\ log \in Seq(Entry) /\ Rebuilt \in Seq(Message)
  BY <1>1, RebuiltTyped DEF TalkTyped, Rebuilt
<1>3. Honest(conv, turn, AtWork, ran, broken) /\ Honest(Rebuilt, turn, AtWork, ran, broken)
  BY DEF ToldTruly
<1>4. CASE Still
  <2>1. conv' = conv /\ log' = log /\ turn' = turn /\ ran' = ran /\ broken' = broken
        /\ calls' = calls
    BY <1>4 DEF Still
  <2>2. AtWork' = AtWork
    BY <1>4, <2>1 DEF Still, AtWork
  <2>3. Rebuilt' = Rebuilt
    BY <2>1 DEF Rebuilt
  <2> QED
    BY <1>3, <2>1, <2>2, <2>3 DEF ToldTruly
<1>5. CASE Chatted
  <2>1. PICK a \in Seq(Message), b \in Seq(Message) :
          Plain(a) /\ Plain(b) /\ conv' = conv \o a /\ Rebuilt' = Rebuilt \o b
    BY <1>5, ChatIsPlain DEF Chatted
  <2>2. turn' = turn /\ ran' = ran /\ broken' = broken /\ AtWork = {} /\ AtWork' = {}
    BY <1>5 DEF Chatted, AtWork
  <2>3. Honest(conv \o a, turn, {}, ran, broken) /\ Honest(Rebuilt \o b, turn, {}, ran, broken)
    BY <1>2, <1>3, <2>1, <2>2, HonestChat
  <2> QED
    BY <2>1, <2>2, <2>3 DEF ToldTruly
<1>6. CASE Remind
  <2>1. counts'.reminders \in Given
    BY <1>6, EventCounts DEF Remind, Typed
  <2> DEFINE m == Reminder(counts'.reminders)
  <2>2. m \in Message /\ Plain(<<m>>)
    BY <2>1, Made DEF Plain, Reminder, Numbered
  <2>3. conv' = Append(conv, m) /\ log' = log
    BY <1>6 DEF Remind
  <2> HIDE DEF m
  <2>4. conv' = conv \o <<m>> /\ <<m>> \in Seq(Message)
    BY <1>2, <2>2, <2>3, AppendIsConcat
  <2>5. turn' = turn /\ ran' = ran /\ broken' = broken /\ AtWork' = AtWork /\ Rebuilt' = Rebuilt
    BY <1>6, <2>3 DEF Remind, AtWork, Rebuilt, turnVars, history
  <2>6. Honest(conv \o <<m>>, turn, AtWork, ran, broken)
    BY <1>2, <1>3, <2>2, <2>4, HonestChat
  <2> QED
    BY <1>3, <2>4, <2>5, <2>6 DEF ToldTruly
<1>7. CASE CallTools \/ CallsFail
  <2> DEFINE n == response.calls
             m == Called(turn + 1, n)
  <2>1. /\ turn' = turn + 1 /\ turn \in Nat /\ n \in Nat /\ ran' = ran /\ pc # "tools"
        /\ broken \subseteq broken' /\ (Say(<<m>>) \/ SayFails(<<m>>))
    <3>1. turn \in Nat /\ n \in Nat
      BY <1>1, Bounds DEF CallsTyped, ControlTyped, Responses
    <3>2. CASE CallTools
      BY <3>1, <3>2 DEF CallTools, history
    <3>3. CASE CallsFail
      BY <3>1, <3>3 DEF CallsFail, history
    <3> QED
      BY <1>7, <3>2, <3>3
  <2>2. m \in Message /\ n \in Nat
    BY <2>1, Made
  <2>3. AtWork = {}
    BY <2>1 DEF AtWork
  <2>4. AtWork' = {<<turn + 1, n>>} \/ (AtWork' = {} /\ turn + 1 \in broken')
    <3>1. CASE CallTools
      <4>1. pc' = "tools" /\ calls' = [p \in 1..n |-> "waiting"]
        BY <3>1 DEF CallTools, Goto
      <4>2. Len(calls') = n
        <5> HIDE DEF n
        <5> QED
          BY <2>1, <4>1
      <4> HIDE DEF n
      <4> QED
        BY <2>1, <4>1, <4>2 DEF AtWork
    <3>2. CASE CallsFail
      BY <2>1, <3>2 DEF CallsFail, AtWork, Goto
    <3> QED
      BY <1>7, <3>1, <3>2
  <2> HIDE DEF m
  <2>5. conv' = conv \o <<m>> /\ (Rebuilt' = Rebuilt \/ Rebuilt' = Rebuilt \o <<m>>)
    BY <2>1, <2>2, OneIsSaid
  <2> DEFINE t == turn + 1
             True(messages) == Honest(messages, t, {<<t, n>>}, ran, broken)
  <2>6. True(conv \o <<m>>) /\ True(Rebuilt \o <<m>>) /\ True(Rebuilt)
    BY <1>2, <1>3, <2>1, <2>2, <2>3, HonestCall, HonestLater DEF m
  <2>7. /\ True(conv') /\ True(Rebuilt')
        /\ conv' \in Seq(Message) /\ Rebuilt' \in Seq(Message)
    <3>1. <<m>> \in Seq(Message)
      BY <2>2
    <3>2. conv \o <<m>> \in Seq(Message) /\ Rebuilt \o <<m>> \in Seq(Message)
      BY <1>2, <3>1, ConcatProperties
    <3> HIDE DEF True
    <3> QED
      BY <1>2, <2>5, <2>6, <3>2
  <2> HIDE DEF n, t
  <2>8. \A messages \in Seq(Message) : True(messages) =>
          Honest(messages, t, AtWork', ran, broken')
    <3> SUFFICES ASSUME NEW messages \in Seq(Message), True(messages)
                 PROVE  Honest(messages, t, AtWork', ran, broken')
      OBVIOUS
    <3>1. CASE AtWork' = {<<t, n>>}
      BY <2>1, <3>1, MoreGone
    <3>2. CASE AtWork' = {} /\ t \in broken'
      <4>1. Honest(messages, t, {}, ran, broken')
        BY <2>1, <3>2, HonestDies
      <4> QED
        BY <3>2, <4>1
    <3> QED
      BY <2>4, <3>1, <3>2 DEF t
  <2>9. turn' = t /\ ran' = ran
    BY <2>1 DEF t
  <2> QED
    BY <2>7, <2>8, <2>9 DEF ToldTruly
<1>8. CASE Finish \/ ResultsFail
  <2> DEFINE m == Results(turn, calls)
  <2>1. /\ pc = "tools" /\ pc' # "tools" /\ turn' = turn /\ turn \in Nat \ {0}
        /\ calls \in Seq(CallState) /\ ran' = ran /\ broken \subseteq broken'
        /\ Say(<<m>>) \/ SayFails(<<m>>)
        /\ (Say(<<m>>) /\ ~torn) \/ turn \in broken'
        /\ \A p \in DOMAIN calls : calls[p] \in Settled
    BY <1>1, <1>8 DEF Finish, ResultsFail, Complete, CallsTyped, Goto, history
  <2>2. calls \in Seq(Settled)
    BY <2>1
  <2>3. \A p \in DOMAIN calls : calls[p] = "ran" <=> <<turn, p>> \in ran
    BY <2>1 DEF StartsTrue, Settled
  <2>4. AtWork = {<<turn, Len(calls)>>} /\ AtWork' = {}
    BY <2>1 DEF AtWork
  <2>5. m \in Message
    BY <2>1, <2>2, Made
  <2> HIDE DEF m
  <2>6. /\ conv' = conv \o <<m>>
        /\ Rebuilt' = Rebuilt \o <<m>> \/ (Rebuilt' = Rebuilt /\ turn \in broken')
    <3>1. CASE Say(<<m>>) /\ ~torn
      BY <2>5, <3>1, OneIsSaid
    <3>2. CASE turn \in broken'
      BY <2>1, <2>5, <3>2, OneIsSaid
    <3> QED
      BY <2>1, <3>1, <3>2
  <2>7. Honest(conv \o <<m>>, turn, {}, ran, broken)
        /\ Honest(Rebuilt \o <<m>>, turn, {}, ran, broken)
    BY <1>2, <1>3, <2>1, <2>2, <2>3, <2>4, HonestResults DEF m
  <2>8. conv \o <<m>> \in Seq(Message) /\ Rebuilt \o <<m>> \in Seq(Message)
    <3>1. <<m>> \in Seq(Message)
      BY <2>5
    <3> QED
      BY <1>2, <3>1, ConcatProperties
  <2>9. Honest(conv \o <<m>>, turn, {}, ran, broken')
        /\ Honest(Rebuilt \o <<m>>, turn, {}, ran, broken')
    BY <2>1, <2>7, <2>8, MoreGone
  <2>10. turn \in broken' => Honest(Rebuilt, turn, {}, ran, broken')
    <3>1. turn \in broken' => (\A o \in AtWork : o[1] \in broken')
      BY <2>4
    <3>2. Honest(Rebuilt, turn, AtWork, ran, broken) /\ broken \subseteq broken'
      BY <1>3, <2>1
    <3> QED
      BY <1>2, <3>1, <3>2, HonestDies
  <2> QED
    BY <2>1, <2>4, <2>6, <2>9, <2>10 DEF ToldTruly
<1>9. CASE ToolStep
  <2>1. /\ pc = "tools" /\ pc' = "tools" /\ conv' = conv /\ log' = log /\ turn' = turn
        /\ broken' = broken
        /\ \E more : ran' = ran \cup more /\ \A x \in more : x[1] = turn
    <3>1. \A x \in NewlyRun(calls, calls') : x[1] = turn
      BY DEF NewlyRun
    <3>2. ran' = ran \/ ran' = ran \cup NewlyRun(calls, calls')
      BY <1>9 DEF ToolStep, Settle, Ask, Refuse, Launch, RunBatch, ToolEnds, history
    <3>3. \E more : ran' = ran \cup more /\ \A x \in more : x[1] = turn
      <4>1. CASE ran' = ran
        <5> DEFINE none == {}
        <5>1. ran' = ran \cup none /\ \A x \in none : x[1] = turn
          BY <4>1
        <5> HIDE DEF none
        <5> QED
          BY <5>1
      <4> QED
        BY <3>1, <3>2, <4>1
    <3> QED
      BY <1>9, <3>3 DEF ToolStep, Settle, Ask, MayPrepare, Refuse, Launch, Asking, RunBatch,
                       ToolEnds, talk, history
  <2>2. Len(calls') = Len(calls)
    <3>1. calls \in Seq(CallState) /\ calls' \in Seq(CallState) /\ DOMAIN calls' = DOMAIN calls
      <4>1. calls \in Seq(CallState) /\ CallsTyped'
        BY <1>1, CallsStep DEF CallsTyped
      <4>2. DOMAIN calls' = DOMAIN calls
        BY <1>9 DEF ToolStep, Settle, Ask, Refuse, Launch, RunBatch, ToolEnds
      <4> QED
        BY <4>1, <4>2 DEF CallsTyped
    <3>2. DOMAIN calls = 1..Len(calls) /\ DOMAIN calls' = 1..Len(calls')
          /\ Len(calls) \in Nat /\ Len(calls') \in Nat
      BY <3>1
    <3> QED
      BY <3>1, <3>2
  <2>3. AtWork = {<<turn, Len(calls)>>} /\ AtWork' = AtWork /\ Rebuilt' = Rebuilt
    BY <2>1, <2>2 DEF AtWork, Rebuilt
  <2>4. PICK more : ran' = ran \cup more /\ \A x \in more : x[1] = turn
    BY <2>1
  <2>5. /\ Honest(conv, turn, AtWork, ran \cup more, broken)
        /\ Honest(Rebuilt, turn, AtWork, ran \cup more, broken)
    BY <1>2, <1>3, <2>3, <2>4, HonestStarts
  <2> QED
    BY <2>1, <2>3, <2>4, <2>5 DEF ToldTruly
<1>10. CASE Shortened
  <2>1. /\ turn' = turn /\ ran' = ran /\ broken' = broken /\ AtWork = {} /\ AtWork' = {}
    BY <1>10 DEF Shortened, AtWork
  <2>2. PICK from \in 1..Len(conv), of \in SUBSET Thing :
          conv' = Kept(of, conv, from) /\ Rebuilt' \in {Rebuilt, conv'}
    BY <1>10 DEF Shortened
  <2>3. Honest(Kept(of, conv, from), turn, {}, ran, broken)
    BY <1>2, <1>3, <2>1, HonestTail
  <2> QED
    BY <1>3, <2>1, <2>2, <2>3 DEF ToldTruly
<1>11. CASE Crash
  <2>1. /\ conv' = Rebuilt /\ log' = log /\ turn' = turn /\ ran' = ran /\ pc' = "idle"
        /\ broken' = IF pc = "tools" THEN broken \cup {turn} ELSE broken
    BY <1>11 DEF Crash, Rebuilt
  <2>2. AtWork' = {} /\ Rebuilt' = Rebuilt
    BY <2>1 DEF AtWork, Rebuilt
  <2>3. (\A o \in AtWork : o[1] \in broken') /\ broken \subseteq broken'
    BY <2>1 DEF AtWork
  <2>4. Honest(Rebuilt, turn, {}, ran, broken')
    BY <1>2, <1>3, <2>3, HonestDies
  <2> QED
    BY <2>1, <2>2, <2>4 DEF ToldTruly
<1> QED
  BY <1>4, <1>5, <1>6, <1>7, <1>8, <1>9, <1>10, <1>11, Doings

LEMMA StartsStep ==
  ASSUME Typed, StartsTrue, [Next]_vars
  PROVE  StartsTrue'
<1> DEFINE At(c, r) == \A p \in DOMAIN c : c[p] \in {"running", "ran"} <=> <<turn, p>> \in r
<1>1. CallsTyped
  BY DEF Typed
<1>2. CASE Still \/ Remind
  <2>1. UNCHANGED <<calls, turn, ran>> /\ (pc' = "tools" <=> pc = "tools")
    BY <1>2 DEF Still, Remind, turnVars, history
  <2> QED
    BY <2>1 DEF StartsTrue
<1>3. CASE Chatted \/ CallsFail \/ Finish \/ ResultsFail \/ Shortened \/ Crash
  BY <1>3 DEF Chatted, CallsFail, Finish, ResultsFail, Shortened, Crash, Goto, StartsTrue
<1>4. CASE CallTools
  <2>1. turn' = turn + 1 /\ ran' = ran /\ turn \in Nat /\ ran \subseteq (1..turn) \X (1..MaxCalls)
        /\ calls' = [p \in 1..response.calls |-> "waiting"]
    BY <1>1, <1>4 DEF CallTools, CallsTyped, history
  <2>2. \A p : <<turn + 1, p>> \notin ran
    <3>1. turn + 1 \notin 1..turn
      BY <2>1
    <3> QED
      BY <2>1, <3>1
  <2> QED
    BY <2>1, <2>2 DEF StartsTrue
<1>5. CASE ToolStep
  <2>1. pc = "tools" /\ pc' = "tools" /\ turn' = turn /\ At(calls, ran)
    BY <1>5 DEF ToolStep, Settle, Ask, MayPrepare, Refuse, Launch, Asking, RunBatch,
                ToolEnds, StartsTrue
  <2>2. CASE Settle \/ Ask \/ Refuse \/ ToolEnds
    <3>1. ran' = ran
      BY <2>2 DEF Settle, Ask, Refuse, ToolEnds, history
    <3>2. \E p \in DOMAIN calls, state \in CallState :
            /\ calls' = [calls EXCEPT ![p] = state]
            /\ calls[p] \in {"running", "ran"} <=> state \in {"running", "ran"}
      <4>1. CASE Settle \/ Ask \/ Refuse
        <5>1. at \in DOMAIN calls /\ calls[at] \in {"waiting", "asking"}
          BY <4>1 DEF Settle, Ask, MayPrepare, Refuse, Asking
        <5>2. \E state \in {"bad", "cut", "asking", "refused"} :
                calls' = [calls EXCEPT ![at] = state]
          BY <4>1 DEF Settle, Ask, Refuse
        <5>3. \A state \in {"bad", "cut", "asking", "refused"} :
                state \in CallState /\ state \notin {"running", "ran"}
          BY DEF CallState, Settled
        <5>4. calls[at] \notin {"running", "ran"}
          BY <5>1
        <5> QED
          BY <5>1, <5>2, <5>3, <5>4
      <4>2. CASE ToolEnds
        BY <4>2 DEF ToolEnds, CallState, Settled
      <4> QED
        BY <2>2, <4>1, <4>2
    <3>3. PICK p \in DOMAIN calls, state \in CallState :
            /\ calls' = [calls EXCEPT ![p] = state]
            /\ calls[p] \in {"running", "ran"} <=> state \in {"running", "ran"}
      BY <3>2
    <3>4. /\ DOMAIN calls' = DOMAIN calls /\ calls'[p] = state
          /\ \A q \in DOMAIN calls : q # p => calls'[q] = calls[q]
      BY <1>1, <3>3, CallStep
    <3>5. \A q \in DOMAIN calls :
            calls'[q] \in {"running", "ran"} <=> calls[q] \in {"running", "ran"}
      BY <3>3, <3>4
    <3> QED
      BY <2>1, <3>1, <3>4, <3>5 DEF StartsTrue
  <2>3. CASE Launch
    <3> DEFINE state == IF Parallel(at) THEN "submitted" ELSE Started(at)
    <3>1. /\ at \in DOMAIN calls /\ calls[at] = "asking"
          /\ calls' = [calls EXCEPT ![at] = state]
          /\ ran' = ran \cup NewlyRun(calls, calls')
          /\ state \in CallState /\ state # "ran"
      BY <2>3 DEF Launch, Asking, Started, CallState, Settled
    <3> HIDE DEF state
    <3>2. /\ DOMAIN calls' = DOMAIN calls /\ calls'[at] = state
          /\ \A q \in DOMAIN calls : q # at => calls'[q] = calls[q]
      BY <1>1, <3>1, CallStep
    <3>3. \A q \in DOMAIN calls : <<turn, q>> \in NewlyRun(calls, calls') <=>
                                    q = at /\ state = "running"
      BY <3>1, <3>2 DEF NewlyRun
    <3>4. \A q \in DOMAIN calls : calls'[q] \in {"running", "ran"} <=> <<turn, q>> \in ran'
      BY <2>1, <3>1, <3>2, <3>3
    <3> QED
      BY <2>1, <3>2, <3>4 DEF StartsTrue
  <2>4. CASE RunBatch
    <3>1. /\ calls' = [p \in DOMAIN calls |->
                        IF calls[p] = "submitted" THEN Started(p) ELSE calls[p]]
          /\ ran' = ran \cup NewlyRun(calls, calls')
      BY <2>4 DEF RunBatch
    <3>2. \A q \in DOMAIN calls : <<turn, q>> \in NewlyRun(calls, calls') <=>
                                    calls[q] # "running" /\ calls'[q] = "running"
      BY DEF NewlyRun
    <3>3. \A q \in DOMAIN calls :
            \/ calls[q] = "submitted" /\ calls'[q] \in {"cut", "running"}
            \/ calls[q] # "submitted" /\ calls'[q] = calls[q]
      BY <3>1 DEF Started
    <3>4. \A q \in DOMAIN calls : calls'[q] \in {"running", "ran"} <=> <<turn, q>> \in ran'
      BY <2>1, <3>1, <3>2, <3>3
    <3> QED
      BY <2>1, <3>1, <3>4 DEF StartsTrue
  <2> QED
    BY <1>5, <2>2, <2>3, <2>4 DEF ToolStep
<1> QED
  BY <1>2, <1>3, <1>4, <1>5, Doings

(* Where the tail starts that a compaction keeps. *)
LEMMA TailChosen ==
  ASSUME NEW messages \in Seq(Message), NEW start \in DOMAIN messages,
         NEW from, from = backUpPastToolUse(messages, start),
         messages[from].kind = "results"
  PROVE  \A i \in 1..from - 1 : ~(messages[i].kind = "calls" /\ messages[i].id = messages[from].id)
<1> DEFINE owners == {i \in 1..start - 1 : /\ messages[i].kind = "calls"
                                           /\ messages[i].id = messages[start].id}
<1>1. backUpPastToolUse(messages, start) =
        IF messages[start].kind = "results" /\ owners # {}
        THEN CHOOSE i \in owners : TRUE ELSE start
  BY DEF backUpPastToolUse
<1>2. owners # {} => (CHOOSE i \in owners : TRUE) \in owners
  OBVIOUS
<1>3. \A i \in owners : messages[i].kind = "calls"
  OBVIOUS
<1>4. from = start /\ owners = {}
  <2> HIDE DEF owners
  <2> QED
    BY <1>1, <1>2, <1>3
<1> QED
  BY <1>4

LEMMA TailStep ==
  ASSUME Typed, TailWhole, [Next]_vars
  PROVE  TailWhole'
<1> USE DEF Goto
<1>1. CASE pc' = "summing" /\ ~(pc = "summing" /\ compact' = compact)
  <2>1. \E forced \in BOOLEAN : BeginCompact(conv', forced)
    <3>1. CASE Others
      BY <1>1, <3>1 DEF Others, Submit, Recall, Abort, Remind, Post, HookNote, Crash
    <3>2. CASE Waits
      <4>1. CASE PreSend
        BY <1>1, <4>1 DEF PreSend, Request
      <4>2. CASE TooLong
        BY <1>1, <4>2 DEF TooLong, BeginCompact, talk
      <4> QED
        BY <1>1, <3>2, <4>1, <4>2 DEF Waits, Request, Summarized, SummaryFails, Interrupted,
           Receive, Retry, Fail, Woken, Refuse, Launch, ToolEnds
    <3>3. CASE Steps
      BY <1>1, <3>3 DEF Steps, SendFollowUp, Prepared, Wake, Top, DrainInbox, RecordNote,
                  Continue, Answer, CallTools, Settle, Ask, RunBatch, Finish, Deliver, Advance,
                  Close
    <3>4. CASE Faults
      BY <1>1, <3>4, FaultsFrame
    <3>5. CASE UNCHANGED vars
      BY <1>1, <3>5 DEF vars
    <3> QED
      BY <3>1, <3>2, <3>3, <3>4, <3>5 DEF Next
  <2>2. conv' \in Seq(Message)
    BY TypesKept DEF Typed, TalkTyped
  <2>3. PICK start \in DOMAIN conv' :
          compact'.from = backUpPastToolUse(conv', start) /\ compact'.seen = conv'
    BY <2>1 DEF BeginCompact
  <2> DEFINE messages == conv'
             from == compact'.from
  <2> HIDE DEF messages, from
  <2>4. messages \in Seq(Message) /\ start \in DOMAIN messages
        /\ from = backUpPastToolUse(messages, start)
    BY <2>2, <2>3 DEF messages, from
  <2>5. messages[from].kind = "results" =>
          \A i \in 1..from - 1 : ~(messages[i].kind = "calls" /\ messages[i].id = messages[from].id)
    BY <2>4, TailChosen
  <2> QED
    BY <2>3, <2>5 DEF TailWhole, messages, from
<1>2. CASE ~(pc' = "summing" /\ ~(pc = "summing" /\ compact' = compact))
  BY <1>2 DEF TailWhole
<1> QED
  BY <1>1, <1>2

LEMMA SideStep ==
  ASSUME Typed, SideBySide, TailWhole, [Next]_vars
  PROVE  SideBySide'
<1>1. TalkTyped /\ CallsTyped /\ ControlTyped
  BY DEF Typed
<1>2. conv \in Seq(Message) /\ log \in Seq(Entry) /\ Rebuilt \in Seq(Message)
  BY <1>1, RebuiltTyped DEF TalkTyped, Rebuilt
<1>3. CASE Still
  <2>1. conv' = conv /\ log' = log /\ turn' = turn /\ calls' = calls /\ broken' = broken
        /\ counts'.reminders = counts.reminders /\ (pc' = "tools" <=> pc = "tools")
    BY <1>3 DEF Still
  <2>2. Rebuilt' = Rebuilt
    BY <2>1 DEF Rebuilt
  <2> QED
    BY <2>1, <2>2 DEF SideBySide
<1>4. CASE Chatted
  <2>1. PICK a \in Seq(Message), b \in Seq(Message) :
          Plain(a) /\ Plain(b) /\ conv' = conv \o a /\ Rebuilt' = Rebuilt \o b
    BY <1>4, ChatIsPlain DEF Chatted
  <2>2. counts'.reminders = counts.reminders /\ pc' # "tools" /\ broken' = broken
    BY <1>4 DEF Chatted
  <2>3. /\ Adjacent(conv, broken) => Adjacent(conv \o a, broken)
        /\ Adjacent(Rebuilt, broken) => Adjacent(Rebuilt \o b, broken)
    BY <1>2, <2>1, AdjacentChat
  <2> QED
    BY <2>1, <2>2, <2>3 DEF SideBySide
<1>5. CASE Remind
  <2>1. counts'.reminders \in Given
    BY <1>5, EventCounts DEF Remind, Typed
  <2>2. counts'.reminders # 0
    BY <2>1, Bounds DEF Given
  <2> QED
    BY <2>2 DEF SideBySide
<1>6. CASE CallTools \/ CallsFail
  <2> DEFINE n == response.calls
             m == Called(turn + 1, n)
  <2>1. /\ turn' = turn + 1 /\ turn \in Nat /\ n \in Nat /\ pc # "tools"
        /\ broken \subseteq broken' /\ (Say(<<m>>) \/ SayFails(<<m>>))
    <3>1. turn \in Nat /\ n \in Nat
      BY <1>1, Bounds DEF CallsTyped, ControlTyped, Responses
    <3>2. CASE CallTools
      BY <3>1, <3>2 DEF CallTools, history
    <3>3. CASE CallsFail
      BY <3>1, <3>3 DEF CallsFail, history
    <3> QED
      BY <1>6, <3>2, <3>3
  <2>2. counts'.reminders = counts.reminders
    BY <1>6, EventCounts DEF CallTools, CallsFail, Typed
  <2>3. m \in Message /\ turn + 1 \in Nat
    BY <2>1, Made
  <2>4. pc' = "tools" => /\ Called(turn', Len(calls')) = m
                         /\ turn' \in broken' \/ (Say(<<m>>) /\ ~torn)
    <3>1. CASE CallTools
      <4>1. /\ calls' = [p \in 1..n |-> "waiting"] /\ Say(<<m>>)
            /\ torn => turn' \in broken'
        BY <2>1, <3>1 DEF CallTools
      <4>2. Len(calls') = n
        <5> HIDE DEF n
        <5> QED
          BY <2>1, <4>1
      <4> QED
        BY <2>1, <4>1, <4>2
    <3>2. CASE CallsFail
      BY <3>2 DEF CallsFail, Goto
    <3> QED
      BY <1>6, <3>1, <3>2
  <2> HIDE DEF m
  <2>5. /\ conv' = conv \o <<m>> /\ (Rebuilt' = Rebuilt \/ Rebuilt' = Rebuilt \o <<m>>)
        /\ Say(<<m>>) /\ ~torn => Rebuilt' = Rebuilt \o <<m>>
    BY <2>1, <2>3, OneIsSaid
  <2>6. \A messages \in Seq(Message) : Adjacent(messages, broken) =>
          Adjacent(messages \o <<m>>, broken) /\ EndsIn(messages \o <<m>>, m)
    BY <2>1, <2>3, AdjacentCall DEF m, EndsIn
  <2>7. \A messages \in Seq(Message) : Adjacent(messages, broken) => Adjacent(messages, broken')
    BY <2>1, MoreGone
  <2>8. conv \o <<m>> \in Seq(Message) /\ Rebuilt \o <<m>> \in Seq(Message)
    <3>1. <<m>> \in Seq(Message)
      BY <2>3
    <3> QED
      BY <1>2, <3>1, ConcatProperties
  <2>9. ASSUME counts.reminders = 0
        PROVE  /\ Adjacent(conv', broken') /\ EndsIn(conv', m)
               /\ Adjacent(Rebuilt', broken')
               /\ Say(<<m>>) /\ ~torn => EndsIn(Rebuilt', m)
    <3>1. Adjacent(conv, broken) /\ Adjacent(Rebuilt, broken)
      BY <2>9 DEF SideBySide
    <3>2. /\ Adjacent(conv \o <<m>>, broken') /\ EndsIn(conv \o <<m>>, m)
          /\ Adjacent(Rebuilt \o <<m>>, broken') /\ EndsIn(Rebuilt \o <<m>>, m)
          /\ Adjacent(Rebuilt, broken')
      BY <1>2, <2>6, <2>7, <2>8, <3>1
    <3> QED
      BY <2>5, <3>2
  <2> QED
    BY <2>2, <2>4, <2>9 DEF SideBySide
<1>7. CASE Finish \/ ResultsFail
  <2> DEFINE m == Results(turn, calls)
  <2>1. /\ pc = "tools" /\ pc' # "tools" /\ turn \in Nat /\ calls \in Seq(CallState)
        /\ broken \subseteq broken'
        /\ Say(<<m>>) \/ SayFails(<<m>>)
        /\ \A p \in DOMAIN calls : calls[p] \in Settled
    BY <1>1, <1>7 DEF Finish, ResultsFail, Complete, CallsTyped, Goto
  <2>2. counts'.reminders = counts.reminders
    BY <1>7, EventCounts DEF Finish, ResultsFail, Typed
  <2>3. calls \in Seq(Settled)
    BY <2>1
  <2>4. m \in Message
    BY <2>1, <2>3, Made
  <2> HIDE DEF m
  <2>5. conv' = conv \o <<m>> /\ (Rebuilt' = Rebuilt \/ Rebuilt' = Rebuilt \o <<m>>)
    BY <2>1, <2>4, OneIsSaid
  <2> DEFINE n == Len(calls)
  <2>6. ASSUME NEW messages \in Seq(Message), Adjacent(messages, broken),
               turn \in broken \/ EndsIn(messages, Called(turn, n))
        PROVE  Adjacent(messages \o <<m>>, broken)
    <3> HIDE DEF n
    <3> QED
      BY <2>1, <2>3, <2>6, AdjacentResults DEF m, EndsIn
  <2>7. \A messages \in Seq(Message) : Adjacent(messages, broken) => Adjacent(messages, broken')
    BY <2>1, MoreGone
  <2>8. conv \o <<m>> \in Seq(Message) /\ Rebuilt \o <<m>> \in Seq(Message)
    <3>1. <<m>> \in Seq(Message)
      BY <2>4
    <3> QED
      BY <1>2, <3>1, ConcatProperties
  <2>9. ASSUME counts.reminders = 0
        PROVE  Adjacent(conv', broken') /\ Adjacent(Rebuilt', broken')
    <3>1. /\ Adjacent(conv, broken) /\ EndsIn(conv, Called(turn, n))
          /\ Adjacent(Rebuilt, broken)
          /\ turn \in broken \/ EndsIn(Rebuilt, Called(turn, n))
      BY <2>1, <2>9 DEF SideBySide
    <3>2. Adjacent(conv \o <<m>>, broken) /\ Adjacent(Rebuilt \o <<m>>, broken)
      BY <1>2, <2>6, <3>1
    <3>3. Adjacent(conv \o <<m>>, broken') /\ Adjacent(Rebuilt \o <<m>>, broken')
          /\ Adjacent(Rebuilt, broken')
      BY <1>2, <2>7, <2>8, <3>1, <3>2
    <3> QED
      BY <2>5, <3>3
  <2> QED
    BY <2>1, <2>2, <2>9 DEF SideBySide
<1>8. CASE ToolStep
  <2>1. /\ pc = "tools" /\ pc' = "tools" /\ conv' = conv /\ log' = log /\ turn' = turn
        /\ counts' = counts /\ broken' = broken /\ DOMAIN calls' = DOMAIN calls
    <3>1. CASE Settle \/ Ask
      BY <3>1 DEF Settle, Ask, MayPrepare, talk, history
    <3>2. CASE Refuse \/ Launch
      BY <3>2 DEF Refuse, Launch, Asking, talk, history
    <3>3. CASE RunBatch \/ ToolEnds
      BY <3>3 DEF RunBatch, ToolEnds, talk, history
    <3> QED
      BY <1>8, <3>1, <3>2, <3>3 DEF ToolStep
  <2>2. Len(calls') = Len(calls)
    <3>1. calls \in Seq(CallState) /\ calls' \in Seq(CallState)
      BY <1>1, CallsStep DEF CallsTyped
    <3>2. DOMAIN calls = 1..Len(calls) /\ DOMAIN calls' = 1..Len(calls')
          /\ Len(calls) \in Nat /\ Len(calls') \in Nat
      BY <3>1
    <3> QED
      BY <2>1, <3>2
  <2>3. Rebuilt' = Rebuilt
    BY <2>1 DEF Rebuilt
  <2> QED
    BY <2>1, <2>2, <2>3 DEF SideBySide
<1>9. CASE Shortened
  <2>1. /\ pc' # "tools" /\ broken' = broken /\ counts'.reminders = counts.reminders
    BY <1>9 DEF Shortened
  <2>2. PICK from \in 1..Len(conv), of \in SUBSET Thing :
          /\ conv' = Kept(of, conv, from) /\ Rebuilt' \in {Rebuilt, conv'}
          /\ pc = "summing" /\ from = compact.from /\ compact.seen = conv
    BY <1>9 DEF Shortened
  <2>3. Adjacent(conv, broken) => (conv[from].kind = "results" => conv[from].id \in broken)
    <3> SUFFICES ASSUME Adjacent(conv, broken), conv[from].kind = "results",
                        conv[from].id \notin broken
                 PROVE  FALSE
      OBVIOUS
    <3>1. from > 1 /\ conv[from - 1].kind = "calls" /\ conv[from - 1].id = conv[from].id
      BY <1>2, <2>2 DEF Adjacent
    <3>2. from - 1 \in 1..from - 1
      BY <2>2, <3>1
    <3> QED
      BY <2>2, <3>1, <3>2 DEF TailWhole
  <2>4. Adjacent(conv, broken) => Adjacent(Kept(of, conv, from), broken)
    BY <1>2, <2>2, <2>3, AdjacentTail
  <2> QED
    BY <2>1, <2>2, <2>4 DEF SideBySide
<1>10. CASE Crash
  <2>1. conv' = Rebuilt /\ log' = log /\ pc' = "idle" /\ Event("others") /\ broken \subseteq broken'
    BY <1>10 DEF Crash, Rebuilt
  <2>2. counts'.reminders = counts.reminders
    BY <2>1, EventCounts DEF Typed
  <2>3. Rebuilt' = Rebuilt
    BY <2>1 DEF Rebuilt
  <2>4. Adjacent(Rebuilt, broken) => Adjacent(Rebuilt, broken')
    BY <1>2, <2>1, MoreGone
  <2> QED
    BY <2>1, <2>2, <2>3, <2>4 DEF SideBySide
<1> QED
  BY <1>3, <1>4, <1>5, <1>6, <1>7, <1>8, <1>9, <1>10, Doings

ResultsInv == Typed /\ ToldTruly /\ StartsTrue /\ SideBySide /\ TailWhole

LEMMA AlwaysResults == Spec => []ResultsInv
<1>1. Init => ResultsInv
  <2> SUFFICES ASSUME Init PROVE ToldTruly /\ StartsTrue /\ SideBySide /\ TailWhole /\ Typed
    BY DEF ResultsInv
  <2>1. rebuildFromSession(<<>>) = <<>>
    BY DEF rebuildFromSession
  <2>2. conv = <<>> /\ Rebuilt = <<>> /\ pc = "idle"
    BY <2>1 DEF Init, Rebuilt
  <2>3. Typed
    BY InitTyped
  <2> QED
    BY <2>2, <2>3 DEF ToldTruly, StartsTrue, SideBySide, TailWhole, Honest, Adjacent
<1>2. ResultsInv /\ [Next]_vars => ResultsInv'
  BY TypesKept, TruthStep, StartsStep, SideStep, TailStep DEF ResultsInv
<1> QED
  BY <1>1, <1>2, PTL DEF Spec

LEMMA ToldIsTrue ==
  ASSUME ResultsInv
  PROVE  ResultsTrue
<1>1. conv \in Seq(Message) /\ DOMAIN conv = 1..Len(conv)
  BY DEF ResultsInv, Typed, TalkTyped
<1>2. Honest(conv, turn, AtWork, ran, broken)
  BY DEF ResultsInv, ToldTruly
<1>3. ResultsKeepToCalls
  <2>1. counts.reminders = 0 =>
          Adjacent(conv, broken) /\ Adjacent(rebuildFromSession(log), broken)
    BY DEF ResultsInv, SideBySide, Rebuilt
  <2> QED
    BY <2>1 DEF ResultsKeepToCalls, Adjacent
<1>4. ASSUME NEW i \in DOMAIN conv, conv[i].kind = "calls"
      PROVE  \/ \E j \in i + 1..Len(conv) : /\ conv[j].kind = "results" /\ conv[j].id = conv[i].id
                                            /\ Len(conv[j].outs) = conv[i].n
             \/ conv[i].id \in broken \/ (pc = "tools" /\ conv[i].id = turn)
  <2>1. Answered(conv, i) \/ conv[i].id \in broken \/ <<conv[i].id, conv[i].n>> \in AtWork
    BY <1>2, <1>4 DEF Honest
  <2>2. CASE Answered(conv, i)
    <3>1. PICK j \in DOMAIN conv :
            /\ j > i /\ conv[j].kind = "results" /\ conv[j].id = conv[i].id
            /\ Len(conv[j].outs) = conv[i].n
      BY <2>2 DEF Answered
    <3>2. j \in i + 1..Len(conv)
      BY <1>1, <3>1
    <3> QED
      BY <3>1, <3>2
  <2>3. CASE <<conv[i].id, conv[i].n>> \in AtWork
    BY <2>3 DEF AtWork
  <2> QED
    BY <2>1, <2>2, <2>3
<1>5. ASSUME NEW i \in DOMAIN conv, conv[i].kind = "results"
      PROVE  \A p \in DOMAIN conv[i].outs : conv[i].outs[p] = "ran" <=> <<conv[i].id, p>> \in ran
  BY <1>2, <1>5 DEF Honest
<1>6. pc # "tools" => calls = <<>>
  BY DEF ResultsInv, Typed, CallsTyped
<1> QED
  BY <1>3, <1>4, <1>5, <1>6 DEF ResultsTrue

(* What the conversation says of the calls is what happened, after any      *)
(* number of compactions, interrupts, failing writes, deaths and resumes:   *)
(* results cover all calls of their response, say of a call that it ran     *)
(* exactly if it was started, and stand beside the calls if both were       *)
(* recorded and no reminder came between (executeCall, rebuildFromSession,  *)
(* doCompact, backUpPastToolUse).                                           *)
THEOREM ConversationIsTrue == Spec => []ResultsTrue
BY AlwaysResults, ToldIsTrue, PTL
-----------------------------------------------------------------------------
(* How often something is in a sequence is how often it is in its parts. *)
LEMMA TimesInParts ==
  ASSUME NEW a \in Seq(Message), NEW b \in Seq(Message), NEW x
  PROVE  /\ Times(x, a) \in Nat /\ Times(x, b) \in Nat
         /\ Times(x, a \o b) = Times(x, a) + Times(x, b)
<1> DEFINE c == a \o b
           P == {i \in DOMAIN a : x \in Items(a[i])}
           Q == {i \in DOMAIN b : x \in Items(b[i])}
           R == {i \in DOMAIN c : x \in Items(c[i])}
<1>1. /\ Len(a) \in Nat /\ Len(b) \in Nat /\ DOMAIN a = 1..Len(a) /\ DOMAIN b = 1..Len(b)
      /\ DOMAIN c = 1..(Len(a) + Len(b))
      /\ \A i \in 1..Len(a) : c[i] = a[i]
      /\ \A i \in 1..Len(b) : c[Len(a) + i] = b[i]
      /\ \A i \in 1..(Len(a) + Len(b)) :
           i \in 1..Len(a) \/ (i - Len(a) \in 1..Len(b) /\ c[i] = b[i - Len(a)])
  BY Positioned
<1> HIDE DEF c
<1>2. ASSUME NEW i PROVE i \in R <=> i \in P \/ \E j \in Q : i = Len(a) + j
  <2>1. ASSUME i \in R PROVE i \in P \/ \E j \in Q : i = Len(a) + j
    <3>1. CASE i \in 1..Len(a)
      BY <1>1, <2>1, <3>1
    <3>2. CASE i - Len(a) \in 1..Len(b) /\ c[i] = b[i - Len(a)]
      <4>1. i - Len(a) \in Q /\ i = Len(a) + (i - Len(a))
        BY <1>1, <2>1, <3>2
      <4> QED
        BY <4>1
    <3> QED
      BY <1>1, <2>1, <3>1, <3>2
  <2>2. ASSUME i \in P PROVE i \in R
    BY <1>1, <2>2
  <2>3. ASSUME NEW j \in Q, i = Len(a) + j PROVE i \in R
    <3>1. j \in 1..Len(b) /\ x \in Items(b[j])
      BY <1>1
    <3>2. i \in 1..(Len(a) + Len(b)) /\ c[i] = b[j]
      BY <1>1, <2>3, <3>1
    <3> QED
      BY <1>1, <3>1, <3>2
  <2> QED
    BY <2>1, <2>2, <2>3
<1>3. P \in SUBSET (1..Len(a)) /\ Q \in SUBSET (1..Len(b))
  BY <1>1
<1>4. R = Joined(P, Len(a), Q)
  <2> HIDE DEF P, Q, R
  <2> QED
    BY <1>2 DEF Joined
<1>5. /\ Cardinality(P) \in Nat /\ Cardinality(Q) \in Nat
      /\ Cardinality(R) = Cardinality(P) + Cardinality(Q)
  <2> HIDE DEF P, Q, R
  <2> QED
    BY <1>1, <1>3, <1>4, JoinedPlaces
<1> QED
  BY <1>5 DEF Times, c

LEMMA QueuedInParts ==
  ASSUME NEW a \in Seq(Given), NEW b \in Seq(Given), NEW n
  PROVE  /\ Queued(n, a) \in Nat /\ Queued(n, b) \in Nat
         /\ Queued(n, a \o b) = Queued(n, a) + Queued(n, b)
<1> DEFINE c == a \o b
           P == {i \in DOMAIN a : a[i] = n}
           Q == {i \in DOMAIN b : b[i] = n}
           R == {i \in DOMAIN c : c[i] = n}
<1>1. /\ Len(a) \in Nat /\ Len(b) \in Nat /\ DOMAIN a = 1..Len(a) /\ DOMAIN b = 1..Len(b)
      /\ DOMAIN c = 1..(Len(a) + Len(b))
      /\ \A i \in 1..Len(a) : c[i] = a[i]
      /\ \A i \in 1..Len(b) : c[Len(a) + i] = b[i]
  OBVIOUS
<1> HIDE DEF c
<1>2. ASSUME NEW i PROVE i \in R <=> i \in P \/ \E j \in Q : i = Len(a) + j
  <2>1. ASSUME i \in R PROVE i \in P \/ \E j \in Q : i = Len(a) + j
    <3>1. CASE i \in 1..Len(a)
      BY <1>1, <2>1, <3>1
    <3>2. CASE i \notin 1..Len(a)
      <4>1. i - Len(a) \in 1..Len(b) /\ i = Len(a) + (i - Len(a))
        BY <1>1, <2>1, <3>2
      <4>2. i - Len(a) \in Q
        BY <1>1, <2>1, <4>1
      <4> QED
        BY <4>1, <4>2
    <3> QED
      BY <3>1, <3>2
  <2>2. ASSUME i \in P PROVE i \in R
    BY <1>1, <2>2
  <2>3. ASSUME NEW j \in Q, i = Len(a) + j PROVE i \in R
    <3>1. j \in 1..Len(b) /\ b[j] = n
      BY <1>1
    <3>2. i \in 1..(Len(a) + Len(b)) /\ c[i] = b[j]
      BY <1>1, <2>3, <3>1
    <3> QED
      BY <1>1, <3>1, <3>2
  <2> QED
    BY <2>1, <2>2, <2>3
<1>3. P \in SUBSET (1..Len(a)) /\ Q \in SUBSET (1..Len(b))
  BY <1>1
<1>4. R = Joined(P, Len(a), Q)
  <2> HIDE DEF P, Q, R
  <2> QED
    BY <1>2 DEF Joined
<1>5. /\ Cardinality(P) \in Nat /\ Cardinality(Q) \in Nat
      /\ Cardinality(R) = Cardinality(P) + Cardinality(Q)
  <2> HIDE DEF P, Q, R
  <2> QED
    BY <1>1, <1>3, <1>4, JoinedPlaces
<1> QED
  BY <1>5 DEF Queued, c

(* A single message, a single element of a queue, and nothing at all. *)
LEMMA CountOne ==
  /\ \A m, x : Times(x, <<m>>) = One(x \in Items(m))
  /\ \A k, n : Queued(n, <<k>>) = One(k = n)
  /\ \A x : Times(x, <<>>) = 0 /\ Queued(x, <<>>) = 0
<1>1. Cardinality({}) = 0 /\ \A e : Cardinality({e}) = 1
  BY FS_EmptySet, FS_Singleton
<1>2. ASSUME NEW m, NEW x PROVE Times(x, <<m>>) = One(x \in Items(m))
  <2>1. DOMAIN <<m>> = {1} /\ <<m>>[1] = m
    OBVIOUS
  <2>2. {i \in DOMAIN <<m>> : x \in Items(<<m>>[i])} = IF x \in Items(m) THEN {1} ELSE {}
    BY <2>1
  <2> QED
    BY <1>1, <2>2 DEF Times, One
<1>3. ASSUME NEW k, NEW n PROVE Queued(n, <<k>>) = One(k = n)
  <2>1. {i \in DOMAIN <<k>> : <<k>>[i] = n} = IF k = n THEN {1} ELSE {}
    OBVIOUS
  <2> QED
    BY <1>1, <2>1 DEF Queued, One
<1>4. ASSUME NEW x PROVE Times(x, <<>>) = 0 /\ Queued(x, <<>>) = 0
  <2>1. {i \in DOMAIN <<>> : x \in Items(<<>>[i])} = {} /\ {i \in DOMAIN <<>> : <<>>[i] = x} = {}
    OBVIOUS
  <2> QED
    BY <1>1, <2>1 DEF Times, Queued
<1> QED
  BY <1>2, <1>3, <1>4

(* What a sequence is about is what is in it at least once. *)
LEMMA CountSome ==
  /\ \A a \in Seq(Message) : \A x : x \in Known(a) <=> Times(x, a) # 0
  /\ \A q \in Seq(Given) : \A n : n \in Range(q) <=> Queued(n, q) # 0
<1>1. ASSUME NEW a \in Seq(Message), NEW x PROVE x \in Known(a) <=> Times(x, a) # 0
  <2> DEFINE P == {i \in DOMAIN a : x \in Items(a[i])}
  <2>1. IsFiniteSet(P)
    <3>1. P \in SUBSET DOMAIN a
      OBVIOUS
    <3> HIDE DEF P
    <3> QED
      BY <3>1, Positions
  <2>2. Cardinality(P) = 0 <=> P = {}
    <3> HIDE DEF P
    <3> QED
      BY <2>1, FS_EmptySet
  <2> QED
    BY <2>2 DEF Known, Times
<1>2. ASSUME NEW q \in Seq(Given), NEW n PROVE n \in Range(q) <=> Queued(n, q) # 0
  <2> DEFINE P == {i \in DOMAIN q : q[i] = n}
  <2>1. IsFiniteSet(P)
    <3>1. P \in SUBSET DOMAIN q
      OBVIOUS
    <3> HIDE DEF P
    <3> QED
      BY <3>1, Positions
  <2>2. Cardinality(P) = 0 <=> P = {}
    <3> HIDE DEF P
    <3> QED
      BY <2>1, FS_EmptySet
  <2> QED
    BY <2>2 DEF Range, Queued
<1> QED
  BY <1>1, <1>2

(* Messages that are not about something do not count for it. *)
LEMMA CountNone ==
  ASSUME NEW a, NEW x, \A i \in DOMAIN a : x \notin Items(a[i])
  PROVE  Times(x, a) = 0
<1>1. {i \in DOMAIN a : x \in Items(a[i])} = {}
  OBVIOUS
<1> QED
  BY <1>1, FS_EmptySet DEF Times

(* What the messages the code makes are about. *)
LEMMA About ==
  /\ \A n : Items(Text(n)) = {<<"text", n>>} /\ Items(Note(n)) = {<<"note", n>>}
  /\ \A n : Items(Reminder(n)) = {<<"reminder", n>>}
  /\ Items(Words) = {} /\ Items(Resume) = {}
  /\ \A id, n : Items(Called(id, n)) = {}
  /\ \A id, outs : Items(Results(id, outs)) = {}
  /\ \A of : Items(Summary(of)) = of
BY DEF Items, Text, Note, Reminder, Words, Resume, Called, Results, Summary, Numbered

(* The notes made of a queue are about the notes of the queue. *)
LEMMA CountNotes ==
  ASSUME NEW queue
  PROVE  /\ \A n : Times(<<"note", n>>, Notes(queue)) = Queued(n, queue)
         /\ \A x : x[1] # "note" => Times(x, Notes(queue)) = 0
<1> DEFINE notes == Notes(queue)
<1>1. DOMAIN notes = DOMAIN queue /\ \A i \in DOMAIN queue : Items(notes[i]) = {<<"note", queue[i]>>}
  BY About DEF Notes
<1> HIDE DEF notes
<1>2. ASSUME NEW n PROVE Times(<<"note", n>>, notes) = Queued(n, queue)
  <2>1. {i \in DOMAIN notes : <<"note", n>> \in Items(notes[i])} = {i \in DOMAIN queue : queue[i] = n}
    BY <1>1
  <2> QED
    BY <2>1 DEF Times, Queued
<1>3. ASSUME NEW x, x[1] # "note" PROVE Times(x, notes) = 0
  <2>1. \A i \in DOMAIN notes : x \notin Items(notes[i])
    BY <1>1, <1>3
  <2> QED
    BY <2>1, CountNone
<1> QED
  BY <1>2, <1>3 DEF notes

(* A choice of the elements has no more of a kind than all of them have. *)
LEMMA FewerChosen ==
  ASSUME NEW S, NEW s \in Seq(S), NEW places \in SUBSET DOMAIN s, NEW T
  PROVE  Cardinality({k \in DOMAIN Selected(s, places) : Selected(s, places)[k] \in T})
           <= Cardinality({i \in DOMAIN s : s[i] \in T})
<1> DEFINE n == Cardinality(places)
           c == Selected(s, places)
           K == {k \in DOMAIN c : c[k] \in T}
           I == {i \in DOMAIN s : s[i] \in T}
           g == [k \in K |-> Nth(places, k)]
<1>1. /\ DOMAIN c = 1..n /\ n \in Nat
      /\ \A k \in 1..n : Nth(places, k) \in places /\ c[k] = s[Nth(places, k)]
      /\ places \in SUBSET Nat /\ IsFiniteSet(places)
  BY Chosen, Positions
<1>2. \A k, l \in 1..n : k < l => Nth(places, k) < Nth(places, l)
  BY <1>1, NthGrows
<1> HIDE DEF n, c
<1>3. I \in SUBSET DOMAIN s
  OBVIOUS
<1>4. IsFiniteSet(I)
  <2> HIDE DEF I
  <2> QED
    BY <1>3, Positions
<1>5. g \in [K -> I]
  BY <1>1
<1>6. ASSUME NEW k \in K, NEW l \in K, g[k] = g[l] PROVE k = l
  <2>1. k \in 1..n /\ l \in 1..n /\ Nth(places, k) = Nth(places, l)
    BY <1>1, <1>6
  <2>2. Nth(places, k) \in Nat /\ Nth(places, l) \in Nat
    BY <1>1, <2>1
  <2>3. ~(k < l) /\ ~(l < k)
    BY <1>2, <2>1, <2>2
  <2> QED
    BY <1>1, <2>1, <2>3
<1>7. g \in Injection(K, I)
  <2> HIDE DEF g, K, I
  <2> QED
    BY <1>5, <1>6 DEF Injection, IsInjective
<1>8. Cardinality(K) <= Cardinality(I)
  <2> HIDE DEF g, K, I
  <2> QED
    BY <1>4, <1>7, FS_Injection
<1> QED
  BY <1>8 DEF c

LEMMA SavedCounts ==
  ASSUME NEW a \in Seq(Message), NEW f, NEW x
  PROVE  Times(x, Saved(a, f)) <= Times(x, a)
<1> DEFINE places == {i \in DOMAIN a : f[i]}
           T == {m \in Message : x \in Items(m)}
           c == Selected(a, places)
<1>1. places \in SUBSET DOMAIN a
  OBVIOUS
<1>2. c = Saved(a, f) /\ c \in Seq(Message)
  BY SavedTyped DEF Saved
<1> HIDE DEF places
<1>3. Cardinality({k \in DOMAIN c : c[k] \in T}) <= Cardinality({i \in DOMAIN a : a[i] \in T})
  <2> HIDE DEF T
  <2> QED
    BY <1>1, FewerChosen
<1> HIDE DEF c
<1>4. {k \in DOMAIN c : c[k] \in T} = {k \in DOMAIN c : x \in Items(c[k])}
  BY <1>2
<1>5. {i \in DOMAIN a : a[i] \in T} = {i \in DOMAIN a : x \in Items(a[i])}
  OBVIOUS
<1> QED
  BY <1>2, <1>3, <1>4, <1>5 DEF Times

(* What is chosen of a queue that has an element once. *)
LEMMA QueuedChosen ==
  ASSUME NEW q \in Seq(Given), NEW gone \in SUBSET DOMAIN q, NEW k, Queued(k, q) <= 1
  PROVE  Queued(k, Selected(q, DOMAIN q \ gone)) + One(k \in {q[i] : i \in gone}) = Queued(k, q)
<1> DEFINE places == DOMAIN q \ gone
           c == Selected(q, places)
           I == {i \in DOMAIN q : q[i] = k}
<1>1. places \in SUBSET DOMAIN q
  OBVIOUS
<1>2. /\ c \in Seq(Given) /\ DOMAIN c = 1..Cardinality(places)
      /\ \A j \in 1..Cardinality(places) : Nth(places, j) \in places /\ c[j] = q[Nth(places, j)]
      /\ \A i \in places : \E j \in 1..Cardinality(places) : Nth(places, j) = i
  <2> HIDE DEF places
  <2> QED
    BY <1>1, Chosen
<1>3. Queued(k, c) <= Queued(k, q)
  <2>1. Cardinality({j \in DOMAIN c : c[j] \in {k}}) <= Cardinality({i \in DOMAIN q : q[i] \in {k}})
    <3> HIDE DEF places
    <3> QED
      BY <1>1, FewerChosen
  <2>2. /\ {j \in DOMAIN c : c[j] \in {k}} = {j \in DOMAIN c : c[j] = k}
        /\ {i \in DOMAIN q : q[i] \in {k}} = {i \in DOMAIN q : q[i] = k}
    OBVIOUS
  <2> QED
    BY <2>1, <2>2 DEF Queued
<1>4. Queued(k, c) \in Nat /\ Queued(k, q) \in Nat
  <2> HIDE DEF c
  <2> QED
    BY <1>2, QueuedInParts
<1>5. Queued(k, c) # 0 <=> \E i \in places : q[i] = k
  <2>1. Queued(k, c) # 0 <=> k \in Range(c)
    <3> HIDE DEF c
    <3> QED
      BY <1>2, CountSome
  <2> HIDE DEF c, places
  <2>2. k \in Range(c) <=> \E j \in DOMAIN c : c[j] = k
    BY DEF Range
  <2>3. (\E j \in DOMAIN c : c[j] = k) <=> \E i \in places : q[i] = k
    BY <1>2
  <2> QED
    BY <2>1, <2>2, <2>3
<1>6. Queued(k, q) # 0 <=> \E i \in DOMAIN q : q[i] = k
  BY CountSome DEF Range
<1>7. k \in {q[i] : i \in gone} /\ (\E i \in places : q[i] = k) => FALSE
  <2> SUFFICES ASSUME NEW i \in gone, NEW j \in places, q[i] = k, q[j] = k PROVE FALSE
    OBVIOUS
  <2>1. i \in I /\ j \in I /\ i # j /\ I \in SUBSET DOMAIN q
    OBVIOUS
  <2>2. IsFiniteSet(I) /\ Cardinality(I) \in Nat /\ Cardinality(I) <= 1
    <3>1. Cardinality(I) <= 1
      BY DEF Queued
    <3> HIDE DEF I
    <3> QED
      BY <2>1, <3>1, Positions
  <2>3. Cardinality({i, j}) = 2
    <3> DEFINE first == {i}
               both == {i, j}
    <3>1. both = first \cup {j} /\ j \notin first
      BY <2>1
    <3>2. IsFiniteSet(first) /\ Cardinality(first) = 1
      BY FS_Singleton
    <3> HIDE DEF first, both
    <3>3. Cardinality(first \cup {j})
            = IF j \in first THEN Cardinality(first) ELSE Cardinality(first) + 1
      BY <3>2, FS_AddElement
    <3>4. Cardinality(both) = 2
      BY <3>1, <3>2, <3>3
    <3> QED
      BY <3>4 DEF both
  <2>4. {i, j} \in SUBSET I
    BY <2>1
  <2>5. Cardinality({i, j}) <= Cardinality(I)
    <3> HIDE DEF I
    <3> QED
      BY <2>2, <2>4, FS_Subset
  <2> QED
    BY <2>2, <2>3, <2>5
<1>8. Queued(k, q) = 0 \/ Queued(k, q) = 1
  BY <1>4
<1>9. Queued(k, q) # 0 <=> k \in {q[i] : i \in gone} \/ \E i \in places : q[i] = k
  BY <1>6
<1> HIDE DEF c, places
<1>10. k \in {q[i] : i \in gone} <=> Queued(k, q) # 0 /\ Queued(k, c) = 0
  BY <1>5, <1>7, <1>9
<1> DEFINE in == k \in {q[i] : i \in gone}
<1> HIDE DEF in
<1>11. in <=> Queued(k, q) # 0 /\ Queued(k, c) = 0
  BY <1>10 DEF in
<1>12. Queued(k, c) + One(in) = Queued(k, q)
  BY <1>3, <1>4, <1>8, <1>11 DEF One
<1> QED
  BY <1>12 DEF in, c, places

(* What comes to the end of a queue, and what leaves either end of it. *)
LEMMA QueueCounts ==
  ASSUME NEW q \in Seq(Given), NEW n \in Given, NEW k
  PROVE  /\ Queued(k, q) \in Nat
         /\ Queued(k, Append(q, n)) = Queued(k, q) + One(k = n)
         /\ q # <<>> => /\ Queued(k, q) = Queued(k, Front(q)) + One(k = Last(q))
                        /\ Queued(k, q) = Queued(k, Tail(q)) + One(k = Head(q))
<1>1. Queued(k, q) \in Nat
  BY QueuedInParts
<1>2. Queued(k, Append(q, n)) = Queued(k, q) + One(k = n)
  <2>1. <<n>> \in Seq(Given) /\ Append(q, n) = q \o <<n>>
    BY AppendIsConcat
  <2>2. Queued(k, q \o <<n>>) = Queued(k, q) + Queued(k, <<n>>)
    BY <2>1, QueuedInParts
  <2> QED
    BY <2>1, <2>2, CountOne DEF One
<1>3. ASSUME q # <<>> PROVE Queued(k, q) = Queued(k, Front(q)) + One(k = Last(q))
  <2> DEFINE f == Front(q)
             l == Last(q)
  <2>1. f \in Seq(Given) /\ l \in Given /\ q = f \o <<l>>
    BY <1>3, FrontAndLast
  <2> HIDE DEF f, l
  <2>2. <<l>> \in Seq(Given)
    BY <2>1
  <2>3. Queued(k, q) = Queued(k, f) + Queued(k, <<l>>)
    BY <2>1, <2>2, QueuedInParts
  <2>4. Queued(k, <<l>>) = One(k = l)
    BY CountOne DEF One
  <2> QED
    BY <2>3, <2>4 DEF f, l
<1>4. ASSUME q # <<>> PROVE Queued(k, q) = Queued(k, Tail(q)) + One(k = Head(q))
  <2> DEFINE t == Tail(q)
             h == Head(q)
  <2>1. t \in Seq(Given) /\ h \in Given /\ q = <<h>> \o t
    BY <1>4, HeadAndTail
  <2> HIDE DEF t, h
  <2>2. <<h>> \in Seq(Given)
    BY <2>1
  <2>3. Queued(k, q) = Queued(k, <<h>>) + Queued(k, t)
    BY <2>1, <2>2, QueuedInParts
  <2>4. Queued(k, <<h>>) = One(k = h)
    BY CountOne DEF One
  <2>5. Queued(k, <<h>>) \in Nat /\ Queued(k, t) \in Nat
    BY <2>1, <2>2, QueuedInParts
  <2> QED
    BY <2>3, <2>4, <2>5 DEF t, h
<1> QED
  BY <1>1, <1>2, <1>3, <1>4
-----------------------------------------------------------------------------
(* Where a text, a note and a reminder can be, the log having nothing that  *)
(* the conversation does not have.                                          *)
TextAt(t) == Queued(t, steering) + Queued(t, followUps) + One(sending = t) + One(t \in recalled)
             + Times(<<"text", t>>, conv) + One(<<"text", t>> \in lost)
NoteAt(n) == Queued(n, inbox) + Queued(n, hooked) + Queued(n, held)
             + Times(<<"note", n>>, conv) + One(<<"note", n>> \in lost) + One(n \in dropped)
ReminderAt(r) == Times(<<"reminder", r>>, conv) + One(<<"reminder", r>> \in lost)

TextsOnce == \A t \in Given : TextAt(t) = One(t <= counts.texts)
NotesOnce == \A n \in Given : NoteAt(n) = One(n <= counts.notes)
RemindersOnce == \A r \in Given : ReminderAt(r) = One(r <= counts.reminders)
LogCounts == \A thing \in Thing : Times(thing, Rebuilt) <= Times(thing, conv)
DropsExcused == dropped # {} => failed
PlacesInv == TextsOnce /\ NotesOnce /\ RemindersOnce /\ LogCounts /\ DropsExcused

(* A summary in the place of messages loses nothing that is there once. *)
LEMMA CutCounts ==
  ASSUME NEW a \in Seq(Message), NEW from \in 1..Len(a), NEW x, Times(x, a) <= 1,
         NEW of, of = Known(SubSeq(a, 1, from - 1))
  PROVE  Kept(of, a, from) \in Seq(Message) /\ Times(x, Kept(of, a, from)) = Times(x, a)
<1> DEFINE before == SubSeq(a, 1, from - 1)
           keep == SubSeq(a, from, Len(a))
           m == Summary(of)
<1>1. before \in Seq(Message) /\ keep \in Seq(Message) /\ a = before \o keep
  <2>1. Marks(a, [i \in DOMAIN a |-> TRUE])
    BY SavedWhole
  <2>2. PICK f : Marks(a, f)
    BY <2>1
  <2> QED
    BY <2>2, CutInTwo
<1>2. Kept(of, a, from) = <<m>> \o keep
  BY DEF Kept
<1>3. m \in Message /\ Items(m) = Known(before)
  BY <1>1, KnownThings, Made, About
<1> HIDE DEF m, before, keep
<1>4. <<m>> \in Seq(Message)
  BY <1>3
<1>5. /\ Times(x, a) = Times(x, before) + Times(x, keep)
      /\ Times(x, <<m>> \o keep) = Times(x, <<m>>) + Times(x, keep)
      /\ Times(x, before) \in Nat /\ Times(x, keep) \in Nat
  BY <1>1, <1>4, TimesInParts
<1>6. Times(x, <<m>>) = One(x \in Known(before))
  BY <1>3, CountOne
<1>7. x \in Known(before) <=> Times(x, before) # 0
  BY <1>1, CountSome
<1>8. Times(x, before) = 0 \/ Times(x, before) = 1
  BY <1>5
<1>9. Times(x, <<m>>) = Times(x, before)
  BY <1>6, <1>7, <1>8 DEF One
<1>10. <<m>> \o keep \in Seq(Message)
  BY <1>1, <1>4
<1> QED
  BY <1>2, <1>5, <1>9, <1>10

(* The log has nothing the conversation does not have. *)
LEMMA LogCountsStep ==
  ASSUME TalkTyped, LogCounts, \A thing \in Thing : Times(thing, conv) <= 1,
         UNCHANGED talk \/ Said \/ Recorded \/ Unrecorded \/ Resumed
  PROVE  LogCounts'
<1>1. conv \in Seq(Message) /\ log \in Seq(Entry) /\ Rebuilt \in Seq(Message)
  BY RebuiltTyped DEF TalkTyped, Rebuilt
<1>2. \A messages \in Seq(Message) : \A x : Times(x, messages) \in Nat
  BY TimesInParts
<1> SUFFICES ASSUME NEW x \in Thing
             PROVE  Times(x, rebuildFromSession(log')) <= Times(x, conv')
  BY DEF LogCounts, Rebuilt
<1>3. /\ Times(x, Rebuilt) <= Times(x, conv) /\ Times(x, conv) <= 1
      /\ Times(x, Rebuilt) \in Nat /\ Times(x, conv) \in Nat
  BY <1>1, <1>2 DEF LogCounts
<1>4. CASE UNCHANGED talk
  <2>1. conv' = conv /\ rebuildFromSession(log') = Rebuilt
    BY <1>4 DEF talk, Rebuilt
  <2> QED
    BY <1>3, <2>1
<1>5. CASE Said
  <2>1. PICK a \in Seq(Message), f \in Seq(BOOLEAN) : Added(a, f)
    BY <1>5 DEF Said
  <2> DEFINE b == Saved(a, f)
  <2>2. conv' = conv \o a /\ log' = log \o b /\ b \in Seq(Message)
    BY <2>1, SavedTyped DEF Added
  <2>3. Times(x, b) <= Times(x, a)
    BY SavedCounts
  <2> HIDE DEF b
  <2>4. rebuildFromSession(log \o b) = Rebuilt \o b
    BY <1>1, <2>2, SaidIsRebuilt DEF Rebuilt
  <2>5. /\ Times(x, Rebuilt \o b) = Times(x, Rebuilt) + Times(x, b)
        /\ Times(x, conv \o a) = Times(x, conv) + Times(x, a)
    BY <1>1, <2>2, TimesInParts
  <2>6. Times(x, a) \in Nat /\ Times(x, b) \in Nat
    BY <1>2, <2>2
  <2>7. /\ Times(x, rebuildFromSession(log')) = Times(x, Rebuilt) + Times(x, b)
        /\ Times(x, conv') = Times(x, conv) + Times(x, a)
    BY <2>2, <2>4, <2>5
  <2> DEFINE told == Times(x, a)
             noted == Times(x, b)
             kept == Times(x, Rebuilt)
             here == Times(x, conv)
  <2>8. kept \in Nat /\ here \in Nat /\ told \in Nat /\ noted \in Nat /\ kept <= here /\ noted <= told
    BY <1>3, <2>3, <2>6
  <2> HIDE DEF told, noted, kept, here
  <2>9. kept + noted <= here + told
    BY <2>8
  <2> QED
    BY <2>7, <2>9 DEF told, noted, kept, here
<1>6. CASE Recorded
  <2>1. PICK from \in 1..Len(conv), of \in SUBSET Thing :
          /\ of = Known(SubSeq(conv, 1, from - 1)) /\ conv' = Kept(of, conv, from)
          /\ log' = Append(log, Boundary(of, SubSeq(conv, from, Len(conv))))
    BY <1>6 DEF Recorded
  <2>2. SubSeq(conv, from, Len(conv)) \in Seq(Message)
    <3>1. PICK f : Marks(conv, f)
      BY SavedWhole, <1>1
    <3> QED
      BY <1>1, <3>1, CutInTwo
  <2>3. rebuildFromSession(log') = conv'
    BY <1>1, <2>1, <2>2, CutIsRebuilt DEF Kept
  <2>4. conv' \in Seq(Message)
    BY <1>1, <1>3, <2>1, CutCounts
  <2>5. Times(x, conv') \in Nat
    BY <1>2, <2>4
  <2> QED
    BY <2>3, <2>5
<1>7. CASE Unrecorded
  <2>1. PICK from \in 1..Len(conv), of \in SUBSET Thing :
          /\ of = Known(SubSeq(conv, 1, from - 1)) /\ conv' = Kept(of, conv, from)
          /\ log' = log
    BY <1>7 DEF Unrecorded
  <2>2. Times(x, conv') = Times(x, conv)
    BY <1>1, <1>3, <2>1, CutCounts
  <2>3. rebuildFromSession(log') = Rebuilt
    BY <2>1 DEF Rebuilt
  <2> QED
    BY <1>3, <2>2, <2>3
<1>8. CASE Resumed
  <2>1. rebuildFromSession(log') = conv' /\ conv' = Rebuilt
    BY <1>8 DEF Resumed, Rebuilt
  <2> QED
    BY <1>3, <2>1
<1> QED
  BY <1>4, <1>5, <1>6, <1>7, <1>8
-----------------------------------------------------------------------------
(* The conversation has as many of the texts, notes or reminders as before. *)
Quiet(kind) == \A k \in Given : Times(<<kind, k>>, conv') = Times(<<kind, k>>, conv)

(* Messages about nothing. *)
LEMMA AboutNothing ==
  /\ \A x : Times(x, <<>>) = 0 /\ Times(x, <<Words>>) = 0 /\ Times(x, <<Words, Resume>>) = 0
  /\ \A x, id, n : Times(x, <<Called(id, n)>>) = 0
  /\ \A x, id, outs : Times(x, <<Results(id, outs)>>) = 0
<1>1. ASSUME NEW x PROVE Times(x, <<Words, Resume>>) = 0
  <2>1. \A i \in DOMAIN <<Words, Resume>> : x \notin Items(<<Words, Resume>>[i])
    BY About
  <2> QED
    BY <2>1, CountNone
<1> QED
  BY <1>1, CountOne, About DEF One

(* Of what is said, the messages up to one come into the conversation. *)
LEMMA SaidSome ==
  ASSUME NEW messages \in Seq(Message), Say(messages) \/ SayFails(messages)
  PROVE  \E n \in 0..Len(messages) :
           conv' = conv \o SubSeq(messages, 1, n) /\ SubSeq(messages, 1, n) \in Seq(Message)
<1>1. PICK n \in 0..Len(messages) : conv' = conv \o SubSeq(messages, 1, n)
  <2>1. CASE Say(messages)
    <3>1. Len(messages) \in 0..Len(messages)
      OBVIOUS
    <3> QED
      BY <2>1, <3>1 DEF Say, SayTo
  <2>2. CASE SayFails(messages)
    <3>1. PICK n \in DOMAIN messages : conv' = conv \o SubSeq(messages, 1, n)
      BY <2>2 DEF SayFails, SayTo
    <3>2. n \in 0..Len(messages)
      OBVIOUS
    <3> QED
      BY <3>1, <3>2
  <2> QED
    BY <2>1, <2>2
<1>2. \A i \in 1..n : messages[i] \in Message
  OBVIOUS
<1>3. SubSeq(messages, 1, n) \in Seq(Message)
  BY <1>2, SubSeqProperties
<1> QED
  BY <1>1, <1>3

LEMMA SaidQuietly ==
  ASSUME conv \in Seq(Message), NEW messages \in Seq(Message), Say(messages) \/ SayFails(messages),
         NEW kind, \A k \in Given : Times(<<kind, k>>, messages) = 0
  PROVE  Quiet(kind)
<1>1. PICK n \in 0..Len(messages) :
        conv' = conv \o SubSeq(messages, 1, n) /\ SubSeq(messages, 1, n) \in Seq(Message)
  BY SaidSome
<1> SUFFICES ASSUME NEW k \in Given PROVE Times(<<kind, k>>, conv') = Times(<<kind, k>>, conv)
  BY DEF Quiet
<1> DEFINE x == <<kind, k>>
           a == SubSeq(messages, 1, n)
<1>2. x \notin Known(messages)
  BY CountSome
<1>3. \A i \in DOMAIN a : x \notin Items(a[i])
  <2>1. \A i \in DOMAIN a : i \in DOMAIN messages /\ a[i] = messages[i]
    OBVIOUS
  <2> QED
    BY <1>2, <2>1 DEF Known
<1>4. a \in Seq(Message) /\ conv' = conv \o a
  BY <1>1
<1> HIDE DEF a
<1>5. Times(x, a) = 0
  BY <1>3, CountNone
<1>6. Times(x, conv) \in Nat /\ Times(x, conv \o a) = Times(x, conv) + Times(x, a)
  BY <1>4, TimesInParts
<1> QED
  BY <1>4, <1>5, <1>6

(* What is said that is about nothing. *)
LEMMA SaidNothing ==
  ASSUME conv \in Seq(Message), NEW messages \in Seq(Message), Say(messages) \/ SayFails(messages),
         \A x : Times(x, messages) = 0
  PROVE  Quiet("text") /\ Quiet("note") /\ Quiet("reminder")
BY SaidQuietly
(* Which steps put texts, notes and reminders into the conversation, but for *)
(* a compaction and a death.                                                 *)
LEMMA QuietSteps ==
  ASSUME Typed, [Next]_vars, ~Summarized, ~BoundaryFails, ~Crash
  PROVE  /\ Prepared \/ PreparedFails \/ Deliver \/ DeliverFails \/ Quiet("text")
         /\ Top \/ HeadFails \/ PreSend \/ RecordNote \/ RecordFails \/ Quiet("note")
         /\ Remind \/ Quiet("reminder")
<1>1. conv \in Seq(Message)
  BY DEF Typed, TalkTyped
<1>2. CASE UNCHANGED conv
  BY <1>2 DEF Quiet
<1>3. CASE Remind
  <2> DEFINE m == Reminder(counts'.reminders)
  <2>1. m \in Message
    BY <1>3, EventCounts, Made DEF Remind, Typed
  <2>2. conv' = Append(conv, m) /\ Items(m) = {<<"reminder", counts'.reminders>>}
    BY <1>3, About DEF Remind
  <2> HIDE DEF m
  <2>3. conv' = conv \o <<m>> /\ <<m>> \in Seq(Message)
    BY <1>1, <2>1, <2>2, AppendIsConcat
  <2>4. \A x : /\ Times(x, conv) \in Nat
               /\ Times(x, conv \o <<m>>) = Times(x, conv) + Times(x, <<m>>)
    BY <1>1, <2>3, TimesInParts
  <2>5. \A k : Times(<<"text", k>>, <<m>>) = 0 /\ Times(<<"note", k>>, <<m>>) = 0
    BY <2>2, CountOne DEF One
  <2> QED
    BY <1>3, <2>3, <2>4, <2>5 DEF Quiet
<1>4. CASE Interrupted \/ Fail
  <2>1. PICK words \in BOOLEAN : Partial(words)
    BY <1>4 DEF Interrupted, Fail
  <2>2. CASE words
    BY <1>1, <2>1, <2>2, AboutNothing, Sayings, SaidNothing DEF Partial
  <2>3. CASE ~words
    BY <1>1, <2>1, <2>3, AboutNothing, Sayings, SaidNothing DEF Partial
  <2> QED
    BY <2>1, <2>2, <2>3
<1>5. CASE Continue \/ Answer
  <2>1. Say(<<>>) \/ Say(<<Words>>) \/ Say(<<Words, Resume>>)
    BY <1>5 DEF Continue, Answer
  <2> QED
    BY <1>1, <2>1, AboutNothing, Sayings, SaidNothing
<1>6. CASE WordsFail
  <2>1. SayFails(<<Words>>) \/ SayFails(<<Words, Resume>>)
    BY <1>6 DEF WordsFail
  <2> QED
    BY <1>1, <2>1, AboutNothing, Sayings, SaidNothing
<1>7. CASE CallTools \/ CallsFail
  <2> DEFINE m == Called(turn', response.calls)
  <2>1. turn' \in Nat /\ response.calls \in Nat
    BY <1>7, Bounds DEF CallTools, CallsFail, Typed, CallsTyped, ControlTyped, Responses
  <2>2. m \in Message /\ (Say(<<m>>) \/ SayFails(<<m>>)) /\ \A x : Times(x, <<m>>) = 0
    BY <1>7, <2>1, Made, AboutNothing DEF CallTools, CallsFail
  <2> HIDE DEF m
  <2>3. <<m>> \in Seq(Message)
    BY <2>2
  <2> QED
    BY <1>1, <2>2, <2>3, SaidNothing
<1>8. CASE Finish \/ ResultsFail
  <2> DEFINE m == Results(turn, calls)
  <2>1. turn \in Nat /\ calls \in Seq(Settled)
    <3>1. calls \in Seq(CallState) /\ turn \in Nat /\ \A p \in DOMAIN calls : calls[p] \in Settled
      BY <1>8 DEF Finish, ResultsFail, Complete, Typed, CallsTyped
    <3> QED
      BY <3>1
  <2>2. m \in Message /\ (Say(<<m>>) \/ SayFails(<<m>>)) /\ \A x : Times(x, <<m>>) = 0
    BY <1>8, <2>1, Made, AboutNothing DEF Finish, ResultsFail
  <2> HIDE DEF m
  <2>3. <<m>> \in Seq(Message)
    BY <2>2
  <2> QED
    BY <1>1, <2>2, <2>3, SaidNothing
<1>9. ASSUME NEW n \in Given, Say(<<Text(n)>>) \/ SayFails(<<Text(n)>>)
      PROVE  Quiet("note") /\ Quiet("reminder")
  <2> DEFINE m == Text(n)
  <2>1. m \in Message /\ Items(m) = {<<"text", n>>} /\ (Say(<<m>>) \/ SayFails(<<m>>))
    BY <1>9, Made, About
  <2> HIDE DEF m
  <2>2. <<m>> \in Seq(Message)
    BY <2>1
  <2>3. \A k : Times(<<"note", k>>, <<m>>) = 0 /\ Times(<<"reminder", k>>, <<m>>) = 0
    BY <2>1, CountOne DEF One
  <2> QED
    BY <1>1, <2>1, <2>2, <2>3, SaidQuietly
<1>10. CASE Prepared \/ PreparedFails
  BY <1>9, <1>10 DEF Prepared, PreparedFails, Typed, QueuesTyped
<1>11. CASE Deliver \/ DeliverFails
  <2>1. Head(steering) \in Given
    BY <1>11, HeadAndTail DEF Deliver, DeliverFails, Typed, QueuesTyped
  <2> QED
    BY <1>9, <1>11, <2>1 DEF Deliver, DeliverFails
<1>12. ASSUME NEW queue \in Seq(Given), Say(Notes(queue)) \/ SayFails(Notes(queue))
       PROVE  Quiet("text") /\ Quiet("reminder")
  <2> DEFINE notes == Notes(queue)
  <2>1. notes \in Seq(Message) /\ (Say(notes) \/ SayFails(notes))
    BY <1>12, Sayings
  <2>2. \A k : Times(<<"text", k>>, notes) = 0 /\ Times(<<"reminder", k>>, notes) = 0
    BY CountNotes
  <2> HIDE DEF notes
  <2> QED
    BY <1>1, <2>1, <2>2, SaidQuietly
<1>13. CASE Top \/ HeadFails
  <2>1. UNCHANGED conv \/ Say(Notes(hooked)) \/ SayFails(Notes(hooked))
    BY <1>13 DEF Top, HeadFails, talk
  <2> QED
    BY <1>12, <1>13, <1>2, <2>1 DEF Typed, QueuesTyped
<1>14. CASE PreSend
  BY <1>12, <1>14 DEF PreSend, Typed, QueuesTyped
<1>15. CASE RecordNote \/ RecordFails
  <2> DEFINE m == Note(Head(held))
  <2>1. Head(held) \in Given
    BY <1>15, HeadAndTail DEF RecordNote, RecordFails, Typed, QueuesTyped
  <2>2. m \in Message /\ Items(m) = {<<"note", Head(held)>>} /\ (Say(<<m>>) \/ SayFails(<<m>>))
    BY <1>15, <2>1, Made, About DEF RecordNote, RecordFails
  <2> HIDE DEF m
  <2>3. <<m>> \in Seq(Message)
    BY <2>2
  <2>4. \A k : Times(<<"text", k>>, <<m>>) = 0 /\ Times(<<"reminder", k>>, <<m>>) = 0
    BY <2>2, CountOne DEF One
  <2> QED
    BY <1>1, <1>15, <2>2, <2>3, <2>4, SaidQuietly
<1>16. CASE Others
  BY <1>2, <1>3, <1>16 DEF Others, Submit, Recall, Abort, Post, HookNote, talk
<1>17. CASE Faults
  BY <1>2, <1>7, <1>8, <1>10, <1>11, <1>13, <1>15, <1>6, <1>17 DEF Faults, DrainFails, talk
<1>18. CASE Waits
  BY <1>2, <1>4, <1>14, <1>18
     DEF Waits, SummaryFails, Receive, TooLong, Retry, Woken, Refuse, Launch, ToolEnds, talk
<1>19. CASE Steps
  BY <1>2, <1>5, <1>7, <1>8, <1>10, <1>11, <1>13, <1>15, <1>19
     DEF Steps, SendFollowUp, Wake, DrainInbox, Settle, Ask, RunBatch, Advance, Close, talk
<1> QED
  BY <1>2, <1>16, <1>18, <1>19, <1>17 DEF Next, vars, talk

(* A compaction puts a summary in the place of messages. *)
LEMMA Cutting ==
  ASSUME Typed, [Next]_vars, Summarized \/ BoundaryFails, NEW x, Times(x, conv) <= 1
  PROVE  Times(x, conv') = Times(x, conv)
<1>1. conv \in Seq(Message) /\ compact.from \in 1..Len(conv)
  BY DEF Typed, TalkTyped, CompactTyped, Summarized, BoundaryFails, Unchanged
<1>2. conv' = Kept(Known(SubSeq(conv, 1, compact.from - 1)), conv, compact.from)
  BY DEF Summarized, BoundaryFails, Unchanged, Shorten, Kept
<1> QED
  BY <1>1, <1>2, CutCounts

(* What a death finds in memory is what is there at least once. *)
LEMMA CountMemory ==
  ASSUME Typed, NEW k \in Given
  PROVE  /\ <<"text", k>> \in InMemory
              <=> \/ Times(<<"text", k>>, conv) # 0
                  \/ Queued(k, steering) # 0 \/ Queued(k, followUps) # 0 \/ sending = k
         /\ <<"note", k>> \in InMemory
              <=> \/ Times(<<"note", k>>, conv) # 0
                  \/ Queued(k, hooked) # 0 \/ Queued(k, held) # 0
         /\ <<"reminder", k>> \in InMemory <=> Times(<<"reminder", k>>, conv) # 0
<1>1. /\ conv \in Seq(Message) /\ k # 0
      /\ steering \in Seq(Given) /\ followUps \in Seq(Given)
      /\ hooked \in Seq(Given) /\ held \in Seq(Given)
  BY Bounds DEF Typed, TalkTyped, QueuesTyped, Given
<1>2. \A x : x \in Known(conv) <=> Times(x, conv) # 0
  BY <1>1, CountSome
<1>3. ASSUME NEW a \in Seq(Given), NEW b \in Seq(Given)
      PROVE  k \in Range(a \o b) <=> Queued(k, a) # 0 \/ Queued(k, b) # 0
  <2>1. a \o b \in Seq(Given)
    OBVIOUS
  <2>2. k \in Range(a \o b) <=> Queued(k, a \o b) # 0
    BY <2>1, CountSome
  <2>3. /\ Queued(k, a) \in Nat /\ Queued(k, b) \in Nat
        /\ Queued(k, a \o b) = Queued(k, a) + Queued(k, b)
    BY QueuedInParts
  <2> QED
    BY <2>2, <2>3
<1>4. k \in Range(steering \o followUps) <=> Queued(k, steering) # 0 \/ Queued(k, followUps) # 0
  BY <1>1, <1>3
<1>5. k \in Range(hooked \o held) <=> Queued(k, hooked) # 0 \/ Queued(k, held) # 0
  BY <1>1, <1>3
<1>6. <<"text", k>> \in InMemory
        <=> <<"text", k>> \in Known(conv) \/ k \in Range(steering \o followUps) \/ sending = k
  BY <1>1 DEF InMemory
<1>7. <<"note", k>> \in InMemory <=> <<"note", k>> \in Known(conv) \/ k \in Range(hooked \o held)
  BY DEF InMemory
<1>8. <<"reminder", k>> \in InMemory <=> <<"reminder", k>> \in Known(conv)
  BY DEF InMemory
<1> QED
  BY <1>2, <1>4, <1>5, <1>6, <1>7, <1>8
-----------------------------------------------------------------------------
(* Which steps number a text, a note or a reminder. *)
LEMMA Numbering ==
  ASSUME Typed, [Next]_vars
  PROVE  /\ counts.texts \in Nat /\ counts.notes \in Nat /\ counts.reminders \in Nat
         /\ Submit \/ counts'.texts = counts.texts
         /\ Post \/ HookNote \/ counts'.notes = counts.notes
         /\ Remind \/ counts'.reminders = counts.reminders
<1>1. CountsTyped
  BY DEF Typed
<1>2. counts.texts \in Nat /\ counts.notes \in Nat /\ counts.reminders \in Nat
  BY <1>1 DEF CountsTyped
<1>3. CASE UNCHANGED counts
  BY <1>2, <1>3
<1>4. ASSUME Event("others")
      PROVE  /\ counts'.texts = counts.texts /\ counts'.notes = counts.notes
             /\ counts'.reminders = counts.reminders
  BY <1>1, <1>4, EventCounts
<1>5. ASSUME Event("texts")
      PROVE  counts'.notes = counts.notes /\ counts'.reminders = counts.reminders
  BY <1>1, <1>5, EventCounts
<1>6. ASSUME Event("notes")
      PROVE  counts'.texts = counts.texts /\ counts'.reminders = counts.reminders
  BY <1>1, <1>6, EventCounts
<1>7. ASSUME Event("reminders")
      PROVE  counts'.texts = counts.texts /\ counts'.notes = counts.notes
  BY <1>1, <1>7, EventCounts
<1>8. CASE Others
  BY <1>2, <1>3, <1>4, <1>5, <1>6, <1>7, <1>8
     DEF Others, Submit, Recall, Abort, Remind, Post, HookNote, Crash
<1>9. CASE Waits
  BY <1>2, <1>3, <1>4, <1>9
     DEF Waits, PreSend, BeginCompact, Summarized, SummaryFails, Interrupted, Receive,
         TooLong, Retry, Fail, Woken, Refuse, Launch, ToolEnds
<1>10. CASE Faults
  BY <1>2, <1>4, <1>10, FaultsFrame
<1>11. CASE Steps
  BY <1>2, <1>3, <1>11
     DEF Steps, SendFollowUp, Prepared, Wake, Top, DrainInbox, RecordNote, Continue,
         Answer, CallTools, Settle, Ask, RunBatch, Finish, Deliver, Advance, Close
<1> QED
  BY <1>2, <1>3, <1>8, <1>9, <1>11, <1>10 DEF Next, vars

(* The steps that leave the texts where they are. *)
LEMMA TextsStay ==
  ASSUME [Next]_vars, ~Submit, ~Recall, ~SendFollowUp, ~Prepared, ~PreparedFails, ~Deliver,
         ~DeliverFails, ~Close, ~Crash
  PROVE  UNCHANGED <<steering, followUps, sending, recalled, lost>>
<1>1. CASE Others
  BY <1>1 DEF Others, Abort, Remind, Post, HookNote, queues, history
<1>2. CASE Waits
  BY <1>2 DEF Waits, PreSend, Summarized, SummaryFails, Interrupted, Receive,
              TooLong, Retry, Fail, Woken, Refuse, Launch, ToolEnds, queues, history
<1>3. CASE Steps
  BY <1>3 DEF Steps, Wake, Top, DrainInbox, RecordNote, Continue, Answer, CallTools, Settle,
              Ask, RunBatch, Finish, Advance, queues, history
<1>4. CASE Faults
  BY <1>4 DEF Faults, HeadFails, DrainFails, RecordFails, BoundaryFails, WordsFail, CallsFail,
              ResultsFail, queues
<1>5. CASE UNCHANGED vars
  BY <1>5 DEF vars, queues, history
<1> QED
  BY <1>1, <1>2, <1>3, <1>5, <1>4 DEF Next

(* The steps that leave the notes where they are. *)
LEMMA NotesStay ==
  ASSUME [Next]_vars, ~Post, ~HookNote, ~Top, ~HeadFails, ~DrainInbox, ~DrainFails,
         ~RecordNote, ~RecordFails, ~PreSend, ~Crash
  PROVE  UNCHANGED <<inbox, hooked, held, lost, dropped>>
<1>1. CASE Others
  BY <1>1 DEF Others, Submit, Recall, Abort, Remind, queues, history
<1>2. CASE Waits
  BY <1>2 DEF Waits, Summarized, SummaryFails, Interrupted, Receive,
              TooLong, Retry, Fail, Woken, Refuse, Launch, ToolEnds, queues, history
<1>3. CASE Steps
  BY <1>3 DEF Steps, SendFollowUp, Prepared, Wake, Continue, Answer, CallTools, Settle,
              Ask, RunBatch, Finish, Deliver, Advance, Close, queues, history
<1>4. CASE Faults
  BY <1>4 DEF Faults, PreparedFails, BoundaryFails, WordsFail, CallsFail, ResultsFail,
              DeliverFails, queues
<1>5. CASE UNCHANGED vars
  BY <1>5 DEF vars, queues, history
<1> QED
  BY <1>1, <1>2, <1>3, <1>5, <1>4 DEF Next
-----------------------------------------------------------------------------
(* A text is in one place before a step and after it. *)
LEMMA TextStep ==
  ASSUME Typed, TextsOnce, LogCounts, [Next]_vars, NEW k \in Given
  PROVE  Queued(k, steering') + Queued(k, followUps') + One(sending' = k) + One(k \in recalled')
           + Times(<<"text", k>>, conv') + One(<<"text", k>> \in lost') = One(k <= counts'.texts)
<1> DEFINE x == <<"text", k>>
           s == Queued(k, steering)
           f == Queued(k, followUps)
           p == One(sending = k)
           r == One(k \in recalled)
           c == Times(x, conv)
           l == One(x \in lost)
           g == One(k <= counts.texts)
<1>1. /\ conv \in Seq(Message) /\ steering \in Seq(Given) /\ followUps \in Seq(Given)
      /\ k \in Nat /\ k # 0 /\ (pc = "prepare" <=> sending # 0)
  BY Bounds DEF Typed, TalkTyped, QueuesTyped, Given
<1>2. /\ counts.texts \in Nat /\ (Submit \/ counts'.texts = counts.texts)
  BY Numbering
<1>3. s \in Nat /\ f \in Nat /\ c \in Nat
  BY <1>1, QueuedInParts, TimesInParts
<1>4. /\ p \in {0, 1} /\ r \in {0, 1} /\ l \in {0, 1} /\ g \in {0, 1}
      /\ s + f + p + r + c + l = g
  BY DEF TextsOnce, TextAt, One
<1>5. ~Submit => One(k <= counts'.texts) = g
  BY <1>2
<1>6. ~Summarized /\ ~BoundaryFails /\ ~Crash
        => Prepared \/ PreparedFails \/ Deliver \/ DeliverFails \/ Times(x, conv') = c
  BY QuietSteps DEF Quiet
<1>7. CASE Submit
  <2> DEFINE n == counts'.texts
  <2>1. n = counts.texts + 1 /\ n \in Given
    BY <1>7, EventCounts DEF Submit, Typed
  <2>2. /\ Queued(k, Append(steering, n)) = s + One(k = n)
        /\ Queued(k, Append(followUps, n)) = f + One(k = n)
    <3>1. n \in Given
      BY <2>1
    <3> HIDE DEF n
    <3> QED
      BY <1>1, <3>1, QueueCounts
  <2>3. \/ Queued(k, steering') = s + One(k = n) /\ Queued(k, followUps') = f
        \/ Queued(k, steering') = s /\ Queued(k, followUps') = f + One(k = n)
    BY <1>7, <2>2 DEF Submit
  <2>4. /\ One(sending' = k) = p /\ One(k \in recalled') = r /\ One(x \in lost') = l
    BY <1>7 DEF Submit, history
  <2>5. One(k <= n) = g + One(k = n) /\ One(k = n) \in {0, 1}
    BY <1>1, <1>2, <2>1 DEF One
  <2>6. Times(x, conv') = c
    BY <1>7 DEF Submit, talk
  <2> HIDE DEF s, f, p, r, c, l, g, n, x
  <2> QED
    BY <1>3, <1>4, <2>3, <2>4, <2>5, <2>6 DEF n, x
<1>8. CASE Recall
  <2>1. ASSUME NEW q \in Seq(Given), q # <<>>, recalled' = recalled \cup {Last(q)},
               Queued(k, q) + r <= 1
        PROVE  Queued(k, Front(q)) + One(k \in recalled') = Queued(k, q) + r
    <3>1. Queued(k, q) = Queued(k, Front(q)) + One(k = Last(q))
      BY <1>1, <2>1, QueueCounts
    <3>2. Queued(k, Front(q)) \in Nat
      BY <2>1, FrontAndLast, QueuedInParts
    <3>3. CASE k = Last(q)
      <4>1. Queued(k, q) = Queued(k, Front(q)) + 1 /\ One(k \in recalled') = 1
        BY <2>1, <3>1, <3>3 DEF One
      <4>2. r = 0
        BY <1>4, <2>1, <3>2, <4>1
      <4> QED
        BY <3>2, <4>1, <4>2
    <3>4. CASE k # Last(q)
      BY <2>1, <3>1, <3>2, <3>4 DEF One
    <3> QED
      BY <3>3, <3>4
  <2>2. /\ One(sending' = k) = p /\ One(x \in lost') = l
        /\ Times(x, conv') = c
    BY <1>8 DEF Recall, talk
  <2>3. counts' = counts
    BY <1>8 DEF Recall
  <2>4. s + r <= 1 /\ f + r <= 1
    <3> HIDE DEF s, f, p, r, c, l, g
    <3> QED
      BY <1>3, <1>4
  <2>5. CASE followUps # <<>>
    <3>1. Queued(k, Front(followUps)) + One(k \in recalled') = f + r
      BY <1>1, <1>8, <2>1, <2>4, <2>5 DEF Recall
    <3>2. followUps' = Front(followUps) /\ Queued(k, steering') = s
      BY <1>8, <2>5 DEF Recall
    <3>3. Queued(k, Front(followUps)) \in Nat /\ One(k \in recalled') \in {0, 1}
      BY <1>1, <2>5, FrontAndLast, QueuedInParts DEF One
    <3> DEFINE f2 == Queued(k, followUps')
               r2 == One(k \in recalled')
    <3>4. f2 + r2 = f + r /\ f2 \in Nat /\ r2 \in {0, 1}
      BY <3>1, <3>2, <3>3
    <3> HIDE DEF s, f, p, r, c, l, g, x, f2, r2
    <3>5. s + f2 + p + r2 + c + l = g
      BY <1>3, <1>4, <3>4
    <3> QED
      BY <2>2, <2>3, <3>2, <3>5 DEF f2, r2, g, x
  <2>6. CASE followUps = <<>>
    <3>1. Queued(k, Front(steering)) + One(k \in recalled') = s + r
      BY <1>1, <1>8, <2>1, <2>4, <2>6 DEF Recall
    <3>2. steering' = Front(steering) /\ Queued(k, followUps') = f
      BY <1>8, <2>6 DEF Recall
    <3>3. Queued(k, Front(steering)) \in Nat /\ One(k \in recalled') \in {0, 1}
      BY <1>1, <1>8, <2>6, FrontAndLast, QueuedInParts DEF One, Recall
    <3> DEFINE s2 == Queued(k, steering')
               r2 == One(k \in recalled')
    <3>4. s2 + r2 = s + r /\ s2 \in Nat /\ r2 \in {0, 1}
      BY <3>1, <3>2, <3>3
    <3> HIDE DEF s, f, p, r, c, l, g, x, s2, r2
    <3>5. s2 + f + p + r2 + c + l = g
      BY <1>3, <1>4, <3>4
    <3> QED
      BY <2>2, <2>3, <3>2, <3>5 DEF s2, r2, g, x
  <2> QED
    BY <2>5, <2>6
<1>9. CASE SendFollowUp
  <2>1. /\ f = Queued(k, Tail(followUps)) + One(k = Head(followUps))
        /\ Queued(k, Tail(followUps)) \in Nat
    BY <1>1, <1>9, QueueCounts, HeadAndTail, QueuedInParts DEF SendFollowUp
  <2>2. /\ steering' = steering /\ conv' = conv /\ lost' = lost /\ recalled' = recalled
        /\ counts' = counts /\ sending' = Head(followUps) /\ followUps' = Tail(followUps)
        /\ sending = 0
    BY <1>1, <1>9 DEF SendFollowUp, talk, history
  <2>3. p = 0 /\ One(sending' = k) = One(k = Head(followUps)) /\ One(sending' = k) \in {0, 1}
    BY <1>1, <2>2 DEF One
  <2> DEFINE f2 == Queued(k, followUps')
             p2 == One(sending' = k)
  <2>4. f = f2 + p2 /\ f2 \in Nat /\ p2 \in {0, 1} /\ p = 0
    BY <2>1, <2>2, <2>3
  <2> HIDE DEF s, f, p, r, c, l, g, x, f2, p2
  <2>5. s + f2 + p2 + r + c + l = g
    BY <1>3, <1>4, <2>4
  <2> QED
    BY <2>2, <2>5 DEF s, f2, p2, r, c, l, g, x
<1>10. ASSUME NEW n \in Given, Say(<<Text(n)>>) \/ SayFails(<<Text(n)>>)
       PROVE  Times(x, conv') = c + One(k = n)
  <2> DEFINE m == Text(n)
  <2>1. m \in Message /\ Items(m) = {<<"text", n>>} /\ (Say(<<m>>) \/ SayFails(<<m>>))
    BY <1>10, Made, About
  <2> HIDE DEF m
  <2>2. m \in Message /\ Items(m) = {<<"text", n>>} /\ conv' = conv \o <<m>>
    BY <2>1, OneIsSaid
  <2>3. <<m>> \in Seq(Message)
    BY <2>2
  <2>4. Times(x, conv \o <<m>>) = Times(x, conv) + Times(x, <<m>>)
    BY <1>1, <2>3, TimesInParts
  <2>5. Times(x, <<m>>) = One(k = n)
    BY <2>2, CountOne DEF One
  <2> QED
    BY <2>2, <2>4, <2>5
<1>11. CASE Prepared \/ PreparedFails
  <2>1. /\ steering' = steering /\ followUps' = followUps /\ lost' = lost
        /\ recalled' = recalled /\ sending' = 0
        /\ sending \in Given /\ (Say(<<Text(sending)>>) \/ SayFails(<<Text(sending)>>))
    BY <1>11 DEF Prepared, PreparedFails, Typed, QueuesTyped, history
  <2>2. One(k <= counts'.texts) = g
    BY <1>5, <1>11 DEF Prepared, PreparedFails, Submit, Goto
  <2>3. Times(x, conv') = c + p
    BY <1>10, <2>1 DEF One
  <2>4. One(sending' = k) = 0
    BY <1>1, <2>1 DEF One
  <2> HIDE DEF s, f, p, r, c, l, g, x
  <2>5. s + f + 0 + r + (c + p) + l = g
    BY <1>3, <1>4
  <2> QED
    BY <2>1, <2>3, <2>4, <2>5, <2>2 DEF s, f, r, l, x
<1>12. CASE Deliver \/ DeliverFails
  <2>1. /\ followUps' = followUps /\ lost' = lost /\ sending' = sending
        /\ recalled' = recalled /\ steering # <<>> /\ steering' = Tail(steering)
        /\ Say(<<Text(Head(steering))>>) \/ SayFails(<<Text(Head(steering))>>)
    BY <1>12 DEF Deliver, DeliverFails, history
  <2>2. One(k <= counts'.texts) = g
    BY <1>5, <1>12, EventCounts DEF Deliver, DeliverFails, Typed
  <2>3. /\ s = Queued(k, Tail(steering)) + One(k = Head(steering))
        /\ Queued(k, Tail(steering)) \in Nat /\ Head(steering) \in Given
    BY <1>1, <2>1, QueueCounts, HeadAndTail, QueuedInParts
  <2> DEFINE s2 == Queued(k, steering')
             h == One(k = Head(steering))
  <2>4. s = s2 + h /\ s2 \in Nat /\ h \in {0, 1} /\ Times(x, conv') = c + h
    BY <1>10, <2>1, <2>3 DEF One
  <2> HIDE DEF s, f, p, r, c, l, g, x, s2, h
  <2>5. s2 + f + p + r + (c + h) + l = g
    BY <1>3, <1>4, <2>4
  <2> QED
    BY <2>1, <2>4, <2>5, <2>2 DEF s2, f, p, r, l, x
<1>13. CASE Close
  <2>1. /\ steering' = <<>> /\ followUps' = followUps \o steering /\ sending' = sending
        /\ conv' = conv /\ lost' = lost /\ recalled' = recalled /\ counts' = counts
    BY <1>13 DEF Close, talk, history
  <2>2. Queued(k, steering') = 0 /\ Queued(k, followUps') = f + s
    BY <1>1, <2>1, CountOne, QueuedInParts
  <2> HIDE DEF s, f, p, r, c, l, g, x
  <2>3. 0 + (f + s) + p + r + c + l = g
    BY <1>3, <1>4
  <2> QED
    BY <2>1, <2>2, <2>3 DEF p, r, c, l, g, x
<1>14. CASE Summarized \/ BoundaryFails
  <2>1. /\ steering' = steering /\ followUps' = followUps /\ sending' = sending
        /\ lost' = lost /\ recalled' = recalled
    BY <1>14 DEF Summarized, BoundaryFails, queues, history
  <2>2. One(k <= counts'.texts) = g
    BY <1>5, <1>14, EventCounts DEF Summarized, BoundaryFails, Typed
  <2>3. c <= 1
    <3> HIDE DEF s, f, p, r, c, l, g
    <3> QED
      BY <1>3, <1>4
  <2>4. Times(x, conv') = c
    BY <1>14, <2>3, Cutting
  <2> HIDE DEF s, f, p, r, c, l, g, x
  <2> QED
    BY <1>4, <2>1, <2>4, <2>2 DEF s, f, p, r, l, x
<1>15. CASE Crash
  <2>1. /\ steering' = <<>> /\ followUps' = <<>> /\ sending' = 0 /\ recalled' = recalled
        /\ conv' = Rebuilt /\ lost' = lost \cup (InMemory \ Known(Rebuilt))
    BY <1>15 DEF Crash, Rebuilt
  <2>2. /\ Queued(k, steering') = 0 /\ Queued(k, followUps') = 0 /\ One(sending' = k) = 0
        /\ One(k \in recalled') = r
    BY <1>1, <2>1, CountOne DEF One
  <2>3. counts'.texts = counts.texts
    BY <1>15, EventCounts DEF Crash, Typed
  <2> DEFINE c2 == Times(x, conv')
             l2 == One(x \in lost')
  <2>4. Rebuilt \in Seq(Message) /\ c2 \in Nat /\ c2 <= c
    <3>1. x \in Thing
      BY DEF Thing
    <3>2. Rebuilt \in Seq(Message)
      BY RebuiltTyped DEF Typed, TalkTyped, Rebuilt
    <3> QED
      BY <2>1, <3>1, <3>2, TimesInParts DEF LogCounts
  <2>5. x \in Known(Rebuilt) <=> c2 # 0
    BY <2>1, <2>4, CountSome
  <2>6. x \in InMemory <=> c # 0 \/ s # 0 \/ f # 0 \/ p # 0
    <3>1. x \in InMemory <=> c # 0 \/ s # 0 \/ f # 0 \/ sending = k
      BY CountMemory
    <3>2. p # 0 <=> sending = k
      BY DEF One
    <3> QED
      BY <3>1, <3>2
  <2>7. x \in lost' <=> x \in lost \/ (c2 = 0 /\ (c # 0 \/ s # 0 \/ f # 0 \/ p # 0))
    BY <2>1, <2>5, <2>6
  <2>8. l2 = IF l = 1 \/ (c2 = 0 /\ (c # 0 \/ s # 0 \/ f # 0 \/ p # 0)) THEN 1 ELSE 0
    BY <2>7 DEF One
  <2> HIDE DEF s, f, p, r, c, l, g, x, c2, l2
  <2>9. 0 + 0 + 0 + r + c2 + l2 = g
    BY <1>3, <1>4, <2>4, <2>8
  <2> QED
    BY <2>2, <2>3, <2>9 DEF c2, l2, x, g
<1>16. CASE /\ ~Submit /\ ~Recall /\ ~SendFollowUp /\ ~Prepared /\ ~PreparedFails
            /\ ~Deliver /\ ~DeliverFails /\ ~Close /\ ~Summarized /\ ~BoundaryFails /\ ~Crash
  <2>1. UNCHANGED <<steering, followUps, sending, recalled, lost>>
    BY <1>16, TextsStay
  <2>2. Times(x, conv') = c /\ One(k <= counts'.texts) = g
    BY <1>5, <1>6, <1>16
  <2> HIDE DEF s, f, p, r, c, l, g, x
  <2> QED
    BY <1>4, <2>1, <2>2 DEF s, f, p, r, l, x
<1> QED
  BY <1>7, <1>8, <1>9, <1>11, <1>12, <1>13, <1>14, <1>15, <1>16

LEMMA TextsStep ==
  ASSUME Typed, TextsOnce, LogCounts, [Next]_vars
  PROVE  TextsOnce'
<1>1. ASSUME NEW k \in Given PROVE (TextAt(k) = One(k <= counts.texts))'
  BY TextStep DEF TextAt
<1> QED
  BY <1>1 DEF TextsOnce
-----------------------------------------------------------------------------
(* A note is in one place before a step and after it. *)
LEMMA NoteStep ==
  ASSUME Typed, NotesOnce, LogCounts, [Next]_vars, NEW k \in Given
  PROVE  Queued(k, inbox') + Queued(k, hooked') + Queued(k, held')
           + Times(<<"note", k>>, conv') + One(<<"note", k>> \in lost') + One(k \in dropped')
           = One(k <= counts'.notes)
<1> DEFINE x == <<"note", k>>
           b == Queued(k, inbox)
           h == Queued(k, hooked)
           d == Queued(k, held)
           c == Times(x, conv)
           l == One(x \in lost)
           r == One(k \in dropped)
           g == One(k <= counts.notes)
<1>1. /\ conv \in Seq(Message) /\ inbox \in Seq(Given) /\ hooked \in Seq(Given)
      /\ held \in Seq(Given) /\ k \in Nat /\ k # 0 /\ (pc = "reading" <=> held # <<>>)
  BY Bounds DEF Typed, TalkTyped, QueuesTyped, Given
<1>2. /\ counts.notes \in Nat /\ (Post \/ HookNote \/ counts'.notes = counts.notes)
  BY Numbering
<1>3. b \in Nat /\ h \in Nat /\ d \in Nat /\ c \in Nat
  BY <1>1, QueuedInParts, TimesInParts
<1>4. /\ l \in {0, 1} /\ r \in {0, 1} /\ g \in {0, 1} /\ b + h + d + c + l + r = g
  BY DEF NotesOnce, NoteAt, One
<1>5. CASE Post \/ HookNote
  <2> DEFINE n == counts'.notes
  <2>1. n = counts.notes + 1 /\ n \in Given
    BY <1>5, EventCounts DEF Post, HookNote, Typed
  <2>2. /\ Queued(k, Append(inbox, n)) = b + One(k = n)
        /\ Queued(k, Append(hooked, n)) = h + One(k = n)
    <3>1. n \in Given
      BY <2>1
    <3> HIDE DEF n
    <3> QED
      BY <1>1, <3>1, QueueCounts
  <2>3. \/ Queued(k, inbox') = b + One(k = n) /\ Queued(k, hooked') = h
        \/ Queued(k, inbox') = b /\ Queued(k, hooked') = h + One(k = n)
    BY <1>5, <2>2 DEF Post, HookNote
  <2>4. /\ Queued(k, held') = d /\ Times(x, conv') = c /\ One(x \in lost') = l
        /\ One(k \in dropped') = r
    BY <1>5 DEF Post, HookNote, talk, history
  <2>5. One(k <= n) = g + One(k = n) /\ One(k = n) \in {0, 1}
    BY <1>1, <1>2, <2>1 DEF One
  <2> HIDE DEF b, h, d, c, l, r, g, n, x
  <2> QED
    BY <1>3, <1>4, <2>3, <2>4, <2>5 DEF n, x
<1>6. ASSUME NEW q \in Seq(Given), conv' = conv \o Notes(q)
      PROVE  Times(x, conv') = c + Queued(k, q)
  <2> DEFINE notes == Notes(q)
  <2>1. notes \in Seq(Message) /\ conv' = conv \o notes
    BY <1>6, Sayings
  <2>2. Times(x, notes) = Queued(k, q)
    BY CountNotes
  <2> HIDE DEF notes
  <2>3. Times(x, conv \o notes) = Times(x, conv) + Times(x, notes)
    BY <1>1, <2>1, TimesInParts
  <2> QED
    BY <2>1, <2>2, <2>3
<1>7. CASE Top \/ PreSend
  <2>1. /\ inbox' = inbox /\ held' = held /\ lost' = lost /\ dropped' = dropped
        /\ counts'.notes = counts.notes
    <3>1. ~Post /\ ~HookNote
      BY <1>7 DEF Top, PreSend, Post, HookNote, Goto, Request, BeginCompact
    <3> QED
      BY <1>2, <1>7, <3>1 DEF Top, PreSend, history
  <2>2. \/ UNCHANGED conv /\ UNCHANGED hooked
        \/ Say(Notes(hooked)) /\ hooked' = <<>>
    BY <1>7 DEF Top, PreSend, talk
  <2>3. CASE UNCHANGED conv /\ UNCHANGED hooked
    <3> HIDE DEF b, h, d, c, l, r, g, x
    <3> QED
      BY <1>4, <2>1, <2>3 DEF b, h, d, c, l, r, g, x
  <2>4. CASE Say(Notes(hooked)) /\ hooked' = <<>>
    <3> DEFINE notes == Notes(hooked)
    <3>1. notes \in Seq(Message) /\ Say(notes)
      BY <1>1, <2>4, Sayings
    <3> HIDE DEF notes
    <3>2. conv' = conv \o notes
      BY <3>1, SubSeqFull DEF Say, SayTo
    <3>3. Queued(k, hooked') = 0 /\ Times(x, conv') = c + h
      BY <1>1, <1>6, <2>4, <3>2, CountOne DEF notes
    <3> HIDE DEF b, h, d, c, l, r, g, x
    <3>4. b + 0 + d + (c + h) + l + r = g
      BY <1>3, <1>4
    <3> QED
      BY <2>1, <3>3, <3>4 DEF b, d, l, r, g, x
  <2> QED
    BY <2>2, <2>3, <2>4
<1>8. CASE HeadFails
  <2>1. /\ inbox' = inbox /\ held' = held /\ lost' = lost /\ hooked' = <<>>
        /\ dropped' = dropped \cup {n \in Range(hooked) : Note(n) \notin Range(conv')}
        /\ counts'.notes = counts.notes /\ SayFails(Notes(hooked))
    BY <1>8, EventCounts DEF HeadFails, Typed
  <2>2. PICK n \in 0..Len(Notes(hooked)) : conv' = conv \o SubSeq(Notes(hooked), 1, n)
    BY <1>1, <2>1, Sayings, SaidSome
  <2> DEFINE first == SubSeq(hooked, 1, n)
             rest == SubSeq(hooked, n + 1, Len(hooked))
  <2>3. /\ first \in Seq(Given) /\ rest \in Seq(Given) /\ hooked = first \o rest
        /\ SubSeq(Notes(hooked), 1, n) = Notes(first)
    <3>1. Len(Notes(hooked)) = Len(hooked) /\ n \in 0..Len(hooked) /\ Len(hooked) \in Nat
      BY <1>1 DEF Notes
    <3>2. first \in Seq(Given) /\ Len(first) = n /\ \A i \in 1..n : first[i] = hooked[i]
      BY <1>1, <3>1, SubSeqProperties
    <3>3. rest \in Seq(Given)
      BY <1>1, <3>1, SubSeqProperties
    <3>4. hooked = first \o rest
      <4>1. /\ 1 \in 1..(Len(hooked) + 1) /\ n \in (1 - 1)..Len(hooked)
            /\ Len(hooked) \in n..Len(hooked)
        BY <3>1
      <4>2. first \o rest = SubSeq(hooked, 1, Len(hooked))
        BY <1>1, <4>1, ConcatAdjacentSubSeq
      <4>3. SubSeq(hooked, 1, Len(hooked)) = hooked
        BY <1>1, SubSeqFull
      <4> QED
        BY <4>2, <4>3
    <3>5. SubSeq(Notes(hooked), 1, n) = Notes(first)
      <4>1. /\ Notes(hooked) \in Seq(Message) /\ DOMAIN hooked = 1..Len(hooked)
            /\ \A i \in 1..Len(hooked) : Notes(hooked)[i] = Note(hooked[i])
        BY <1>1, Sayings DEF Notes
      <4>2. /\ DOMAIN SubSeq(Notes(hooked), 1, n) = 1..n
            /\ \A i \in 1..n : SubSeq(Notes(hooked), 1, n)[i] = Notes(hooked)[i]
        BY <3>1, <4>1
      <4>3. DOMAIN Notes(first) = 1..n /\ \A i \in 1..n : Notes(first)[i] = Note(first[i])
        <5>1. DOMAIN first = 1..n
          BY <3>2
        <5> HIDE DEF first
        <5> QED
          BY <5>1 DEF Notes
      <4>4. \A i \in 1..n : SubSeq(Notes(hooked), 1, n)[i] = Notes(first)[i]
        BY <3>1, <3>2, <4>1, <4>2, <4>3
      <4>5. SubSeq(Notes(hooked), 1, n) \in Seq(Message)
        <5>1. \A i \in 1..n : Notes(hooked)[i] \in Message
          BY <3>1, <4>1
        <5> QED
          BY <5>1, SubSeqProperties
      <4>6. Notes(first) \in Seq(Message)
        BY <3>2, Sayings
      <4> HIDE DEF first
      <4> QED
        BY <4>2, <4>3, <4>4, <4>5, <4>6
    <3> QED
      BY <3>2, <3>3, <3>4, <3>5
  <2> HIDE DEF first, rest
  <2> DEFINE e == Queued(k, first)
             o == Queued(k, rest)
  <2>4. e \in Nat /\ o \in Nat /\ h = e + o
    BY <2>3, QueuedInParts
  <2>5. conv' = conv \o Notes(first) /\ Times(x, conv') = c + e
    BY <1>6, <2>2, <2>3
  <2>6. k \in Range(hooked) <=> h # 0
    BY <1>1, CountSome
  <2>7. Note(k) \in Range(conv') => Times(x, conv') # 0
    <3>1. conv' \in Seq(Message)
      <4>1. Notes(first) \in Seq(Message)
        BY <2>3, Sayings
      <4> QED
        BY <1>1, <2>5, <4>1, ConcatProperties
    <3>2. Note(k) \in Range(conv') => x \in Known(conv')
      BY About DEF Range, Known
    <3> QED
      BY <3>1, <3>2, CountSome
  <2>8. e # 0 => Note(k) \in Range(conv')
    <3> SUFFICES ASSUME e # 0 PROVE Note(k) \in Range(conv')
      OBVIOUS
    <3>1. PICK i \in DOMAIN first : first[i] = k
      BY <2>3, CountSome DEF Range
    <3> DEFINE notes == Notes(first)
    <3>2. notes \in Seq(Message) /\ i \in DOMAIN notes /\ notes[i] = Note(k)
      BY <2>3, <3>1, Sayings DEF Notes
    <3> HIDE DEF notes
    <3>3. /\ Len(conv) + i \in DOMAIN (conv \o notes)
          /\ (conv \o notes)[Len(conv) + i] = notes[i]
      BY <1>1, <3>2
    <3> QED
      BY <2>5, <3>2, <3>3 DEF Range, notes
  <2> DEFINE r2 == One(k \in dropped')
             there == Note(k) \in Range(conv')
  <2> HIDE DEF there
  <2>9. k \in dropped' <=> k \in dropped \/ (h # 0 /\ ~there)
    BY <2>1, <2>6 DEF there
  <2>10. r2 = IF r = 1 \/ (h # 0 /\ ~there) THEN 1 ELSE 0
    BY <2>9 DEF One
  <2>11. (there => c + e # 0) /\ (e # 0 => there)
    BY <2>5, <2>7, <2>8 DEF there
  <2>12. Queued(k, hooked') = 0
    BY <2>1, CountOne
  <2> HIDE DEF b, h, d, c, l, r, g, x, e, o, r2
  <2>13. b + 0 + d + (c + e) + l + r2 = g
    BY <1>3, <1>4, <2>4, <2>10, <2>11
  <2> QED
    BY <2>1, <2>5, <2>12, <2>13 DEF b, d, l, g, x, r2
<1>9. CASE DrainFails
  <2>1. PICK gone \in SUBSET DOMAIN inbox :
          /\ inbox' = Selected(inbox, DOMAIN inbox \ gone)
          /\ dropped' = dropped \cup {inbox[i] : i \in gone}
    BY <1>9 DEF DrainFails
  <2>2. hooked' = hooked /\ held' = held /\ lost' = lost /\ conv' = conv
    BY <1>9 DEF DrainFails, talk
  <2>3. counts'.notes = counts.notes
    BY <1>9, EventCounts DEF DrainFails, Typed
  <2> DEFINE taken == k \in {inbox[i] : i \in gone}
             b2 == Queued(k, inbox')
             e == One(taken)
             r2 == One(k \in dropped')
  <2>4. b <= 1
    <3> HIDE DEF b, h, d, c, l, r, g
    <3> QED
      BY <1>3, <1>4
  <2>5. b2 + e = b
    BY <1>1, <2>1, <2>4, QueuedChosen
  <2>6. b2 \in Nat
    <3>1. DOMAIN inbox \ gone \in SUBSET DOMAIN inbox
      OBVIOUS
    <3>2. inbox' \in Seq(Given)
      BY <1>1, <2>1, <3>1, Chosen
    <3> QED
      BY <3>2, QueuedInParts
  <2> HIDE DEF taken
  <2>7. k \in dropped' <=> k \in dropped \/ taken
    BY <2>1 DEF taken
  <2>8. /\ r2 = IF r = 1 \/ taken THEN 1 ELSE 0
        /\ e = IF taken THEN 1 ELSE 0
    BY <2>7 DEF One
  <2> HIDE DEF b, h, d, c, l, r, g, x, b2, e, r2
  <2>9. b2 + h + d + c + l + r2 = g
    BY <1>3, <1>4, <2>5, <2>6, <2>8
  <2> QED
    BY <2>2, <2>3, <2>9 DEF b2, h, d, c, l, g, x, r2
<1>10. CASE DrainInbox
  <2>1. /\ held' = inbox /\ inbox' = <<>> /\ hooked' = hooked /\ conv' = conv
        /\ lost' = lost /\ dropped' = dropped /\ counts' = counts /\ held = <<>>
    BY <1>1, <1>10 DEF DrainInbox, talk, history
  <2>2. Queued(k, inbox') = 0 /\ d = 0 /\ Queued(k, held') = b
    BY <2>1, CountOne
  <2> HIDE DEF b, h, d, c, l, r, g, x
  <2>3. 0 + h + b + c + l + r = g
    BY <1>3, <1>4, <2>2
  <2> QED
    BY <2>1, <2>2, <2>3 DEF h, c, l, r, g, x
<1>11. CASE RecordNote \/ RecordFails
  <2>1. /\ inbox' = inbox /\ hooked' = hooked /\ lost' = lost /\ held # <<>>
        /\ Say(<<Note(Head(held))>>) \/ SayFails(<<Note(Head(held))>>)
        /\ \/ held' = Tail(held) /\ dropped' = dropped
           \/ held' = <<>> /\ dropped' = dropped \cup Range(Tail(held))
    BY <1>1, <1>11 DEF RecordNote, RecordFails, history
  <2>2. counts'.notes = counts.notes
    BY <1>11, EventCounts DEF RecordNote, RecordFails, Typed
  <2>3. /\ d = Queued(k, Tail(held)) + One(k = Head(held)) /\ Tail(held) \in Seq(Given)
        /\ Queued(k, Tail(held)) \in Nat /\ Head(held) \in Given
    BY <1>1, <2>1, QueueCounts, HeadAndTail, QueuedInParts
  <2>4. Times(x, conv') = c + One(k = Head(held))
    <3> DEFINE m == Note(Head(held))
    <3>1. m \in Message /\ Items(m) = {<<"note", Head(held)>>} /\ (Say(<<m>>) \/ SayFails(<<m>>))
      BY <2>1, <2>3, Made, About
    <3> HIDE DEF m
    <3>2. conv' = conv \o <<m>> /\ <<m>> \in Seq(Message)
      BY <3>1, OneIsSaid
    <3>3. Times(x, conv \o <<m>>) = Times(x, conv) + Times(x, <<m>>)
      BY <1>1, <3>2, TimesInParts
    <3>4. Times(x, <<m>>) = One(k = Head(held))
      BY <3>1, CountOne DEF One
    <3> QED
      BY <3>2, <3>3, <3>4
  <2> DEFINE d2 == Queued(k, held')
             o == Queued(k, Tail(held))
             e == One(k = Head(held))
             r2 == One(k \in dropped')
  <2>5. d = o + e /\ o \in Nat /\ e \in {0, 1} /\ Times(x, conv') = c + e
    BY <2>3, <2>4 DEF One
  <2>6. \/ d2 = o /\ r2 = r
        \/ d2 = 0 /\ r2 = IF r = 1 \/ o # 0 THEN 1 ELSE 0
    <3>1. k \in Range(Tail(held)) <=> o # 0
      BY <2>3, CountSome
    <3>2. Queued(k, <<>>) = 0
      BY CountOne
    <3> QED
      BY <2>1, <3>1, <3>2 DEF One
  <2> HIDE DEF b, h, d, c, l, r, g, x, d2, o, e, r2
  <2>7. b + h + d2 + (c + e) + l + r2 = g
    BY <1>3, <1>4, <2>5, <2>6
  <2> QED
    BY <2>2, <2>1, <2>5, <2>7 DEF b, h, d2, l, r2, g, x
<1>12. CASE Summarized \/ BoundaryFails
  <2>1. /\ inbox' = inbox /\ hooked' = hooked /\ held' = held
        /\ lost' = lost /\ dropped' = dropped
    BY <1>12 DEF Summarized, BoundaryFails, queues, history
  <2>2. counts'.notes = counts.notes
    BY <1>12, EventCounts DEF Summarized, BoundaryFails, Typed
  <2>3. c <= 1
    <3> HIDE DEF b, h, d, c, l, r, g
    <3> QED
      BY <1>3, <1>4
  <2>4. Times(x, conv') = c
    BY <1>12, <2>3, Cutting
  <2> HIDE DEF b, h, d, c, l, r, g, x
  <2> QED
    BY <1>4, <2>1, <2>4, <2>2 DEF b, h, d, l, r, g, x
<1>13. CASE Crash
  <2>1. /\ hooked' = <<>> /\ held' = <<>> /\ inbox' = inbox /\ dropped' = dropped
        /\ conv' = Rebuilt /\ lost' = lost \cup (InMemory \ Known(Rebuilt))
    BY <1>13 DEF Crash, Rebuilt
  <2>2. /\ Queued(k, hooked') = 0 /\ Queued(k, held') = 0 /\ Queued(k, inbox') = b
        /\ One(k \in dropped') = r
    BY <2>1, CountOne
  <2>3. counts'.notes = counts.notes
    BY <1>13, EventCounts DEF Crash, Typed
  <2> DEFINE c2 == Times(x, conv')
             l2 == One(x \in lost')
  <2>4. Rebuilt \in Seq(Message) /\ c2 \in Nat /\ c2 <= c
    <3>1. x \in Thing
      BY DEF Thing
    <3>2. Rebuilt \in Seq(Message)
      BY RebuiltTyped DEF Typed, TalkTyped, Rebuilt
    <3> QED
      BY <2>1, <3>1, <3>2, TimesInParts DEF LogCounts
  <2>5. x \in Known(Rebuilt) <=> c2 # 0
    BY <2>1, <2>4, CountSome
  <2>6. x \in InMemory <=> c # 0 \/ h # 0 \/ d # 0
    BY CountMemory
  <2>7. x \in lost' <=> x \in lost \/ (c2 = 0 /\ (c # 0 \/ h # 0 \/ d # 0))
    BY <2>1, <2>5, <2>6
  <2>8. l2 = IF l = 1 \/ (c2 = 0 /\ (c # 0 \/ h # 0 \/ d # 0)) THEN 1 ELSE 0
    BY <2>7 DEF One
  <2> HIDE DEF b, h, d, c, l, r, g, x, c2, l2
  <2>9. b + 0 + 0 + c2 + l2 + r = g
    BY <1>3, <1>4, <2>4, <2>8
  <2> QED
    BY <2>2, <2>3, <2>9 DEF c2, l2, x, g
<1>14. CASE /\ ~Post /\ ~HookNote /\ ~Top /\ ~HeadFails /\ ~PreSend
            /\ ~DrainInbox /\ ~DrainFails /\ ~RecordNote /\ ~RecordFails
            /\ ~Summarized /\ ~BoundaryFails /\ ~Crash
  <2>1. UNCHANGED <<inbox, hooked, held, lost, dropped>>
    BY <1>14, NotesStay
  <2>2. Times(x, conv') = c /\ counts'.notes = counts.notes
    BY <1>2, <1>14, QuietSteps DEF Quiet
  <2> HIDE DEF b, h, d, c, l, r, g, x
  <2> QED
    BY <1>4, <2>1, <2>2 DEF b, h, d, l, r, g, x
<1> QED
  BY <1>5, <1>7, <1>10, <1>11, <1>12, <1>13, <1>14, <1>8, <1>9

LEMMA NotesStep ==
  ASSUME Typed, NotesOnce, LogCounts, [Next]_vars
  PROVE  NotesOnce'
<1>1. ASSUME NEW k \in Given PROVE (NoteAt(k) = One(k <= counts.notes))'
  BY NoteStep DEF NoteAt
<1> QED
  BY <1>1 DEF NotesOnce

(* A reminder is in the conversation until a death takes it, or else stays. *)
LEMMA ReminderStep ==
  ASSUME Typed, RemindersOnce, LogCounts, [Next]_vars, NEW k \in Given
  PROVE  Times(<<"reminder", k>>, conv') + One(<<"reminder", k>> \in lost')
           = One(k <= counts'.reminders)
<1> DEFINE x == <<"reminder", k>>
           c == Times(x, conv)
           l == One(x \in lost)
           g == One(k <= counts.reminders)
<1>1. conv \in Seq(Message) /\ k \in Nat
  BY Bounds DEF Typed, TalkTyped, Given
<1>2. /\ counts.reminders \in Nat /\ (Remind \/ counts'.reminders = counts.reminders)
  BY Numbering
<1>3. c \in Nat
  BY <1>1, TimesInParts
<1>4. l \in {0, 1} /\ g \in {0, 1} /\ c + l = g
  BY DEF RemindersOnce, ReminderAt, One
<1>5. CASE Remind
  <2> DEFINE n == counts'.reminders
             m == Reminder(n)
  <2>1. n = counts.reminders + 1 /\ n \in Given
    BY <1>5, EventCounts DEF Remind, Typed
  <2>2. m \in Message /\ Items(m) = {<<"reminder", n>>} /\ conv' = Append(conv, m)
    BY <1>5, <2>1, Made, About DEF Remind
  <2> HIDE DEF m
  <2>3. conv' = conv \o <<m>> /\ <<m>> \in Seq(Message)
    BY <1>1, <2>2, AppendIsConcat
  <2>4. Times(x, conv \o <<m>>) = Times(x, conv) + Times(x, <<m>>)
    BY <1>1, <2>3, TimesInParts
  <2>5. Times(x, <<m>>) = One(k = n)
    BY <2>2, CountOne DEF One
  <2>6. One(k <= n) = g + One(k = n) /\ One(k = n) \in {0, 1}
    BY <1>1, <1>2, <2>1 DEF One
  <2>7. Times(x, conv') = c + One(k = n) /\ One(x \in lost') = l
    BY <1>5, <2>3, <2>4, <2>5 DEF Remind, history
  <2> HIDE DEF c, l, g, n, x
  <2> QED
    BY <1>3, <1>4, <2>6, <2>7 DEF n, x
<1>6. CASE Summarized \/ BoundaryFails
  <2>1. lost' = lost /\ counts'.reminders = counts.reminders
    BY <1>6, EventCounts DEF Summarized, BoundaryFails, Typed, history
  <2>2. c <= 1
    <3> HIDE DEF c, l, g
    <3> QED
      BY <1>3, <1>4
  <2>3. Times(x, conv') = c
    BY <1>6, <2>2, Cutting
  <2> HIDE DEF c, l, g, x
  <2> QED
    BY <1>4, <2>1, <2>3 DEF l, g, x
<1>7. CASE Crash
  <2>1. conv' = Rebuilt /\ lost' = lost \cup (InMemory \ Known(Rebuilt))
    BY <1>7 DEF Crash, Rebuilt
  <2>2. counts'.reminders = counts.reminders
    BY <1>7, EventCounts DEF Crash, Typed
  <2> DEFINE c2 == Times(x, conv')
             l2 == One(x \in lost')
  <2>3. Rebuilt \in Seq(Message)
    BY RebuiltTyped DEF Typed, TalkTyped, Rebuilt
  <2>4. c2 \in Nat /\ c2 <= c
    <3>1. x \in Thing
      BY DEF Thing
    <3> QED
      BY <2>1, <2>3, <3>1, TimesInParts DEF LogCounts
  <2>5. x \in Known(Rebuilt) <=> c2 # 0
    BY <2>1, <2>3, CountSome
  <2>6. x \in InMemory <=> c # 0
    BY CountMemory
  <2>7. x \in lost' <=> x \in lost \/ (c2 = 0 /\ c # 0)
    BY <2>1, <2>5, <2>6
  <2>8. l2 = IF l = 1 \/ (c2 = 0 /\ c # 0) THEN 1 ELSE 0
    BY <2>7 DEF One
  <2> HIDE DEF c, l, g, x, c2, l2
  <2>9. c2 + l2 = g
    BY <1>3, <1>4, <2>4, <2>8
  <2> QED
    BY <2>2, <2>9 DEF c2, l2, x, g
<1>8. CASE ~Remind /\ ~Summarized /\ ~BoundaryFails /\ ~Crash
  <2>1. lost' = lost
    <3>1. CASE Others
      BY <1>8, <3>1 DEF Others, Submit, Recall, Abort, Post, HookNote, history
    <3>2. CASE Waits
      BY <1>8, <3>2 DEF Waits, PreSend, SummaryFails, Interrupted, Receive, TooLong, Retry,
                        Fail, Woken, Refuse, Launch, ToolEnds, history
    <3>3. CASE Steps
      BY <3>3 DEF Steps, SendFollowUp, Prepared, Wake, Top, DrainInbox, RecordNote, Continue,
                  Answer, CallTools, Settle, Ask, RunBatch, Finish, Deliver, Advance, Close,
                  history
    <3>4. CASE Faults
      BY <3>4, FaultsFrame
    <3> QED
      BY <3>1, <3>2, <3>3, <3>4 DEF Next, vars, history
  <2>2. Times(x, conv') = c /\ counts'.reminders = counts.reminders
    BY <1>2, <1>8, QuietSteps DEF Quiet
  <2> HIDE DEF c, l, g, x
  <2> QED
    BY <1>4, <2>1, <2>2 DEF l, g, x
<1> QED
  BY <1>5, <1>6, <1>7, <1>8

LEMMA RemindersStep ==
  ASSUME Typed, RemindersOnce, LogCounts, [Next]_vars
  PROVE  RemindersOnce'
<1>1. ASSUME NEW k \in Given PROVE (ReminderAt(k) = One(k <= counts.reminders))'
  BY ReminderStep DEF ReminderAt
<1> QED
  BY <1>1 DEF RemindersOnce
-----------------------------------------------------------------------------
LEMMA InitPlaces ==
  ASSUME Init
  PROVE  PlacesInv
<1>1. /\ steering = <<>> /\ followUps = <<>> /\ sending = 0 /\ recalled = {} /\ lost = {}
      /\ dropped = {}
      /\ inbox = <<>> /\ hooked = <<>> /\ held = <<>> /\ conv = <<>> /\ log = <<>>
      /\ counts.texts = 0 /\ counts.notes = 0 /\ counts.reminders = 0
  BY DEF Init
<1>2. \A x : Times(x, <<>>) = 0 /\ Queued(x, <<>>) = 0
  BY CountOne
<1>3. ASSUME NEW k \in Given PROVE k \in Nat /\ k # 0 /\ ~(k <= 0)
  BY Bounds DEF Given
<1>4. Rebuilt = <<>>
  BY <1>1 DEF Rebuilt, rebuildFromSession
<1>5. LogCounts
  BY <1>1, <1>2, <1>4 DEF LogCounts
<1>6. TextsOnce
  BY <1>1, <1>2, <1>3 DEF TextsOnce, TextAt, One
<1>7. NotesOnce
  BY <1>1, <1>2, <1>3 DEF NotesOnce, NoteAt, One
<1>8. RemindersOnce
  BY <1>1, <1>2, <1>3 DEF RemindersOnce, ReminderAt, One
<1> QED
  BY <1>1, <1>5, <1>6, <1>7, <1>8 DEF PlacesInv, DropsExcused

(* Only a write that fails drops notes. *)
LEMMA DropsStep ==
  ASSUME FlagsTyped, DropsExcused, [Next]_vars
  PROVE  DropsExcused'
<1>1. failed => failed'
  BY FlagsStep
<1>2. CASE Faults
  BY <1>2, FaultsFrame DEF DropsExcused
<1>3. CASE ~Faults
  <2>1. dropped' = dropped
    <3>1. CASE Others
      BY <3>1 DEF Others, Submit, Recall, Abort, Remind, Post, HookNote, Crash, history
    <3>2. CASE Waits
      BY <3>2 DEF Waits, PreSend, Summarized, SummaryFails, Interrupted, Receive, TooLong,
                  Retry, Fail, Woken, Refuse, Launch, ToolEnds, history
    <3>3. CASE Steps
      BY <3>3 DEF Steps, SendFollowUp, Prepared, Wake, Top, DrainInbox, RecordNote, Continue,
                  Answer, CallTools, Settle, Ask, RunBatch, Finish, Deliver, Advance, Close,
                  history
    <3> QED
      BY <1>3, <3>1, <3>2, <3>3 DEF Next, vars, history
  <2> QED
    BY <1>1, <2>1 DEF DropsExcused
<1> QED
  BY <1>2, <1>3

LEMMA PlacesStep ==
  ASSUME Typed, PlacesInv, [Next]_vars
  PROVE  PlacesInv'
<1>1. \A thing \in Thing : Times(thing, conv) <= 1
  <2> SUFFICES ASSUME NEW thing \in Thing PROVE Times(thing, conv) <= 1
    OBVIOUS
  <2>1. PICK kind \in {"text", "note", "reminder"}, k \in Given : thing = <<kind, k>>
    BY DEF Thing
  <2>2. /\ Times(<<kind, k>>, conv) \in Nat
        /\ Queued(k, steering) \in Nat /\ Queued(k, followUps) \in Nat
        /\ Queued(k, inbox) \in Nat /\ Queued(k, hooked) \in Nat /\ Queued(k, held) \in Nat
    BY TimesInParts, QueuedInParts DEF Typed, TalkTyped, QueuesTyped
  <2>3. \A condition : One(condition) \in {0, 1}
    BY DEF One
  <2>4. CASE kind = "text"
    <3>1. TextAt(k) = One(k <= counts.texts)
      BY DEF PlacesInv, TextsOnce
    <3> QED
      BY <2>1, <2>2, <2>3, <2>4, <3>1 DEF TextAt
  <2>5. CASE kind = "note"
    <3>1. NoteAt(k) = One(k <= counts.notes)
      BY DEF PlacesInv, NotesOnce
    <3> QED
      BY <2>1, <2>2, <2>3, <2>5, <3>1 DEF NoteAt
  <2>6. CASE kind = "reminder"
    <3>1. ReminderAt(k) = One(k <= counts.reminders)
      BY DEF PlacesInv, RemindersOnce
    <3> QED
      BY <2>1, <2>2, <2>3, <2>6, <3>1 DEF ReminderAt
  <2> QED
    BY <2>4, <2>5, <2>6
<1>2. LogCounts'
  BY <1>1, TalkMoves, LogCountsStep DEF Typed, PlacesInv
<1>3. DropsExcused'
  BY DropsStep DEF Typed, PlacesInv
<1> QED
  BY <1>2, <1>3, TextsStep, NotesStep, RemindersStep DEF PlacesInv

(* The types that the model states. *)
LEMMA TypesHold ==
  ASSUME Typed
  PROVE  TypeOK
<1>1. ASSUME NEW a \in Seq(Given), NEW b \in Seq(Given)
      PROVE  a \o b \in Seq(Given) /\ Range(a \o b) \subseteq Given
  <2>1. a \o b \in Seq(Given)
    OBVIOUS
  <2> DEFINE c == a \o b
  <2> HIDE DEF c
  <2>2. c \in Seq(Given)
    BY <2>1 DEF c
  <2>3. \A i \in DOMAIN c : c[i] \in Given
    BY <2>2
  <2> QED
    BY <2>1, <2>3 DEF c, Range
<1>2. /\ hooked \in Seq(Given) /\ inbox \in Seq(Given) /\ held \in Seq(Given)
      /\ steering \in Seq(Given) /\ followUps \in Seq(Given)
      /\ sending \in Given \cup {0} /\ recalled \in SUBSET Given /\ dropped \in SUBSET Given
  BY DEF Typed, QueuesTyped
<1>3. Range(hooked \o inbox \o held) \subseteq 1..MaxEvents
      /\ Range(steering \o followUps) \subseteq 1..MaxEvents
  BY <1>1, <1>2 DEF Given
<1>4. sending \in 0..MaxEvents /\ recalled \cup dropped \subseteq 1..MaxEvents
  BY <1>2, Bounds DEF Given
<1>5. Known(conv) \in SUBSET Thing /\ lost \in SUBSET Thing
  BY KnownThings DEF Typed, TalkTyped
<1>6. Known(conv) \cup lost \subseteq
        ({"text"} \X (1..MaxEvents)) \cup ({"note"} \X (1..MaxEvents))
        \cup ({"reminder"} \X (1..MaxEvents))
  BY <1>5 DEF Thing, Given
<1>7. /\ at \in 1..MaxCalls + 1 /\ Len(calls) <= MaxCalls
      /\ Range(calls) \subseteq Settled \cup {"waiting", "asking", "submitted", "running"}
      /\ turn \in Nat /\ ran \subseteq (1..turn) \X (1..MaxCalls) /\ broken \subseteq 1..turn
  <2>1. calls \in Seq(CallState)
    BY DEF Typed, CallsTyped
  <2>2. \A i \in DOMAIN calls : calls[i] \in CallState
    BY <2>1
  <2> QED
    BY <2>2 DEF Typed, CallsTyped, CallState, Range
<1>8. /\ torn \in BOOLEAN /\ failed \in BOOLEAN /\ Range(saved) \subseteq BOOLEAN
      /\ Len(saved) = Len(conv)
  BY DEF Typed, FlagsTyped, TalkTyped, Range
<1> QED
  BY <1>3, <1>4, <1>6, <1>7, <1>8 DEF Typed, ControlTyped, TypeOK

LEMMA PlacesSuffice ==
  ASSUME Typed, PlacesInv
  PROVE  AllAccountedFor
<1>1. CountsTyped
  BY DEF Typed
<1>2. /\ counts.texts \in Nat /\ counts.texts <= MaxEvents
      /\ counts.notes \in Nat /\ counts.notes <= MaxEvents
      /\ counts.reminders \in Nat /\ counts.reminders <= MaxEvents
  BY <1>1, Bounds DEF CountsTyped
<1>3. ASSUME NEW n \in Nat, n <= MaxEvents, NEW k \in 1..n
      PROVE  k \in Given /\ One(k <= n) = 1
  BY <1>3, Bounds DEF Given, One
<1>4. \A k \in 1..counts.texts : TextAt(k) = 1
  BY <1>2, <1>3 DEF PlacesInv, TextsOnce
<1>5. \A k \in 1..counts.notes : NoteAt(k) = 1
  BY <1>2, <1>3 DEF PlacesInv, NotesOnce
<1>6. \A k \in 1..counts.reminders : ReminderAt(k) = 1
  BY <1>2, <1>3 DEF PlacesInv, RemindersOnce
<1>7. TypeOK
  BY TypesHold
<1> QED
  BY <1>4, <1>5, <1>6, <1>7
     DEF AllAccountedFor, TextAt, NoteAt, ReminderAt, PlacesInv, DropsExcused

(* What is sent to the agent is never used twice, and nothing of it goes    *)
(* unaccounted: every text, note and reminder is in exactly one place,      *)
(* through steering and recalling, compactions, interrupts, failing writes, *)
(* deaths and resumes (handleSubmit, deliverSteering, recallQueuedMessage,  *)
(* doCompact, persistLastMessage, rebuildFromSession).  No failing write    *)
(* takes a text, and a note is thrown away only by one.                     *)
THEOREM EverythingIsAccountedFor == Spec => []AllAccountedFor
<1>1. Init => PlacesInv
  BY InitPlaces
<1>2. Typed /\ PlacesInv /\ [Next]_vars => PlacesInv'
  BY PlacesStep
<1>3. Typed /\ PlacesInv => AllAccountedFor
  BY PlacesSuffice
<1> QED
  BY <1>1, <1>2, <1>3, AlwaysTyped, PTL DEF Spec
=============================================================================

