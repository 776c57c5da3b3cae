--------------------------- MODULE WorkflowProofs ---------------------------
(***************************************************************************)
(* The permits of the workflow engine and the journal of a run: for every  *)
(* set of items, every number of permits, every edit of the script and     *)
(* every sequence of aborts, failures, kills and crashes.                  *)
(* (workflow/concurrency.ts, workflow/hooks.ts, workflow/journal.ts.)      *)
(***************************************************************************)
EXTENDS Workflow, FiniteSetTheorems, TLAPS

Step == InFlight \cup {"none", "ok", "null", "failed"}

(* What the counting of permits needs to know of the types. *)
AgentsTyped ==
  /\ pc \in [Calls -> Step]
  /\ available \in Nat
  /\ waiters \in Seq(Calls)
  /\ at \in [Items -> Nat]

(* The waiters are calls that wait, each once. *)
WaitersQueued ==
  /\ \A k \in DOMAIN waiters : pc[waiters[k]] = "queued"
  /\ \A j, k \in DOMAIN waiters : waiters[j] = waiters[k] => j = k

(* A call its item has not come to is nowhere. *)
FreshCalls == \A c \in Calls : c[2] > at[c[1]] => pc[c] = "none"

PermitInv == AgentsTyped /\ WaitersQueued /\ FreshCalls /\ PermitsKept
-----------------------------------------------------------------------------
(* A call is an item of the script and a position in it. *)
LEMMA CallShape ==
  ASSUME NEW c \in Calls
  PROVE  c[1] \in Items /\ c[2] \in Nat /\ c[2] <= Length[c[1]]
<1>1. PICK i \in Items : c \in {i} \X (1..Length[i])
  BY DEF Calls
<1>2. Length[i] \in Nat
  BY WorkflowAssumption
<1> QED
  BY <1>1, <1>2

(* The next call of an item that is not over is one of its calls. *)
LEMMA NextCallShape ==
  ASSUME AgentsTyped, NEW i \in Items, at[i] < Length[i]
  PROVE  NextCall(i) \in Calls /\ NextCall(i)[1] = i /\ NextCall(i)[2] = at[i] + 1
<1>1. at[i] \in Nat /\ Length[i] \in Nat
  BY WorkflowAssumption DEF AgentsTyped
<1>2. at[i] + 1 \in 1..Length[i]
  BY <1>1
<1>3. NextCall(i) \in {i} \X (1..Length[i])
  BY <1>2 DEF NextCall
<1> QED
  BY <1>3 DEF NextCall, Calls

(* The calls at work are finitely many, at every moment. *)
LEMMA HoldersFinite ==
  /\ IsFiniteSet(Holders) /\ Cardinality(Holders) \in Nat
  /\ IsFiniteSet(Holders') /\ Cardinality(Holders') \in Nat
<1>1. Holders \subseteq Calls /\ Holders' \subseteq Calls
  BY DEF Holders
<1> QED
  BY <1>1, WorkflowAssumption, FS_Subset, FS_CardinalityType

(* An empty engine context keeps the invariant. *)
LEMMA NoContextKeeps ==
  ASSUME NoContext
  PROVE  PermitInv'
<1>1. Holders' = {}
  BY DEF NoContext, Holders, Working
<1>2. Cardinality(Holders') = 0
  BY <1>1, FS_EmptySet
<1>3. AgentsTyped'
  BY WorkflowAssumption DEF NoContext, AgentsTyped, Step
<1>4. WaitersQueued'
  BY DEF NoContext, WaitersQueued
<1>5. FreshCalls'
  BY DEF NoContext, FreshCalls
<1>6. PermitsKept'
  BY <1>2, WorkflowAssumption DEF NoContext, PermitsKept
<1> QED
  BY <1>3, <1>4, <1>5, <1>6 DEF PermitInv

(* Nothing happens to the permits while the items move forward. *)
LEMMA AgentsUntouched ==
  ASSUME PermitInv, UNCHANGED <<available, waiters, pc>>,
         at' \in [Items -> Nat],
         \A c \in Calls : at'[c[1]] = at[c[1]] \/ at'[c[1]] = Length[c[1]] + 1
  PROVE  PermitInv'
<1>1. AgentsTyped' /\ WaitersQueued'
  BY DEF PermitInv, AgentsTyped, WaitersQueued
<1>2. Holders' = Holders
  BY DEF Holders
<1>3. PermitsKept'
  BY <1>2 DEF PermitInv, PermitsKept
<1>4. FreshCalls'
  <2> SUFFICES ASSUME NEW c \in Calls, c[2] > at'[c[1]] PROVE pc'[c] = "none"
    BY DEF FreshCalls
  <2>1. c[2] \in Nat /\ c[2] <= Length[c[1]] /\ Length[c[1]] \in Nat
    BY CallShape, WorkflowAssumption
  <2>2. at'[c[1]] = at[c[1]]
    BY <2>1
  <2> QED
    BY <2>2 DEF PermitInv, FreshCalls
<1> QED
  BY <1>1, <1>3, <1>4 DEF PermitInv

(* A call moves between steps on the same side of the permit. *)
LEMMA CallMoves ==
  ASSUME PermitInv, NEW c \in Calls, NEW step \in Step,
         pc[c] # "queued", pc[c] \in Working <=> step \in Working,
         pc' = [pc EXCEPT ![c] = step], UNCHANGED <<available, waiters>>,
         at' \in [Items -> Nat], FreshCalls'
  PROVE  PermitInv'
<1>1. pc \in [Calls -> Step]
  BY DEF PermitInv, AgentsTyped
<1>2. AgentsTyped'
  BY <1>1 DEF PermitInv, AgentsTyped
<1>3. Holders' = Holders
  BY <1>1 DEF Holders
<1>4. PermitsKept'
  BY <1>3 DEF PermitInv, PermitsKept
<1>5. WaitersQueued'
  BY <1>1 DEF PermitInv, WaitersQueued, AgentsTyped
<1> QED
  BY <1>2, <1>4, <1>5 DEF PermitInv
-----------------------------------------------------------------------------
(* A call the script makes was nowhere: it takes no permit by being made. *)
LEMMA CallingKeeps ==
  ASSUME PermitInv, NEW i \in Items, Continue(i)
  PROVE  PermitInv'
<1>1. CASE ItemEnds(i)
  <2>1. at' = [at EXCEPT ![i] = Length[i] + 1] /\ UNCHANGED <<available, waiters, pc>>
    BY <1>1 DEF ItemEnds, agents, Over
  <2>2. at \in [Items -> Nat] /\ Length[i] + 1 \in Nat
    BY WorkflowAssumption DEF PermitInv, AgentsTyped
  <2>3. \A c \in Calls : c[1] \in Items
    BY CallShape
  <2> QED
    BY <2>1, <2>2, <2>3, AgentsUntouched
<1>2. ASSUME NEW step \in {"failed", "ok", "reset"}, at[i] < Length[i],
             pc' = [pc EXCEPT ![NextCall(i)] = step],
             UNCHANGED <<available, waiters>>,
             NEW n \in {at[i] + 1, Length[i] + 1}, at' = [at EXCEPT ![i] = n]
      PROVE  PermitInv'
  <2>1. AgentsTyped /\ FreshCalls
    BY DEF PermitInv
  <2>2. NextCall(i) \in Calls /\ NextCall(i)[1] = i /\ NextCall(i)[2] = at[i] + 1
    BY <1>2, <2>1, NextCallShape
  <2>3. at \in [Items -> Nat] /\ at[i] \in Nat /\ Length[i] \in Nat
    BY <2>1, WorkflowAssumption DEF AgentsTyped
  <2>4. at' \in [Items -> Nat] /\ n \in Nat /\ n > at[i]
    BY <1>2, <2>3
  <2>5. pc[NextCall(i)] = "none"
    BY <2>1, <2>2, <2>3 DEF FreshCalls
  <2>6. FreshCalls'
    <3> SUFFICES ASSUME NEW c \in Calls, c[2] > at'[c[1]] PROVE pc'[c] = "none"
      BY DEF FreshCalls
    <3>1. c[1] \in Items /\ c[2] \in Nat /\ at[c[1]] \in Nat
      BY <2>3, CallShape
    <3>2. at'[c[1]] >= at[c[1]] /\ (c[1] = i => at'[c[1]] >= at[i] + 1)
      BY <1>2, <2>3, <2>4, <3>1
    <3>3. c # NextCall(i)
      BY <2>2, <2>3, <2>4, <3>1, <3>2
    <3>4. pc[c] = "none"
      BY <2>1, <2>4, <3>1, <3>2 DEF FreshCalls
    <3> QED
      BY <1>2, <3>3, <3>4
  <2>7. step \in Step /\ step \notin Working /\ pc[NextCall(i)] \notin Working
    BY <1>2, <2>5 DEF Step, InFlight, Working
  <2>8. pc[NextCall(i)] # "queued"
    BY <2>5
  <2> QED
    BY <1>2, <2>2, <2>4, <2>6, <2>7, <2>8, CallMoves
<1>3. CASE CallAborted(i)
  <2>1. NextCall(i)[1] = i
    BY DEF NextCall
  <2>2. /\ at[i] < Length[i]
        /\ pc' = [pc EXCEPT ![NextCall(i)] = "failed"]
        /\ UNCHANGED <<available, waiters>>
        /\ at' = [at EXCEPT ![i] = Length[i] + 1]
    BY <1>3, <2>1 DEF CallAborted, Calling, Goto, Fails, Item, Over
  <2> QED
    BY <1>2, <2>2
<1>4. CASE Replay(i)
  <2>1. /\ at[i] < Length[i]
        /\ pc' = [pc EXCEPT ![NextCall(i)] = "ok"]
        /\ UNCHANGED <<available, waiters>>
        /\ at' = [at EXCEPT ![i] = at[i] + 1]
    BY <1>4 DEF Replay, Calling, Goto, Number
  <2> QED
    BY <1>2, <2>1
<1>5. CASE Diverge(i) \/ NewCall(i)
  <2>1. /\ at[i] < Length[i]
        /\ pc' = [pc EXCEPT ![NextCall(i)] = "reset"]
        /\ UNCHANGED <<available, waiters>>
        /\ at' = [at EXCEPT ![i] = at[i] + 1]
    BY <1>5 DEF Diverge, NewCall, Calling, Goto, Number
  <2> QED
    BY <1>2, <2>1
<1> QED
  BY <1>1, <1>3, <1>4, <1>5 DEF Continue
-----------------------------------------------------------------------------
(* Some items end and the others stay where they are. *)
ItemsEnd ==
  /\ at' \in [Items -> Nat]
  /\ \A c \in Calls : at'[c[1]] = at[c[1]] \/ at'[c[1]] = Length[c[1]] + 1

(* An item that ends, or one that does not move. *)
LEMMA EndOfItem ==
  ASSUME AgentsTyped, NEW c \in Calls,
         at' = at \/ at' = [at EXCEPT ![c[1]] = Length[c[1]] + 1]
  PROVE  ItemsEnd
<1>1. c[1] \in Items /\ Length[c[1]] + 1 \in Nat /\ at \in [Items -> Nat]
  BY CallShape, WorkflowAssumption DEF AgentsTyped
<1>2. \A d \in Calls : d[1] \in Items
  BY CallShape
<1> QED
  BY <1>1, <1>2 DEF ItemsEnd

(* Ending items leaves no call fresh that was not, as long as only calls   *)
(* that had been made move.                                                *)
LEMMA FreshStay ==
  ASSUME FreshCalls, ItemsEnd,
         \A c \in Calls : pc[c] = "none" => pc'[c] = "none"
  PROVE  FreshCalls'
<1> SUFFICES ASSUME NEW c \in Calls, c[2] > at'[c[1]] PROVE pc'[c] = "none"
  BY DEF FreshCalls
<1>1. c[2] \in Nat /\ c[2] <= Length[c[1]] /\ Length[c[1]] \in Nat
  BY CallShape, WorkflowAssumption
<1>2. at'[c[1]] = at[c[1]]
  BY <1>1 DEF ItemsEnd
<1> QED
  BY <1>2 DEF FreshCalls

(* The first waiter waits, and is not among the rest. *)
LEMMA FirstWaiter ==
  ASSUME AgentsTyped, WaitersQueued, waiters # <<>>
  PROVE  /\ Head(waiters) \in Calls /\ pc[Head(waiters)] = "queued"
         /\ Tail(waiters) \in Seq(Calls)
         /\ \A k \in DOMAIN Tail(waiters) :
              /\ k + 1 \in DOMAIN waiters /\ Tail(waiters)[k] = waiters[k + 1]
              /\ Tail(waiters)[k] # Head(waiters)
         /\ \A j, k \in DOMAIN Tail(waiters) :
              Tail(waiters)[j] = Tail(waiters)[k] => j = k
<1>1. waiters \in Seq(Calls)
  BY DEF AgentsTyped
<1>2. 1 \in DOMAIN waiters /\ Head(waiters) = waiters[1]
  BY <1>1
<1>3. Head(waiters) \in Calls /\ pc[Head(waiters)] = "queued"
  BY <1>1, <1>2 DEF WaitersQueued
<1>4. Tail(waiters) \in Seq(Calls)
  BY <1>1
<1>5. ASSUME NEW k \in DOMAIN Tail(waiters)
      PROVE  /\ k \in Nat \ {0} /\ k + 1 \in DOMAIN waiters
             /\ Tail(waiters)[k] = waiters[k + 1]
  BY <1>1
<1>6. ASSUME NEW k \in DOMAIN Tail(waiters)
      PROVE  Tail(waiters)[k] # Head(waiters)
  <2>1. k \in Nat \ {0} /\ k + 1 \in DOMAIN waiters /\ Tail(waiters)[k] = waiters[k + 1]
    BY <1>5
  <2>2. k + 1 # 1
    BY <2>1
  <2> QED
    BY <1>2, <2>1, <2>2 DEF WaitersQueued
<1>7. ASSUME NEW j \in DOMAIN Tail(waiters), NEW k \in DOMAIN Tail(waiters),
             Tail(waiters)[j] = Tail(waiters)[k]
      PROVE  j = k
  <2>1. j \in Nat /\ k \in Nat /\ j + 1 = k + 1
    BY <1>5, <1>7 DEF WaitersQueued
  <2> QED
    BY <2>1
<1> QED
  BY <1>3, <1>4, <1>5, <1>6, <1>7

(* Semaphore.release: the permit goes on to the first waiter, or is free   *)
(* again; it is never both and never neither.                              *)
LEMMA ReleaseKeeps ==
  ASSUME PermitInv, NEW c \in Calls, pc[c] \in Working,
         NEW step \in {"ok", "null", "failed"}, Release(c, step), ItemsEnd
  PROVE  PermitInv'
<1>1. AgentsTyped /\ WaitersQueued /\ FreshCalls /\ PermitsKept
  BY DEF PermitInv
<1>2. step \in Step /\ step \notin Working /\ step # "queued" /\ pc[c] # "queued"
  BY DEF Step, InFlight, Working
<1>3. pc \in [Calls -> Step]
  BY <1>1 DEF AgentsTyped
<1>4. c \in Holders /\ IsFiniteSet(Holders) /\ Cardinality(Holders) \in Nat
  BY HoldersFinite DEF Holders
<1>5. /\ IsFiniteSet(Holders \ {c})
      /\ Cardinality(Holders \ {c}) = Cardinality(Holders) - 1
  BY <1>4, FS_RemoveElement
<1>6. pc[c] # "none" /\ step # "none"
  BY DEF Working
<1>7. CASE waiters = <<>>
  <2>1. pc' = [pc EXCEPT ![c] = step] /\ available' = available + 1 /\ waiters' = <<>>
    BY <1>7 DEF Release, Goto
  <2>2. Holders' = Holders \ {c}
    BY <1>2, <1>3, <2>1 DEF Holders
  <2>3. AgentsTyped'
    BY <1>1, <1>2, <2>1 DEF AgentsTyped, ItemsEnd
  <2>4. WaitersQueued'
    BY <2>1 DEF WaitersQueued
  <2>5. PermitsKept'
    <3>1. available \in Nat /\ available + Cardinality(Holders) = Permits
      BY <1>1 DEF AgentsTyped, PermitsKept
    <3>2. Cardinality(Holders') = Cardinality(Holders) - 1
      BY <1>5, <2>2
    <3>3. available' + Cardinality(Holders') = Permits
      BY <1>4, <2>1, <3>1, <3>2
    <3> QED
      BY <2>1, <3>3 DEF PermitsKept
  <2>6. \A d \in Calls : pc[d] = "none" => pc'[d] = "none"
    BY <1>3, <1>6, <2>1
  <2>7. FreshCalls'
    BY <1>1, <2>6, FreshStay
  <2> QED
    BY <2>3, <2>4, <2>5, <2>7 DEF PermitInv
<1>8. CASE waiters # <<>>
  <2> DEFINE w == Head(waiters)
  <2>1. /\ pc' = [pc EXCEPT ![c] = step, ![w] = "woken"]
        /\ waiters' = Tail(waiters) /\ available' = available
    BY <1>8 DEF Release
  <2>2. /\ w \in Calls /\ pc[w] = "queued" /\ Tail(waiters) \in Seq(Calls)
        /\ \A k \in DOMAIN Tail(waiters) :
             /\ k + 1 \in DOMAIN waiters /\ Tail(waiters)[k] = waiters[k + 1]
             /\ Tail(waiters)[k] # w
        /\ \A j, k \in DOMAIN Tail(waiters) :
             Tail(waiters)[j] = Tail(waiters)[k] => j = k
    BY <1>1, <1>8, FirstWaiter
  <2> HIDE DEF w
  <2>3. w # c /\ w \notin Holders
    BY <1>2, <2>2 DEF Holders, Working
  <2>4. "woken" \in Step /\ "woken" \in Working
    BY DEF Step, InFlight, Working
  <2>5. pc' \in [Calls -> Step]
    BY <1>2, <1>3, <2>1, <2>4
  <2>6. \A d \in Calls : pc'[d] = IF d = w THEN "woken" ELSE IF d = c THEN step ELSE pc[d]
    BY <1>3, <2>1, <2>2, <2>3
  <2>7. Holders' = (Holders \ {c}) \cup {w}
    BY <1>2, <2>2, <2>3, <2>4, <2>6 DEF Holders
  <2>8. Cardinality(Holders') = Cardinality(Holders)
    <3>1. w \notin Holders \ {c}
      BY <2>3
    <3>2. Cardinality((Holders \ {c}) \cup {w}) = Cardinality(Holders \ {c}) + 1
      BY <1>5, <3>1, FS_AddElement
    <3> QED
      BY <1>4, <1>5, <2>7, <3>2
  <2>9. AgentsTyped'
    BY <1>1, <2>1, <2>2, <2>5 DEF AgentsTyped, ItemsEnd
  <2>10. WaitersQueued'
    <3>1. ASSUME NEW k \in DOMAIN Tail(waiters) PROVE pc'[Tail(waiters)[k]] = "queued"
      <4>1. /\ k + 1 \in DOMAIN waiters /\ Tail(waiters)[k] = waiters[k + 1]
            /\ Tail(waiters)[k] # w
        BY <2>2
      <4>2. pc[Tail(waiters)[k]] = "queued"
        BY <1>1, <4>1 DEF WaitersQueued
      <4>3. Tail(waiters)[k] \in Calls
        BY <2>2
      <4> QED
        BY <1>2, <2>6, <4>1, <4>2, <4>3
    <3> QED
      BY <2>1, <2>2, <3>1 DEF WaitersQueued
  <2>11. PermitsKept'
    BY <1>1, <1>8, <2>1, <2>8 DEF PermitsKept
  <2>12. \A d \in Calls : pc[d] = "none" => pc'[d] = "none"
    BY <1>6, <2>2, <2>6
  <2>13. FreshCalls'
    BY <1>1, <2>12, FreshStay
  <2> QED
    BY <2>9, <2>10, <2>11, <2>13 DEF PermitInv
<1> QED
  BY <1>7, <1>8
-----------------------------------------------------------------------------
(* Semaphore.acquire: a free permit is taken, or the call waits. *)
LEMMA AcquireKeeps ==
  ASSUME PermitInv, NEW c \in Calls, Acquire(c)
  PROVE  PermitInv'
<1>1. AgentsTyped /\ WaitersQueued /\ FreshCalls /\ PermitsKept
  BY DEF PermitInv
<1>2. pc[c] = "reset" /\ at' = at
  BY DEF Acquire, NextAfterReset, chains
<1>3. pc \in [Calls -> Step] /\ available \in Nat /\ waiters \in Seq(Calls)
  BY <1>1 DEF AgentsTyped
<1>4. ItemsEnd
  BY <1>1, <1>2 DEF ItemsEnd, AgentsTyped
<1>5. CASE available > 0 /\ available' = available - 1 /\ Goto(c, "woken") /\ UNCHANGED waiters
  <2>1. waiters = <<>>
    BY <1>1, <1>5 DEF PermitsKept
  <2>2. "woken" \in Step /\ "woken" \in Working /\ c \notin Holders
    BY <1>2 DEF Step, InFlight, Working, Holders
  <2>3. pc' = [pc EXCEPT ![c] = "woken"]
    BY <1>5 DEF Goto
  <2>4. Holders' = Holders \cup {c}
    BY <1>3, <2>2, <2>3 DEF Holders
  <2>5. Cardinality(Holders') = Cardinality(Holders) + 1
    BY <2>2, <2>4, HoldersFinite, FS_AddElement
  <2>6. AgentsTyped'
    BY <1>2, <1>3, <1>5, <1>1, <2>2, <2>3 DEF AgentsTyped
  <2>7. WaitersQueued'
    BY <1>5, <2>1 DEF WaitersQueued
  <2>8. PermitsKept'
    <3>1. Cardinality(Holders) \in Nat
      BY HoldersFinite
    <3>2. available' + Cardinality(Holders') = Permits
      BY <1>1, <1>3, <1>5, <2>5, <3>1 DEF PermitsKept
    <3> QED
      BY <1>5, <2>1, <3>2 DEF PermitsKept
  <2>9. \A d \in Calls : pc[d] = "none" => pc'[d] = "none"
    BY <1>2, <1>3, <2>3
  <2>10. FreshCalls'
    BY <1>1, <1>4, <2>9, FreshStay
  <2> QED
    BY <2>6, <2>7, <2>8, <2>10 DEF PermitInv
<1>6. CASE available = 0 /\ waiters' = Append(waiters, c) /\ Goto(c, "queued") /\ UNCHANGED available
  <2>1. pc' = [pc EXCEPT ![c] = "queued"]
    BY <1>6 DEF Goto
  <2>2. "queued" \in Step /\ "queued" \notin Working /\ c \notin Holders
    BY <1>2 DEF Step, InFlight, Working, Holders
  <2>3. Holders' = Holders
    BY <1>3, <2>1, <2>2 DEF Holders
  <2>4. waiters' \in Seq(Calls)
    BY <1>3, <1>6
  <2>5. AgentsTyped'
    BY <1>1, <1>2, <1>3, <1>6, <2>1, <2>2, <2>4 DEF AgentsTyped
  <2>6. \A k \in DOMAIN waiters : waiters[k] \in Calls /\ pc[waiters[k]] = "queued"
    BY <1>1, <1>3 DEF WaitersQueued
  <2>7. \A k \in DOMAIN waiters : waiters[k] # c
    BY <1>2, <2>6
  <2>8. \A k \in DOMAIN waiters' :
          \/ k \in DOMAIN waiters /\ waiters'[k] = waiters[k]
          \/ k = Len(waiters) + 1 /\ waiters'[k] = c
    BY <1>3, <1>6
  <2>9. WaitersQueued'
    <3>1. \A k \in DOMAIN waiters' : pc'[waiters'[k]] = "queued"
      BY <1>3, <2>1, <2>6, <2>8
    <3>2. ASSUME NEW j \in DOMAIN waiters', NEW k \in DOMAIN waiters', waiters'[j] = waiters'[k]
          PROVE  j = k
      BY <1>1, <2>7, <2>8, <3>2 DEF WaitersQueued
    <3> QED
      BY <3>1, <3>2 DEF WaitersQueued
  <2>10. PermitsKept'
    BY <1>1, <1>6, <2>3 DEF PermitsKept
  <2>11. \A d \in Calls : pc[d] = "none" => pc'[d] = "none"
    BY <1>2, <1>3, <2>1
  <2>12. FreshCalls'
    BY <1>1, <1>4, <2>11, FreshStay
  <2> QED
    BY <2>5, <2>9, <2>10, <2>12 DEF PermitInv
<1> QED
  BY <1>5, <1>6 DEF Acquire

(* An abort empties the queue and leaves the permits where they are. *)
LEMMA AbortKeeps ==
  ASSUME PermitInv, AbortEngine, UNCHANGED available
  PROVE  PermitInv'
<1>1. AgentsTyped /\ WaitersQueued /\ FreshCalls /\ PermitsKept
  BY DEF PermitInv
<1>2. /\ pc' = [c \in Calls |-> IF pc[c] = "queued" THEN "failed" ELSE pc[c]]
      /\ waiters' = <<>>
      /\ at' = [i \in Items |->
                  IF \E c \in {d \in Calls : pc[d] = "queued"} : Item(c) = i
                    THEN Over(i) ELSE at[i]]
  BY DEF AbortEngine
<1>3. pc \in [Calls -> Step] /\ at \in [Items -> Nat] /\ "failed" \in Step
  BY <1>1 DEF AgentsTyped, Step
<1>4. ItemsEnd
  <2>1. \A i \in Items : Over(i) = Length[i] + 1 /\ Over(i) \in Nat
    BY WorkflowAssumption DEF Over
  <2>2. \A c \in Calls : c[1] \in Items
    BY CallShape
  <2> QED
    BY <1>2, <1>3, <2>1, <2>2 DEF ItemsEnd
<1>5. AgentsTyped'
  <2>1. pc' \in [Calls -> Step]
    BY <1>2, <1>3
  <2> QED
    BY <1>1, <1>2, <1>4, <2>1 DEF AgentsTyped, ItemsEnd
<1>6. Holders' = Holders
  BY <1>2, <1>3 DEF Holders, Working
<1>7. PermitsKept'
  BY <1>1, <1>2, <1>6 DEF PermitsKept
<1>8. WaitersQueued'
  BY <1>2 DEF WaitersQueued
<1>9. FreshCalls'
  BY <1>1, <1>2, <1>4, FreshStay
<1> QED
  BY <1>5, <1>7, <1>8, <1>9 DEF PermitInv
-----------------------------------------------------------------------------
(* What one call does on its own. *)
LEMMA CallKeeps ==
  ASSUME PermitInv, NEW c \in Calls,
         \/ AcquireFails(c) \/ Begin(c) \/ Abandon(c) \/ AgentReturns(c)
         \/ Record(c) \/ RecordFails(c) \/ KillAgent(c)
  PROVE  PermitInv'
<1>1. AgentsTyped /\ FreshCalls /\ pc \in [Calls -> Step]
  BY DEF PermitInv, AgentsTyped
<1>2. ASSUME NEW error \in {"aborted", "error"}, Fails(c, error)
      PROVE  at' = [at EXCEPT ![c[1]] = Length[c[1]] + 1]
  BY <1>2 DEF Fails, Item, Over
<1>3. CASE AcquireFails(c)
  <2>1. /\ pc[c] = "reset" /\ pc' = [pc EXCEPT ![c] = "failed"]
        /\ UNCHANGED <<available, waiters>>
        /\ at' = [at EXCEPT ![c[1]] = Length[c[1]] + 1]
    BY <1>2, <1>3 DEF AcquireFails, NextAfterReset, Goto
  <2>2. ItemsEnd
    BY <1>1, <2>1, EndOfItem
  <2>3. FreshCalls'
    BY <1>1, <2>1, <2>2, FreshStay
  <2>4. "failed" \in Step /\ "failed" \notin Working /\ "reset" \notin Working
    BY DEF Step, Working
  <2> QED
    BY <2>1, <2>2, <2>3, <2>4, CallMoves DEF ItemsEnd
<1>4. CASE Abandon(c) \/ RecordFails(c)
  <2>1. /\ pc[c] \in Working /\ Release(c, "failed")
        /\ at' = [at EXCEPT ![c[1]] = Length[c[1]] + 1]
    BY <1>2, <1>4 DEF Abandon, RecordFails, Working
  <2>2. ItemsEnd
    BY <1>1, <2>1, EndOfItem
  <2> QED
    BY <2>1, <2>2, ReleaseKeeps
<1>5. CASE Record(c)
  <2>1. /\ pc[c] \in Working /\ at' = at
        /\ Release(c, IF pc[c] = "appendOk" THEN "ok" ELSE "null")
    BY <1>5 DEF Record, Working, Settles
  <2>2. ItemsEnd
    BY <1>1, <2>1, EndOfItem
  <2>3. (IF pc[c] = "appendOk" THEN "ok" ELSE "null") \in {"ok", "null", "failed"}
    OBVIOUS
  <2> QED
    BY <2>1, <2>2, <2>3, ReleaseKeeps
<1>6. ASSUME NEW step \in Working, pc[c] \in Working, pc' = [pc EXCEPT ![c] = step],
             UNCHANGED <<available, waiters, at>>
      PROVE  PermitInv'
  <2>1. step \in Step /\ pc[c] # "queued" /\ pc[c] # "none"
    BY <1>6 DEF Step, InFlight, Working
  <2>2. ItemsEnd
    BY <1>1, <1>6, EndOfItem
  <2>3. FreshCalls'
    BY <1>1, <1>6, <2>1, <2>2, FreshStay
  <2> QED
    BY <1>6, <2>1, <2>2, <2>3, CallMoves DEF ItemsEnd
<1>7. CASE Begin(c)
  <2>1. "running" \in Working /\ pc[c] \in Working
    BY <1>7 DEF Begin, Working
  <2>2. pc' = [pc EXCEPT ![c] = "running"] /\ UNCHANGED <<available, waiters, at>>
    BY <1>7 DEF Begin, Goto, chains
  <2> QED
    BY <1>6, <2>1, <2>2
<1>8. CASE AgentReturns(c)
  <2>1. pc[c] \in Working /\ UNCHANGED <<available, waiters, at>>
    BY <1>8 DEF AgentReturns, Working, chains
  <2>2. PICK step \in {"appendOk", "rerunning", "appendNull"} : pc' = [pc EXCEPT ![c] = step]
    BY <1>8 DEF AgentReturns, Goto
  <2>3. step \in Working
    BY <2>2 DEF Working
  <2> QED
    BY <1>6, <2>1, <2>2, <2>3
<1>9. CASE KillAgent(c)
  <2>1. UNCHANGED <<available, waiters, pc, at>>
    BY <1>9 DEF KillAgent, chains
  <2> QED
    BY <1>1, <2>1, AgentsUntouched DEF AgentsTyped
<1> QED
  BY <1>3, <1>4, <1>5, <1>7, <1>8, <1>9

(* Every step keeps the permits. *)
LEMMA StepKeeps ==
  ASSUME PermitInv, [Next]_vars
  PROVE  PermitInv'
<1>1. AgentsTyped
  BY DEF PermitInv
<1>2. ASSUME UNCHANGED <<available, waiters, pc, at>> PROVE PermitInv'
  BY <1>1, <1>2, AgentsUntouched DEF AgentsTyped
<1>3. CASE UNCHANGED vars
  BY <1>2, <1>3 DEF vars, agents, chains
<1>4. CASE \E l \in late : LateLine(l)
  BY <1>2, <1>4 DEF LateLine, engine, agents, chains
<1>5. CASE \/ Launch \/ (\E s \in Scripts : SaveRequest(s)) \/ LaunchFails \/ Create \/ Open
           \/ Start \/ ResetEnds \/ ScriptReturns \/ RunDone \/ LoadPersisted
  BY <1>2, <1>5 DEF Launch, SaveRequest, LaunchFails, Create, Open, Start, ResetEnds,
     ScriptReturns, RunDone, LoadPersisted, engine, agents, chains
<1>6. CASE WriteFails \/ Close \/ Crash
  BY <1>6, NoContextKeeps DEF WriteFails, Close, Crash
<1>7. CASE \E i \in Items : Continue(i)
  BY <1>7, CallingKeeps
<1>8. CASE \E c \in Calls : \/ Acquire(c) \/ AcquireFails(c) \/ Begin(c) \/ Abandon(c)
                            \/ AgentReturns(c) \/ Record(c) \/ RecordFails(c) \/ KillAgent(c)
  BY <1>8, AcquireKeeps, CallKeeps
<1>9. CASE KillRun \/ Shutdown \/ ScriptThrows
  <2>1. CASE AbortEngine /\ UNCHANGED available
    BY <2>1, AbortKeeps
  <2>2. CASE UNCHANGED <<available, waiters, pc, at>>
    BY <1>2, <2>2
  <2> QED
    BY <1>9, <2>1, <2>2 DEF KillRun, Shutdown, ScriptThrows, Kill
<1> QED
  BY <1>3, <1>5, <1>6, <1>7, <1>8, <1>9, <1>4 DEF Next

(* Nothing is at work before the first launch. *)
LEMMA InitPermits ==
  ASSUME Init
  PROVE  PermitInv
<1>1. Holders = {}
  BY DEF Init, Holders, Working
<1>2. PermitsKept
  BY <1>1, FS_EmptySet, WorkflowAssumption DEF Init, PermitsKept
<1>3. AgentsTyped
  BY WorkflowAssumption DEF Init, AgentsTyped, Step
<1> QED
  BY <1>2, <1>3 DEF Init, PermitInv, WaitersQueued, FreshCalls

(* The permits of the engine are conserved: hand-overs, aborts that empty  *)
(* the queue, failing appends and kills neither lose one nor make one, so  *)
(* at most Permits agents ever work at a time, and nobody waits while one  *)
(* is free.  (concurrency.ts Semaphore, hooks.ts agent.)                   *)
THEOREM PermitsConserved == Spec => []PermitsKept
<1>1. Init => PermitInv
  BY InitPermits
<1>2. PermitInv /\ [Next]_vars => PermitInv'
  BY StepKeeps
<1>3. PermitInv => PermitsKept
  BY DEF PermitInv
<1> QED
  BY <1>1, <1>2, <1>3, PTL DEF Spec
-----------------------------------------------------------------------------
(* The types, in three parts. *)
LinesTyped ==
  /\ IsABag(journal) /\ BagToSet(journal) \subseteq Entry /\ read \subseteq Entry
  /\ late \subseteq Pending
ServiceTyped ==
  /\ script \in SUBSET Calls
  /\ disk \in Final \cup {"none", "running"}
  /\ phase \in Engine \cup {"idle", "launching", "saved", "created", "opened", "over"}
  /\ closed \in BOOLEAN /\ killed \in BOOLEAN /\ aborted \in BOOLEAN
  /\ status \in Final \cup {"none"} \cup (IF phase = "idle" THEN {} ELSE {"running"})
  /\ reset \in {"none", "pending", "done", "failed"}
  /\ ending \in {"none", "aborted", "error", "killed", "failed"}
  /\ launches \in Nat /\ failures \in Nat /\ crashes \in Nat
EngineTyped ==
  cut \in Nat /\ made \in Seq(Calls) /\ stopped \subseteq Calls /\ ready \in Seq(Items)

(* Before the engine starts the context of the run is as it was made. *)
Pristine == made = <<>> /\ reset = "none" /\ read = {} /\ ~aborted

(* What the status and the end of the run may be where the launch is. *)
RunInv ==
  /\ ServiceTyped
  /\ phase \notin Engine \cup {"created", "opened"} => status # "running"
  /\ phase = "draining" => ending \in {"killed", "failed"}
  /\ phase \notin Live => Pristine

(* What may be at work when the run is over: nothing, or, when it has      *)
(* completed, calls the script made after it returned.                     *)
JoinInv ==
  /\ joined \subseteq Calls /\ loose \in BOOLEAN
  /\ late # {} => loose
  /\ loose => \E i \in Unawaited : Length[i] > 1
  /\ \A c \in joined : c[2] <= at[c[1]]
  /\ phase \notin Live => Left = {}
  /\ phase = "draining" => aborted
  /\ phase = "over" => IF aborted THEN Left = {} ELSE status = "completed"
  /\ phase = "over" => \A c \in Left : c \notin joined
  /\ phase \in {"joining", "over"} =>
       \A c \in Left : c \notin joined => c[1] \in Unawaited /\ c[2] > 1
  /\ phase \in {"joining", "over"} /\ ~aborted =>
       \A i \in Items : at[i] > 0 /\ (i \notin Unawaited => at[i] = Length[i] + 1)

(* Every call at work has its number, and no call has two. *)
MadeInv ==
  /\ \A n \in DOMAIN made : made[n][2] <= at[made[n][1]]
  /\ \A m, n \in DOMAIN made : made[m] = made[n] => m = n
  /\ \A c \in Calls : pc[c] \in InFlight => \E n \in DOMAIN made : made[n] = c

(* The journal has one line for each number. *)
OneLineEach == \A e, f \in BagToSet(journal) : e.seq = f.seq => e = f
CopiesInv == OneLineEach /\ \A e \in BagToSet(journal) : journal[e] = 1

(* The lines of the calls made below n are true. *)
TrueBelow(lines, n) ==
  \A e \in lines : e.seq \in DOMAIN made /\ e.seq < n => KeyOf(e) = Key(made[e.seq])

(* While the journal read is replayed or cut, nothing is written. *)
Replaying ==
  /\ BagToSet(journal) = read
  /\ reset = "none" => TrueBelow(read, Len(made) + 1)
  /\ reset # "none" => cut \in DOMAIN made /\ TrueBelow(read, cut)
  /\ \A c \in Calls : pc[c] \in InFlight => pc[c] = "reset" /\ reset # "none"
  /\ reset # "none" => \A n \in DOMAIN made : pc[made[n]] \in InFlight => n >= cut

(* Otherwise the lines are those of calls made, and calls at work have     *)
(* none yet.                                                               *)
Writing ==
  \A e \in BagToSet(journal) :
    /\ e.seq \in DOMAIN made /\ KeyOf(e) = Key(made[e.seq])
    /\ pc[made[e.seq]] \notin InFlight

(* Whether the journal that was read is still the one to go by. *)
Old == read # {} /\ reset # "done"

JournalInv ==
  /\ CopiesInv
  /\ reset # "none" => read # {}
  /\ phase \in Live /\ Old => Replaying
  /\ phase \in Live /\ ~Old /\ (made # <<>> \/ ~aborted) => Writing

(* What holds always, and what holds as long as no run has left calls      *)
(* behind.                                                                 *)
BaseInv ==
  PermitInv /\ LinesTyped /\ EngineTyped /\ RunInv /\ JoinInv /\ MadeInv
LinesInv == BaseInv /\ JournalInv
SoundInv == BaseInv /\ (loose \/ JournalInv)
-----------------------------------------------------------------------------
(* The script has finitely many items, numbered from 1. *)
LEMMA ItemsCounted ==
  IsFiniteSet(Items) /\ Cardinality(Items) \in Nat /\ Items = 1..Cardinality(Items)
<1> DEFINE first == [c \in Calls |-> c[1]]
<1>1. ASSUME NEW i \in Items PROVE \E c \in Calls : first[c] = i
  <2>1. <<i, 1>> \in {i} \X (1..Length[i])
    BY WorkflowAssumption
  <2>2. <<i, 1>> \in Calls
    BY <2>1 DEF Calls
  <2> QED
    BY <2>2
<1>2. first \in [Calls -> Items]
  BY CallShape
<1>3. first \in Surjection(Calls, Items)
  BY <1>1, <1>2 DEF Surjection
<1>4. IsFiniteSet(Items)
  BY <1>3, WorkflowAssumption, FS_Surjection
<1> QED
  BY <1>4, WorkflowAssumption, FS_CardinalityType

(* The parts make up the types. *)
LEMMA TypesOfParts ==
  ASSUME PermitInv, LinesTyped, EngineTyped, ServiceTyped, JoinInv
  PROVE  TypeOK
<1>1. available \in Nat /\ available + Cardinality(Holders) = Permits
  BY DEF PermitInv, AgentsTyped, PermitsKept
<1>2. available \in 0..Permits
  BY <1>1, HoldersFinite, WorkflowAssumption
<1>3. /\ waiters \in Seq(Calls) /\ at \in [Items -> Nat]
      /\ pc \in [Calls -> InFlight \cup {"none", "ok", "null", "failed"}]
  BY DEF PermitInv, AgentsTyped, Step
<1> QED
  BY <1>2, <1>3 DEF LinesTyped, EngineTyped, ServiceTyped, JoinInv, TypeOK

(* A run that is over has nothing at work but what the join misses. *)
LEMMA OverIsQuiet ==
  ASSUME JoinInv
  PROVE  EndedQuiet
<1> SUFFICES ASSUME phase \notin Engine, NEW c \in Left
             PROVE  /\ phase = "over" /\ status = "completed"
                    /\ Item(c) \in Unawaited /\ c[2] > 1
  BY DEF EndedQuiet
<1>1. phase = "over"
  BY DEF JoinInv, Live
<1>2. ~aborted /\ status = "completed" /\ c \notin joined
  BY <1>1 DEF JoinInv
<1> QED
  BY <1>1, <1>2 DEF JoinInv, Item

(* The invariant says what the run checks. *)
LEMMA LinesAreSound ==
  ASSUME SoundInv
  PROVE  JournalSound
<1>1. TypeOK
  BY TypesOfParts DEF SoundInv, BaseInv, RunInv
<1>2. EndedQuiet /\ (loose => \E i \in Unawaited : Length[i] > 1)
  BY OverIsQuiet DEF SoundInv, BaseInv, JoinInv
<1>3. ASSUME ~loose, NEW e \in BagToSet(journal)
      PROVE  journal[e] = 1 /\ \A f \in BagToSet(journal) : e.seq = f.seq => e = f
  BY <1>3 DEF SoundInv, JournalInv, CopiesInv, OneLineEach
<1>4. ASSUME ~loose, phase \in Live, reset \in {"none", "done"},
             NEW e \in BagToSet(journal), e.seq \in DOMAIN made
      PROVE  KeyOf(e) = Key(made[e.seq])
  <2>1. CASE Old
    <3>1. Replaying /\ reset = "none"
      BY <1>4, <2>1 DEF SoundInv, JournalInv, Old
    <3>2. TrueBelow(read, Len(made) + 1) /\ e \in read
      BY <1>4, <3>1 DEF Replaying
    <3>3. e.seq \in Nat /\ e.seq < Len(made) + 1
      BY <1>4 DEF SoundInv, BaseInv, EngineTyped
    <3> QED
      BY <1>4, <3>2, <3>3 DEF TrueBelow
  <2>2. CASE ~Old
    <3>1. made # <<>>
      BY <1>4
    <3>2. Writing
      BY <1>4, <2>2, <3>1 DEF SoundInv, JournalInv
    <3> QED
      BY <1>4, <3>2 DEF Writing
  <2> QED
    BY <2>1, <2>2
<1> QED
  BY <1>1, <1>2, <1>3, <1>4 DEF JournalSound
-----------------------------------------------------------------------------
(* Calls go on with their work, end, or make room for others. *)
MovesOn ==
  \A c \in Calls :
    pc'[c] \in InFlight => /\ pc[c] \in InFlight
                           /\ pc[c] = "reset" /\ Old => pc'[c] = "reset"

(* No call comes to work. *)
Fewer == \A c \in Calls : pc'[c] \in InFlight => pc[c] \in InFlight

(* The calls keep their numbers while they work and end. *)
LEMMA MadeGoesOn ==
  ASSUME MadeInv, made \in Seq(Calls), ItemsEnd, Fewer, UNCHANGED made
  PROVE  MadeInv'
<1>1. ASSUME NEW n \in DOMAIN made PROVE made[n][2] <= at'[made[n][1]]
  <2>1. made[n] \in Calls
    OBVIOUS
  <2>2. /\ made[n][1] \in Items /\ made[n][2] \in Nat
        /\ made[n][2] <= Length[made[n][1]] /\ Length[made[n][1]] \in Nat
    BY <2>1, CallShape, WorkflowAssumption
  <2>3. made[n][2] <= at[made[n][1]]
    BY DEF MadeInv
  <2>4. at'[made[n][1]] = at[made[n][1]] \/ at'[made[n][1]] = Length[made[n][1]] + 1
    BY <2>1 DEF ItemsEnd
  <2> QED
    BY <2>2, <2>3, <2>4
<1> QED
  BY <1>1 DEF MadeInv, Fewer

LEMMA CallsGoOn ==
  ASSUME LinesInv, ItemsEnd, MovesOn,
         UNCHANGED <<journal, script, read, reset, cut, made>>,
         phase' \in Live => phase \in Live, aborted => aborted', aborted' \in BOOLEAN
  PROVE  MadeInv' /\ JournalInv'
<1>1. made \in Seq(Calls) /\ MadeInv /\ JournalInv /\ aborted \in BOOLEAN
  BY DEF LinesInv, BaseInv, EngineTyped, RunInv, ServiceTyped
<1>2. \A n \in DOMAIN made : made[n] \in Calls
  BY <1>1
<1>3. MadeInv'
  <2>1. Fewer
    BY DEF MovesOn, Fewer
  <2> QED
    BY <1>1, <2>1, MadeGoesOn
<1>4. CopiesInv' /\ (reset' # "none" => read' # {})
  BY <1>1 DEF JournalInv, CopiesInv, OneLineEach
<1>5. ASSUME phase' \in Live, Old' PROVE Replaying'
  <2>1. Replaying /\ Old
    BY <1>1, <1>5 DEF JournalInv, Old
  <2>2. /\ (TrueBelow(read, Len(made) + 1))' <=> TrueBelow(read, Len(made) + 1)
        /\ (TrueBelow(read, cut))' <=> TrueBelow(read, cut)
    BY DEF TrueBelow, Key, KeyOf
  <2>3. \A c \in Calls : pc'[c] \in InFlight => pc[c] \in InFlight /\ pc'[c] = "reset"
    BY <2>1 DEF MovesOn, Replaying
  <2> QED
    BY <1>2, <2>1, <2>2, <2>3 DEF Replaying
<1>6. ASSUME phase' \in Live, ~Old', made' # <<>> \/ ~aborted' PROVE Writing'
  <2>1. Writing
    BY <1>1, <1>6 DEF JournalInv, Old
  <2>2. \A c : (Key(c))' = Key(c)
    BY DEF Key
  <2>3. \A e \in BagToSet(journal) :
          /\ e.seq \in DOMAIN made /\ KeyOf(e) = Key(made[e.seq])
          /\ pc'[made[e.seq]] \notin InFlight
    BY <1>2, <2>1 DEF Writing, MovesOn
  <2> QED
    BY <2>2, <2>3 DEF Writing
<1> QED
  BY <1>3, <1>4, <1>5, <1>6 DEF JournalInv

(* A new context has made no call and reads no journal. *)
LEMMA ContextIsNew ==
  ASSUME LinesInv, NoContext, phase' = "idle", UNCHANGED journal
  PROVE  MadeInv' /\ JournalInv' /\ EngineTyped' /\ read' = {}
<1>1. CopiesInv'
  BY DEF LinesInv, JournalInv, CopiesInv, OneLineEach
<1>2. phase' \notin Live
  BY DEF Live, Engine
<1>3. MadeInv' /\ EngineTyped'
  BY DEF NoContext, MadeInv, EngineTyped, InFlight, Working
<1> QED
  BY <1>1, <1>2, <1>3 DEF NoContext, JournalInv

(* The engine starts with the journal of the file, or has nothing to do. *)
LEMMA EngineStarts ==
  ASSUME LinesInv, Start
  PROVE  MadeInv' /\ JournalInv'
<1>1. /\ made = <<>> /\ reset = "none" /\ read = {} /\ ~aborted
      /\ \A c \in Calls : pc[c] \notin InFlight
  BY DEF LinesInv, BaseInv, RunInv, JoinInv, Left, Pristine, Start, Live, Engine
<1>2. UNCHANGED <<journal, script, made, reset, cut, pc, at>>
  BY DEF Start, files, agents
<1>3. MadeInv'
  BY <1>1, <1>2 DEF MadeInv
<1>4. CopiesInv'
  BY <1>2 DEF LinesInv, JournalInv, CopiesInv, OneLineEach
<1>5. CASE read' = BagToSet(journal)
  <2>1. Old' => Replaying'
    BY <1>1, <1>2, <1>5 DEF Replaying, TrueBelow
  <2>2. ~Old' => Writing'
    BY <1>1, <1>2, <1>5 DEF Old, Writing
  <2> QED
    BY <1>1, <1>2, <1>3, <1>4, <2>1, <2>2 DEF JournalInv
<1>6. CASE aborted' /\ UNCHANGED read
  BY <1>1, <1>2, <1>3, <1>4, <1>6 DEF JournalInv, Old
<1> QED
  BY <1>5, <1>6 DEF Start

(* What a call that the script makes finds: it is not among those made. *)
LEMMA NumberIsNew ==
  ASSUME BaseInv, NEW i \in Items, at[i] < Length[i]
  PROVE  /\ NextCall(i) \in Calls
         /\ \A n \in DOMAIN made : made[n] \in Calls /\ made[n] # NextCall(i)
<1>1. AgentsTyped /\ MadeInv /\ made \in Seq(Calls) /\ at[i] \in Nat
  BY DEF BaseInv, PermitInv, AgentsTyped, EngineTyped
<1>2. NextCall(i) \in Calls /\ NextCall(i)[1] = i /\ NextCall(i)[2] = at[i] + 1
  BY <1>1, NextCallShape
<1>3. ASSUME NEW n \in DOMAIN made PROVE made[n] \in Calls /\ made[n] # NextCall(i)
  <2>1. made[n] \in Calls /\ made[n][2] <= at[made[n][1]]
    BY <1>1 DEF MadeInv
  <2> QED
    BY <1>1, <1>2, <2>1
<1> QED
  BY <1>2, <1>3

(* The call has the next number, and nothing else changes but its step. *)
Numbers(i, step) ==
  /\ made' = Append(made, NextCall(i)) /\ at' = [at EXCEPT ![i] = @ + 1]
  /\ pc' = [pc EXCEPT ![NextCall(i)] = step]
  /\ UNCHANGED <<journal, script, read, phase, aborted>>

LEMMA NumbersKeep ==
  ASSUME BaseInv, NEW i \in Items, at[i] < Length[i], NEW step \in Step, Numbers(i, step)
  PROVE  /\ MadeInv' /\ (CopiesInv => CopiesInv')
         /\ made' \in Seq(Calls) /\ DOMAIN made' = 1..(Len(made) + 1)
         /\ Len(made') = Len(made) + 1 /\ Len(made) \in Nat
         /\ \A n \in DOMAIN made : n \in DOMAIN made' /\ made'[n] = made[n] /\ n <= Len(made)
         /\ \A n \in DOMAIN made : made[n] \in Calls /\ pc'[made[n]] = pc[made[n]]
         /\ made'[Len(made) + 1] = NextCall(i) /\ pc'[NextCall(i)] = step
         /\ \A c \in Calls : c # NextCall(i) => pc'[c] = pc[c]
<1> DEFINE new == NextCall(i)
<1>1. /\ new \in Calls /\ new[1] = i /\ new[2] = at[i] + 1
      /\ \A n \in DOMAIN made : made[n] \in Calls /\ made[n] # new
  <2>1. AgentsTyped
    BY DEF BaseInv, PermitInv
  <2> QED
    BY <2>1, NextCallShape, NumberIsNew
<1>2. /\ made \in Seq(Calls) /\ MadeInv /\ pc \in [Calls -> Step]
      /\ at \in [Items -> Nat]
  BY DEF BaseInv, EngineTyped, PermitInv, AgentsTyped
<1>3. made' = Append(made, new) /\ pc' = [pc EXCEPT ![new] = step]
  BY DEF Numbers
<1>4. \A c \in Calls : c[1] \in Items /\ c[2] \in Nat
  BY CallShape
<1> HIDE DEF new
<1>5. /\ made' \in Seq(Calls) /\ Len(made') = Len(made) + 1 /\ Len(made) \in Nat
      /\ \A n \in DOMAIN made : n \in DOMAIN made' /\ made'[n] = made[n] /\ n <= Len(made)
      /\ made'[Len(made) + 1] = new /\ DOMAIN made' = 1..(Len(made) + 1)
      /\ \A n \in DOMAIN made' : n \in DOMAIN made \/ n = Len(made) + 1
  BY <1>1, <1>2, <1>3
<1>6. pc'[new] = step /\ \A c \in Calls : c # new => pc'[c] = pc[c]
  BY <1>1, <1>2, <1>3
<1>7. MadeInv'
  <2>1. ASSUME NEW n \in DOMAIN made' PROVE made'[n][2] <= at'[made'[n][1]]
    <3>1. at' = [at EXCEPT ![i] = at[i] + 1]
      BY DEF Numbers
    <3>2. CASE n \in DOMAIN made
      <4>1. made'[n] = made[n] /\ made[n] \in Calls /\ made[n][2] <= at[made[n][1]]
        BY <1>1, <1>2, <1>5, <3>2 DEF MadeInv
      <4> QED
        BY <1>2, <1>4, <3>1, <4>1
    <3>3. CASE n = Len(made) + 1
      BY <1>1, <1>2, <1>4, <1>5, <3>1, <3>3
    <3> QED
      BY <1>5, <2>1, <3>2, <3>3
  <2>2. ASSUME NEW m \in DOMAIN made', NEW n \in DOMAIN made', made'[m] = made'[n]
        PROVE  m = n
    BY <1>1, <1>2, <1>5, <2>2 DEF MadeInv
  <2>3. ASSUME NEW c \in Calls, pc'[c] \in InFlight PROVE \E n \in DOMAIN made' : made'[n] = c
    <3>1. Len(made) + 1 \in DOMAIN made'
      BY <1>5
    <3>2. CASE c = new
      BY <1>5, <3>1, <3>2
    <3>3. CASE c # new
      <4>1. pc[c] \in InFlight
        BY <1>6, <2>3, <3>3
      <4>2. PICK n \in DOMAIN made : made[n] = c
        BY <1>2, <4>1 DEF MadeInv
      <4> QED
        BY <1>5, <4>2
    <3> QED
      BY <3>2, <3>3
  <2> QED
    BY <2>1, <2>2, <2>3 DEF MadeInv
<1>8. CopiesInv => CopiesInv'
  BY DEF CopiesInv, OneLineEach, Numbers
<1> QED
  BY <1>1, <1>5, <1>6, <1>7, <1>8 DEF new

(* The script goes on: a call replays, or is new, or an item ends. *)
LEMMA CallsAreMade ==
  ASSUME LinesInv, NEW i \in Items, Continue(i)
  PROVE  MadeInv' /\ JournalInv'
<1>1. /\ AgentsTyped /\ MadeInv /\ JournalInv /\ aborted \in BOOLEAN /\ at \in [Items -> Nat]
      /\ pc \in [Calls -> Step] /\ made \in Seq(Calls)
  BY DEF LinesInv, BaseInv, PermitInv, AgentsTyped, RunInv, ServiceTyped, EngineTyped
<1>2. phase \in Live
  BY DEF Continue, CallAborted, Replay, Diverge, NewCall, ItemEnds, Calling, Turn
<1>3. "ok" \in Step /\ "reset" \in Step /\ "reset" \in InFlight
      /\ "ok" \notin InFlight /\ "failed" \notin InFlight
  BY DEF Step, InFlight, Working
<1>4. CASE CallAborted(i) \/ ItemEnds(i)
  <2>1. /\ UNCHANGED <<journal, script, read, reset, cut, made, phase, aborted>>
        /\ at' = [at EXCEPT ![i] = Over(i)]
    <3>1. NextCall(i)[1] = i
      BY DEF NextCall
    <3> QED
      BY <1>4, <3>1 DEF CallAborted, ItemEnds, files, service, Fails, Item
  <2>2. pc' = pc \/ pc' = [pc EXCEPT ![NextCall(i)] = "failed"]
    BY <1>4 DEF CallAborted, ItemEnds, Goto, agents
  <2>3. MovesOn
    BY <1>1, <1>3, <2>2 DEF MovesOn
  <2>4. ItemsEnd
    <3>1. \A c \in Calls : c[1] \in Items
      BY CallShape
    <3>2. Over(i) = Length[i] + 1 /\ Over(i) \in Nat
      BY WorkflowAssumption DEF Over
    <3> QED
      BY <1>1, <2>1, <3>1, <3>2 DEF ItemsEnd
  <2> QED
    BY <1>1, <2>1, <2>3, <2>4, CallsGoOn
<1>5. ASSUME NEW step \in {"ok", "reset"}, at[i] < Length[i], Numbers(i, step)
      PROVE  /\ MadeInv' /\ CopiesInv'
             /\ DOMAIN made' = 1..(Len(made) + 1)
             /\ Len(made') = Len(made) + 1 /\ Len(made) \in Nat
             /\ \A n \in DOMAIN made : n \in DOMAIN made' /\ made'[n] = made[n] /\ n <= Len(made)
             /\ \A n \in DOMAIN made : made[n] \in Calls /\ pc'[made[n]] = pc[made[n]]
             /\ made'[Len(made) + 1] = NextCall(i) /\ pc'[NextCall(i)] = step
             /\ \A c \in Calls : c # NextCall(i) => pc'[c] = pc[c]
  BY <1>1, <1>3, <1>5, NumbersKeep DEF LinesInv, JournalInv
<1>6. DOMAIN made = 1..Len(made)
  BY <1>1
<1>7. \A c : (Key(c))' = Key(c)
  <2>1. script' = script
    BY DEF Continue, CallAborted, Replay, Diverge, NewCall, ItemEnds, files
  <2> QED
    BY <2>1 DEF Key
<1>8. CASE Replay(i)
  <2>1. Numbers(i, "ok") /\ at[i] < Length[i] /\ reset = "none" /\ reset' = "none"
    BY <1>8 DEF Replay, Numbers, Number, Goto, Calling, files, service
  <2>2. PICK line \in read : line.seq = Len(made) + 1 /\ KeyOf(line) = Key(NextCall(i))
    BY <1>8 DEF Replay, Replayable
  <2>3. Old /\ Old' /\ Replaying /\ BagToSet(journal') = read /\ read' = read
        /\ BagToSet(journal) = read
    BY <1>1, <1>2, <2>1, <2>2 DEF JournalInv, Old, Replaying, Numbers
  <2>4. /\ MadeInv' /\ CopiesInv'
        /\ DOMAIN made' = 1..(Len(made) + 1)
        /\ Len(made') = Len(made) + 1 /\ Len(made) \in Nat
        /\ \A n \in DOMAIN made : made'[n] = made[n]
        /\ made'[Len(made) + 1] = NextCall(i) /\ pc'[NextCall(i)] = "ok"
        /\ \A c \in Calls : c # NextCall(i) => pc'[c] = pc[c]
    BY <1>5, <2>1
  <2>5. \A e \in read : e.seq \in DOMAIN made' => KeyOf(e) = Key(made'[e.seq])
    <3> SUFFICES ASSUME NEW e \in read, e.seq \in DOMAIN made'
                 PROVE  KeyOf(e) = Key(made'[e.seq])
      OBVIOUS
    <3>1. CASE e.seq \in DOMAIN made
      <4>1. TrueBelow(read, Len(made) + 1) /\ e.seq < Len(made) + 1
        BY <1>6, <2>1, <2>3, <2>4, <3>1 DEF Replaying
      <4>2. KeyOf(e) = Key(made[e.seq])
        BY <3>1, <4>1 DEF TrueBelow
      <4> QED
        BY <2>4, <3>1, <4>2
    <3>2. CASE e.seq = Len(made) + 1
      <4>1. e = line
        BY <1>1, <2>2, <2>3, <3>2 DEF JournalInv, CopiesInv, OneLineEach
      <4> QED
        BY <2>2, <2>4, <3>2, <4>1
    <3> QED
      BY <1>6, <2>4, <3>1, <3>2
  <2>6. (TrueBelow(read, Len(made) + 1))'
    BY <1>7, <2>3, <2>5 DEF TrueBelow, KeyOf
  <2>7. \A c \in Calls : pc'[c] \notin InFlight
    BY <1>3, <2>1, <2>3, <2>4 DEF Replaying
  <2>8. Replaying'
    BY <2>1, <2>3, <2>6, <2>7 DEF Replaying
  <2> QED
    BY <2>1, <2>3, <2>4, <2>8 DEF JournalInv
<1>9. CASE Diverge(i)
  <2>1. /\ Numbers(i, "reset") /\ at[i] < Length[i] /\ read # {}
        /\ reset = "none" /\ reset' = "pending" /\ cut' = Len(made) + 1
    BY <1>9 DEF Diverge, Numbers, Number, Goto, Calling, files, service
  <2>2. Old /\ Old' /\ Replaying /\ BagToSet(journal') = read /\ read' = read
    BY <1>1, <1>2, <2>1 DEF JournalInv, Old, Replaying, Numbers
  <2>3. /\ MadeInv' /\ CopiesInv'
        /\ DOMAIN made' = 1..(Len(made) + 1) /\ Len(made) \in Nat
        /\ \A n \in DOMAIN made : made'[n] = made[n]
        /\ \A n \in DOMAIN made : made[n] \in Calls /\ pc'[made[n]] = pc[made[n]]
        /\ made'[Len(made) + 1] = NextCall(i) /\ pc'[NextCall(i)] = "reset"
        /\ \A c \in Calls : c # NextCall(i) => pc'[c] = pc[c]
    BY <1>5, <2>1
  <2>4. cut' \in DOMAIN made'
    BY <2>1, <2>3
  <2>5. \A e \in read : e.seq \in DOMAIN made' /\ e.seq < cut' => KeyOf(e) = Key(made'[e.seq])
    <3> SUFFICES ASSUME NEW e \in read, e.seq \in DOMAIN made', e.seq < cut'
                 PROVE  KeyOf(e) = Key(made'[e.seq])
      OBVIOUS
    <3>1. e.seq \in DOMAIN made /\ e.seq < Len(made) + 1
      BY <1>6, <2>1, <2>3
    <3>2. TrueBelow(read, Len(made) + 1)
      BY <2>1, <2>2 DEF Replaying
    <3>3. KeyOf(e) = Key(made[e.seq])
      BY <3>1, <3>2 DEF TrueBelow
    <3> QED
      BY <2>3, <3>1, <3>3
  <2>6. (TrueBelow(read, cut))'
    BY <1>7, <2>2, <2>5 DEF TrueBelow, KeyOf
  <2>7. \A c \in Calls : pc[c] \notin InFlight
    BY <2>1, <2>2 DEF Replaying
  <2>8. \A c \in Calls : pc'[c] \in InFlight => pc'[c] = "reset"
    BY <2>3, <2>7
  <2>9. \A n \in DOMAIN made' : pc'[made'[n]] \in InFlight => n >= cut'
    BY <1>6, <2>1, <2>3, <2>7
  <2>10. Replaying'
    BY <2>1, <2>2, <2>4, <2>6, <2>8, <2>9 DEF Replaying
  <2> QED
    BY <2>1, <2>2, <2>3, <2>10 DEF JournalInv
<1>10. CASE NewCall(i)
  <2>1. /\ Numbers(i, "reset") /\ at[i] < Length[i] /\ ~aborted
        /\ reset # "none" \/ read = {}
        /\ UNCHANGED <<reset, cut>>
    BY <1>10 DEF NewCall, Numbers, Number, Goto, Calling, files, service
  <2>2. read' = read /\ journal' = journal
    BY <2>1 DEF Numbers
  <2>3. /\ MadeInv' /\ CopiesInv'
        /\ DOMAIN made' = 1..(Len(made) + 1) /\ Len(made) \in Nat
        /\ \A n \in DOMAIN made : n \in DOMAIN made' /\ made'[n] = made[n] /\ n <= Len(made)
        /\ \A n \in DOMAIN made : made[n] \in Calls /\ pc'[made[n]] = pc[made[n]]
        /\ made'[Len(made) + 1] = NextCall(i) /\ pc'[NextCall(i)] = "reset"
        /\ \A c \in Calls : c # NextCall(i) => pc'[c] = pc[c]
    BY <1>5, <2>1
  <2>4. ASSUME Old PROVE Replaying'
    <3>1. Replaying /\ reset # "none"
      BY <1>1, <1>2, <2>1, <2>4 DEF JournalInv, Old
    <3>2. cut \in DOMAIN made /\ TrueBelow(read, cut)
      BY <3>1 DEF Replaying
    <3>3. \A e \in read : e.seq \in DOMAIN made' /\ e.seq < cut => KeyOf(e) = Key(made'[e.seq])
      <4> SUFFICES ASSUME NEW e \in read, e.seq \in DOMAIN made', e.seq < cut
                   PROVE  KeyOf(e) = Key(made'[e.seq])
        OBVIOUS
      <4>1. e.seq \in DOMAIN made
        BY <1>6, <2>3, <3>2
      <4>2. KeyOf(e) = Key(made[e.seq])
        BY <3>2, <4>1 DEF TrueBelow
      <4> QED
        BY <2>3, <4>1, <4>2
    <3>4. (TrueBelow(read, cut))'
      BY <1>7, <2>1, <2>2, <3>3 DEF TrueBelow, KeyOf
    <3>5. \A c \in Calls : pc'[c] \in InFlight => pc'[c] = "reset"
      BY <2>3, <3>1 DEF Replaying
    <3>6. \A n \in DOMAIN made' : pc'[made'[n]] \in InFlight => n >= cut
      BY <1>6, <2>3, <3>1, <3>2 DEF Replaying
    <3> QED
      BY <2>1, <2>2, <2>3, <3>1, <3>2, <3>4, <3>5, <3>6 DEF Replaying
  <2>5. ASSUME ~Old PROVE Writing'
    <3>1. Writing
      BY <1>1, <1>2, <2>1, <2>5 DEF JournalInv
    <3>2. \A e \in BagToSet(journal) :
            /\ e.seq \in DOMAIN made' /\ KeyOf(e) = Key(made'[e.seq])
            /\ pc'[made'[e.seq]] \notin InFlight
      BY <2>3, <3>1 DEF Writing
    <3>3. BagToSet(journal') = BagToSet(journal)
      BY <2>2
    <3> QED
      BY <1>7, <3>2, <3>3 DEF Writing
  <2>6. Old' <=> Old
    BY <2>1, <2>2 DEF Old
  <2>7. reset' # "none" => read' # {}
    BY <1>1, <2>1, <2>2 DEF JournalInv
  <2> QED
    BY <2>3, <2>4, <2>5, <2>6, <2>7 DEF JournalInv
<1> QED
  BY <1>4, <1>8, <1>9, <1>10 DEF Continue

(* The journal is cut back to the lines that were replayed, or stays. *)
LEMMA JournalIsCut ==
  ASSUME LinesInv, ResetEnds
  PROVE  MadeInv' /\ JournalInv'
<1>1. /\ MadeInv /\ JournalInv /\ LinesTyped /\ made \in Seq(Calls)
      /\ phase \in Live /\ reset = "pending"
  BY DEF LinesInv, BaseInv, EngineTyped, ResetEnds
<1>2. Old /\ Replaying
  BY <1>1 DEF JournalInv, Old
<1>3. UNCHANGED <<script, phase, read, cut, made, aborted, pc, at>>
  BY DEF ResetEnds, service, agents, chains
<1>4. MadeInv'
  BY <1>1, <1>3 DEF MadeInv
<1>5. BagToSet(journal) = read /\ cut \in DOMAIN made /\ TrueBelow(read, cut)
  BY <1>1, <1>2 DEF Replaying
<1>6. \A c : (Key(c))' = Key(c)
  BY <1>3 DEF Key
<1>7. CASE reset' = "failed" /\ journal' = journal
  <2>1. (TrueBelow(read, cut))'
    BY <1>3, <1>5, <1>6 DEF TrueBelow
  <2>2. Replaying'
    BY <1>1, <1>2, <1>3, <1>7, <2>1 DEF Replaying
  <2>3. CopiesInv' /\ Old'
    BY <1>1, <1>2, <1>3, <1>7 DEF JournalInv, CopiesInv, OneLineEach, Old
  <2> QED
    BY <1>2, <1>3, <1>4, <2>2, <2>3 DEF JournalInv, Old
<1>8. CASE reset' = "done" /\ journal' = SetToBag({e \in read : e.seq < cut})
  <2> DEFINE rest == {e \in read : e.seq < cut}
  <2>1. BagToSet(journal') = rest /\ \A e \in rest : journal'[e] = 1
    BY <1>8 DEF SetToBag, BagToSet
  <2>2. rest \subseteq BagToSet(journal)
    BY <1>5
  <2>3. CopiesInv'
    BY <1>1, <2>1, <2>2 DEF JournalInv, CopiesInv, OneLineEach
  <2>4. \A e \in rest : /\ e.seq \in DOMAIN made /\ KeyOf(e) = Key(made[e.seq])
                        /\ pc[made[e.seq]] \notin InFlight
    <3> SUFFICES ASSUME NEW e \in rest
                 PROVE  /\ e.seq \in DOMAIN made /\ KeyOf(e) = Key(made[e.seq])
                        /\ pc[made[e.seq]] \notin InFlight
      OBVIOUS
    <3>1. e \in read /\ e.seq \in Nat \ {0} /\ e.seq < cut
      BY <1>1 DEF LinesTyped, Entry
    <3>2. e.seq \in DOMAIN made
      BY <1>1, <1>5, <3>1
    <3>3. KeyOf(e) = Key(made[e.seq])
      BY <1>5, <3>1, <3>2 DEF TrueBelow
    <3>4. ~ (e.seq >= cut)
      BY <1>1, <1>5, <3>1
    <3>5. pc[made[e.seq]] \notin InFlight
      BY <1>1, <1>2, <3>2, <3>4 DEF Replaying
    <3> QED
      BY <3>2, <3>3, <3>5
  <2>5. Writing'
    BY <1>3, <1>6, <2>1, <2>4 DEF Writing
  <2> QED
    BY <1>2, <1>3, <1>4, <1>8, <2>3, <2>5 DEF JournalInv, Old
<1> QED
  BY <1>7, <1>8 DEF ResetEnds
-----------------------------------------------------------------------------
(* A permit that is given on wakes a call that waits. *)
LEMMA ReleaseMoves ==
  ASSUME PermitInv, NEW c \in Calls, pc[c] \in Working,
         NEW step \in {"ok", "null", "failed"}, Release(c, step)
  PROVE  MovesOn /\ pc'[c] = step
<1>1. /\ AgentsTyped /\ WaitersQueued /\ pc \in [Calls -> Step]
      /\ step \notin InFlight /\ "woken" \in InFlight /\ "queued" \in InFlight
      /\ pc[c] # "queued"
  BY DEF PermitInv, AgentsTyped, InFlight, Working
<1>2. CASE waiters = <<>>
  <2>1. pc' = [pc EXCEPT ![c] = step]
    BY <1>2 DEF Release, Goto
  <2> QED
    BY <1>1, <2>1 DEF MovesOn
<1>3. CASE waiters # <<>>
  <2> DEFINE w == Head(waiters)
  <2>1. w \in Calls /\ pc[w] = "queued"
    BY <1>1, <1>3, FirstWaiter
  <2>2. pc' = [pc EXCEPT ![c] = step, ![w] = "woken"]
    BY <1>3 DEF Release
  <2> HIDE DEF w
  <2>3. \A d \in Calls : pc'[d] = IF d = w THEN "woken" ELSE IF d = c THEN step ELSE pc[d]
    BY <1>1, <2>1, <2>2
  <2>4. w # c
    BY <1>1, <2>1
  <2> QED
    BY <1>1, <2>1, <2>3, <2>4 DEF MovesOn
<1> QED
  BY <1>2, <1>3

(* A call that ends writes its line, the only one with its number. *)
LEMMA LineIsWritten ==
  ASSUME LinesInv, NEW c \in Calls, Record(c)
  PROVE  MadeInv' /\ JournalInv'
<1>1. /\ MadeInv /\ JournalInv /\ LinesTyped /\ made \in Seq(Calls) /\ JoinInv /\ PermitInv
      /\ script \in SUBSET Calls /\ aborted \in BOOLEAN
  BY DEF LinesInv, BaseInv, EngineTyped, RunInv, ServiceTyped
<1>2. /\ pc[c] \in {"appendOk", "appendNull"} /\ pc[c] \in InFlight /\ pc[c] \in Working
      /\ pc[c] # "reset"
  BY DEF Record, InFlight, Working
<1>3. phase \in Live
  BY <1>1, <1>2 DEF JoinInv, Left
<1>4. ~Old
  BY <1>1, <1>2, <1>3 DEF JournalInv, Replaying
<1>5. PICK n \in DOMAIN made : made[n] = c
  BY <1>1, <1>2 DEF MadeInv
<1>6. SeqOf(c) = n
  BY <1>1, <1>5 DEF SeqOf, MadeInv
<1>7. Writing
  BY <1>1, <1>3, <1>4, <1>5 DEF JournalInv
<1> DEFINE line == Line(c)
<1>8. line \in Entry /\ line.seq = n /\ KeyOf(line) = Key(c)
  BY <1>1, <1>5, <1>6 DEF Line, Entry, KeyOf, Key
<1> HIDE DEF line
<1>9. \A e \in BagToSet(journal) : e.seq # n /\ e # line
  BY <1>2, <1>5, <1>7, <1>8 DEF Writing
<1>10. /\ BagToSet(journal') = BagToSet(journal) \cup {line}
       /\ \A e \in BagToSet(journal) : journal'[e] = journal[e]
       /\ journal'[line] = 1
  <2>1. journal' = [e \in DOMAIN journal \cup {line} |->
                      (IF e \in DOMAIN journal THEN journal[e] ELSE 0)
                       + (IF e \in {line} THEN 1 ELSE 0)]
    BY DEF Record, line, (+), SetToBag
  <2>2. line \notin DOMAIN journal /\ \A e \in DOMAIN journal : journal[e] \in Nat /\ journal[e] > 0
    BY <1>1, <1>9 DEF LinesTyped, IsABag, BagToSet
  <2>3. DOMAIN journal' = DOMAIN journal \cup {line}
    BY <2>1
  <2>4. \A e \in DOMAIN journal : journal'[e] = journal[e]
    BY <2>1, <2>2
  <2>5. journal'[line] = 1
    BY <2>1, <2>2
  <2> QED
    BY <2>3, <2>4, <2>5 DEF BagToSet
<1>11. UNCHANGED <<script, phase, read, reset, cut, made, aborted, at>>
  BY DEF Record, service, Settles
<1>12. \A d : (Key(d))' = Key(d)
  BY <1>11 DEF Key
<1>13. MovesOn /\ pc'[c] \notin InFlight
  <2>1. (IF pc[c] = "appendOk" THEN "ok" ELSE "null") \in {"ok", "null", "failed"}
    OBVIOUS
  <2>2. Release(c, IF pc[c] = "appendOk" THEN "ok" ELSE "null")
    BY DEF Record
  <2>3. MovesOn /\ pc'[c] = IF pc[c] = "appendOk" THEN "ok" ELSE "null"
    BY <1>1, <1>2, <2>1, <2>2, ReleaseMoves
  <2> QED
    BY <2>3 DEF InFlight, Working
<1>14. MadeInv'
  BY <1>1, <1>11, <1>13 DEF MadeInv, MovesOn
<1>15. CopiesInv'
  BY <1>1, <1>8, <1>9, <1>10 DEF JournalInv, CopiesInv, OneLineEach
<1>16. \A e \in BagToSet(journal') :
         /\ e.seq \in DOMAIN made /\ KeyOf(e) = Key(made[e.seq])
         /\ pc'[made[e.seq]] \notin InFlight
  <2>1. \A m \in DOMAIN made : made[m] \in Calls
    BY <1>1
  <2>2. \A e \in BagToSet(journal) :
          /\ e.seq \in DOMAIN made /\ KeyOf(e) = Key(made[e.seq])
          /\ pc'[made[e.seq]] \notin InFlight
    BY <1>7, <1>13, <2>1 DEF Writing, MovesOn
  <2>3. /\ line.seq \in DOMAIN made /\ KeyOf(line) = Key(made[line.seq])
        /\ pc'[made[line.seq]] \notin InFlight
    BY <1>5, <1>8, <1>13
  <2> QED
    BY <1>10, <2>2, <2>3
<1>17. Writing'
  BY <1>11, <1>12, <1>16 DEF Writing
<1>18. ~Old' /\ (reset' # "none" => read' # {})
  BY <1>1, <1>4, <1>11 DEF Old, JournalInv
<1> QED
  BY <1>14, <1>15, <1>17, <1>18 DEF JournalInv

(* What else a call at work does leaves the journal as it is. *)
LEMMA CallGoesOn ==
  ASSUME LinesInv, NEW c \in Calls,
         \/ Acquire(c) \/ AcquireFails(c) \/ Begin(c) \/ Abandon(c)
         \/ AgentReturns(c) \/ RecordFails(c) \/ KillAgent(c)
  PROVE  MadeInv' /\ JournalInv'
<1>1. /\ AgentsTyped /\ JournalInv /\ JoinInv /\ PermitInv /\ aborted \in BOOLEAN
      /\ pc \in [Calls -> Step]
  BY DEF LinesInv, BaseInv, PermitInv, AgentsTyped, RunInv, ServiceTyped
<1>2. pc[c] \in InFlight
  BY DEF Acquire, AcquireFails, NextAfterReset, Begin, Abandon, AgentReturns, RecordFails,
     KillAgent, InFlight, Working
<1>3. phase \in Live
  BY <1>1, <1>2 DEF JoinInv, Left
<1>4. UNCHANGED <<journal, script, phase, read, reset, cut, made, aborted>>
  BY DEF Acquire, AcquireFails, Begin, Abandon, AgentReturns, RecordFails, KillAgent,
     files, service
<1>5. ItemsEnd
  <2>1. at' = at \/ at' = [at EXCEPT ![c[1]] = Length[c[1]] + 1]
    BY DEF Acquire, AcquireFails, Begin, Abandon, AgentReturns, RecordFails, KillAgent,
       chains, Fails, Item, Over
  <2> QED
    BY <1>1, <2>1, EndOfItem
<1>6. "failed" \notin InFlight
  BY DEF InFlight, Working
<1>7. MovesOn
  <2>1. CASE Acquire(c)
    <3>1. reset # "pending" /\ reset # "failed"
      BY <2>1 DEF Acquire, NextAfterReset
    <3>2. reset \in {"none", "pending", "done", "failed"}
      BY DEF LinesInv, BaseInv, RunInv, ServiceTyped
    <3>3. ~Old
      BY <1>1, <1>2, <1>3, <3>1, <3>2 DEF JournalInv, Replaying, Old
    <3>4. \A d \in Calls : d # c => pc'[d] = pc[d]
      BY <1>1, <2>1 DEF Acquire, Goto
    <3> QED
      BY <1>2, <3>3, <3>4 DEF MovesOn
  <2>2. CASE AcquireFails(c)
    BY <1>1, <1>6, <2>2 DEF AcquireFails, Goto, MovesOn
  <2>3. CASE Begin(c) \/ AgentReturns(c)
    <3>1. pc[c] # "reset"
      BY <2>3 DEF Begin, AgentReturns
    <3>2. \A d \in Calls : d # c => pc'[d] = pc[d]
      BY <1>1, <2>3 DEF Begin, AgentReturns, Goto
    <3> QED
      BY <1>2, <3>1, <3>2 DEF MovesOn
  <2>4. CASE Abandon(c) \/ RecordFails(c)
    <3>1. pc[c] \in Working /\ Release(c, "failed")
      BY <2>4 DEF Abandon, RecordFails, Working
    <3> QED
      BY <1>1, <3>1, ReleaseMoves
  <2>5. CASE KillAgent(c)
    BY <2>5 DEF KillAgent, MovesOn
  <2> QED
    BY <2>1, <2>2, <2>3, <2>4, <2>5
<1> QED
  BY <1>1, <1>4, <1>5, <1>7, CallsGoOn

(* An abort ends the calls that wait and moves no other. *)
LEMMA AbortMoves ==
  ASSUME PermitInv, AbortEngine
  PROVE  MovesOn /\ ItemsEnd /\ aborted' /\ aborted' \in BOOLEAN
<1>1. AgentsTyped /\ at \in [Items -> Nat] /\ "failed" \notin InFlight
  BY DEF PermitInv, AgentsTyped, InFlight, Working
<1>2. \A i \in Items : Over(i) = Length[i] + 1 /\ Over(i) \in Nat
  BY WorkflowAssumption DEF Over
<1>3. \A c \in Calls : c[1] \in Items
  BY CallShape
<1>4. ItemsEnd
  BY <1>1, <1>2, <1>3 DEF ItemsEnd, AbortEngine
<1>5. MovesOn
  BY <1>1 DEF AbortEngine, MovesOn
<1> QED
  BY <1>4, <1>5 DEF AbortEngine

(* Neither does what happens around the engine. *)
Around ==
  \/ Launch \/ (\E s \in Scripts : SaveRequest(s)) \/ LaunchFails \/ Create \/ Open
  \/ KillRun \/ Shutdown \/ ScriptThrows \/ ScriptReturns \/ RunDone \/ LoadPersisted
  \/ UNCHANGED vars

LEMMA AroundKeeps ==
  ASSUME LinesInv, Around
  PROVE  MadeInv' /\ JournalInv'
<1>1. /\ PermitInv /\ AgentsTyped /\ MadeInv /\ JournalInv /\ aborted \in BOOLEAN
      /\ at \in [Items -> Nat]
  BY DEF LinesInv, BaseInv, PermitInv, AgentsTyped, RunInv, ServiceTyped
<1>2. UNCHANGED <<journal, read, reset, cut, made>>
  BY DEF Around, Launch, SaveRequest, LaunchFails, Create, Open, KillRun, Shutdown,
     ScriptThrows, ScriptReturns, RunDone, LoadPersisted, vars, files, engine
<1>3. (phase' \in Live => phase \in Live) /\ (phase \in Live => script' = script)
  BY DEF Around, Launch, SaveRequest, LaunchFails, Create, Open, KillRun, Shutdown,
     ScriptThrows, ScriptReturns, RunDone, LoadPersisted, vars, files, service, Joined,
     Live, Engine
<1>4. /\ MovesOn /\ ItemsEnd
      /\ aborted => aborted'
      /\ aborted' \in BOOLEAN
  <2>1. CASE AbortEngine
    BY <1>1, <2>1, AbortMoves
  <2>2. CASE UNCHANGED <<pc, at, aborted>>
    BY <1>1, <2>2 DEF MovesOn, ItemsEnd
  <2>3. AbortEngine \/ UNCHANGED <<pc, at, aborted>>
    BY DEF Around, Launch, SaveRequest, LaunchFails, Create, Open, KillRun, Shutdown, Kill,
       ScriptThrows, ScriptReturns, RunDone, LoadPersisted, vars, engine, agents, chains
  <2> QED
    BY <2>1, <2>2, <2>3
<1>5. CASE script' = script
  BY <1>1, <1>2, <1>3, <1>4, <1>5, CallsGoOn
<1>6. CASE phase \notin Live
  <2>1. \A s \in Scripts : SaveRequest(s) => UNCHANGED <<pc, at>>
    BY DEF SaveRequest, engine, agents, chains
  <2>2. CASE \E s \in Scripts : SaveRequest(s)
    <3>1. MadeInv'
      BY <1>1, <1>2, <2>1, <2>2 DEF MadeInv
    <3>2. CopiesInv' /\ (reset' # "none" => read' # {})
      BY <1>1, <1>2 DEF JournalInv, CopiesInv, OneLineEach
    <3> QED
      BY <1>3, <1>6, <3>1, <3>2 DEF JournalInv
  <2>3. CASE script' = script
    BY <1>5, <2>3
  <2>4. (\E s \in Scripts : SaveRequest(s)) \/ script' = script
    BY DEF Around, Launch, LaunchFails, Create, Open, KillRun, Shutdown,
       ScriptThrows, ScriptReturns, RunDone, LoadPersisted, vars, files
  <2> QED
    BY <2>2, <2>3, <2>4
<1> QED
  BY <1>3, <1>5, <1>6
-----------------------------------------------------------------------------
(* The sequences of the engine keep their types. *)
LEMMA EngineStaysTyped ==
  ASSUME BaseInv, Next
  PROVE  EngineTyped'
<1>1. cut \in Nat /\ made \in Seq(Calls) /\ stopped \subseteq Calls /\ ready \in Seq(Items)
  BY DEF BaseInv, EngineTyped
<1>2. CASE WriteFails \/ Close \/ Crash
  <2>1. cut' = 0 /\ made' = <<>> /\ stopped' = {} /\ ready' = <<>>
    BY <1>2 DEF WriteFails, Close, Crash, NoContext
  <2> QED
    BY <2>1 DEF EngineTyped
<1>3. CASE Start
  <2>1. [i \in 1..Cardinality(Items) |-> i] \in Seq(Items)
    BY ItemsCounted
  <2>2. UNCHANGED <<cut, made, stopped>>
    BY <1>3 DEF Start, agents
  <2>3. ready' = ready \/ ready' = [i \in 1..Cardinality(Items) |-> i]
    BY <1>3 DEF Start
  <2> QED
    BY <1>1, <2>1, <2>2, <2>3 DEF EngineTyped
<1>4. ASSUME NEW i \in Items, Continue(i) PROVE EngineTyped'
  <2>1. stopped' = stopped /\ (cut' = cut \/ cut' = Len(made) + 1)
    BY <1>4 DEF Continue, CallAborted, Replay, Diverge, NewCall, ItemEnds, agents
  <2>2. ready' = Tail(ready) \/ ready' = Append(Tail(ready), i)
    BY <1>4 DEF Continue, CallAborted, Replay, Diverge, NewCall, ItemEnds
  <2>3. ready # <<>>
    BY <1>4 DEF Continue, CallAborted, Replay, Diverge, NewCall, ItemEnds, Calling, Turn
  <2>4. Tail(ready) \in Seq(Items)
    BY <1>1, <2>3
  <2>5. ready' \in Seq(Items)
    BY <2>2, <2>4
  <2>6. made' \in Seq(Calls)
    <3>1. CASE made' = made
      BY <1>1, <3>1
    <3>2. CASE made' = Append(made, NextCall(i)) /\ at[i] < Length[i]
      <4>1. NextCall(i) \in Calls
        BY <3>2, NumberIsNew
      <4> QED
        BY <1>1, <3>2, <4>1
    <3> QED
      BY <1>4, <3>1, <3>2
         DEF Continue, CallAborted, Replay, Diverge, NewCall, ItemEnds, Calling, Number
  <2> QED
    BY <1>1, <2>1, <2>5, <2>6 DEF EngineTyped
<1>5. ASSUME NEW c \in Calls,
             \/ Acquire(c) \/ AcquireFails(c) \/ Begin(c) \/ Abandon(c)
             \/ AgentReturns(c) \/ Record(c) \/ RecordFails(c) \/ KillAgent(c)
      PROVE  EngineTyped'
  <2>1. UNCHANGED <<cut, made>>
    BY <1>5 DEF Acquire, AcquireFails, Begin, Abandon, AgentReturns, Record, RecordFails,
       KillAgent
  <2>2. stopped' = stopped \/ stopped' = stopped \ {c} \/ stopped' = stopped \cup {c}
    BY <1>5 DEF Acquire, AcquireFails, Begin, Abandon, AgentReturns, Record, RecordFails,
       KillAgent
  <2>3. ready' = ready \/ ready' = Append(ready, c[1])
    BY <1>5 DEF Acquire, AcquireFails, Begin, Abandon, AgentReturns, Record, RecordFails,
       KillAgent, chains, Settles, Item
  <2>4. c[1] \in Items
    BY CallShape
  <2>5. ready' \in Seq(Items)
    BY <1>1, <2>3, <2>4
  <2> QED
    BY <1>1, <2>1, <2>2, <2>5 DEF EngineTyped
<1>6. CASE Around \/ ResetEnds \/ \E l \in late : LateLine(l)
  <2>1. UNCHANGED <<cut, made, stopped, ready>>
    BY <1>6 DEF LateLine, Around, Launch, SaveRequest, LaunchFails, Create, Open, ResetEnds, KillRun,
       Shutdown, ScriptThrows, ScriptReturns, RunDone, LoadPersisted, vars, engine, agents, chains
  <2> QED
    BY <1>1, <2>1 DEF EngineTyped
<1> QED
  BY <1>2, <1>3, <1>4, <1>5, <1>6 DEF Next, Around

(* A line more. *)
LEMMA LineIsAdded ==
  ASSUME LinesTyped, NEW line \in Entry, journal' = journal (+) SetToBag({line})
  PROVE  IsABag(journal') /\ BagToSet(journal') \subseteq Entry
<1>1. journal' = [e \in DOMAIN journal \cup {line} |->
                    (IF e \in DOMAIN journal THEN journal[e] ELSE 0)
                     + (IF e \in {line} THEN 1 ELSE 0)]
  BY DEF (+), SetToBag
<1>2. \A e \in DOMAIN journal : journal[e] \in Nat /\ journal[e] > 0
  BY DEF LinesTyped, IsABag
<1>3. DOMAIN journal' = DOMAIN journal \cup {line}
  BY <1>1
<1>4. journal' = [e \in DOMAIN journal' |-> journal'[e]]
  BY <1>1
<1>5. \A e \in DOMAIN journal' : journal'[e] \in {k \in Nat : k > 0}
  BY <1>1, <1>2, <1>3
<1>6. IsABag(journal')
  BY <1>4, <1>5 DEF IsABag
<1> QED
  BY <1>3, <1>6 DEF LinesTyped, BagToSet

(* Some lines less. *)
LEMMA LinesAreCut ==
  ASSUME NEW lines, lines \subseteq Entry, journal' = SetToBag(lines)
  PROVE  IsABag(journal') /\ BagToSet(journal') \subseteq Entry
  BY DEF SetToBag, IsABag, BagToSet

(* The number of a call at work is its place among the calls made. *)
LEMMA SeqOfMade ==
  ASSUME MadeInv, EngineTyped, NEW c \in Calls, pc[c] \in InFlight
  PROVE  SeqOf(c) \in Nat \ {0}
<1>1. PICK n \in DOMAIN made : made[n] = c
  BY DEF MadeInv
<1>2. SeqOf(c) \in DOMAIN made
  BY <1>1 DEF SeqOf
<1> QED
  BY <1>2 DEF EngineTyped

(* Only calls and the cut change the journal, and a run reads it whole. *)
LEMMA LinesStayTyped ==
  ASSUME BaseInv, Next
  PROVE  LinesTyped'
<1>1. LinesTyped /\ EngineTyped /\ MadeInv /\ script \in SUBSET Calls
  BY DEF BaseInv, RunInv, ServiceTyped
<1>2. CASE ResetEnds
  <2>1. UNCHANGED <<read, late>>
    BY <1>2 DEF ResetEnds, left
  <2>2. CASE journal' = journal
    BY <1>1, <2>1, <2>2 DEF LinesTyped
  <2>3. CASE journal' = SetToBag({e \in read : e.seq < cut})
    <3>1. {e \in read : e.seq < cut} \subseteq Entry
      BY <1>1 DEF LinesTyped
    <3>2. IsABag(journal') /\ BagToSet(journal') \subseteq Entry
      BY <2>3, <3>1, LinesAreCut
    <3> QED
      BY <1>1, <2>1, <3>2 DEF LinesTyped
  <2> QED
    BY <1>2, <2>2, <2>3 DEF ResetEnds
<1>3. ASSUME NEW c \in Calls, Record(c) PROVE LinesTyped'
  <2>1. pc[c] \in InFlight
    BY <1>3 DEF Record, InFlight, Working
  <2>2. SeqOf(c) \in Nat \ {0}
    BY <1>1, <2>1, SeqOfMade
  <2>3. Line(c) \in Entry
    BY <2>2 DEF Line, Entry
  <2>4. journal' = journal (+) SetToBag({Line(c)}) /\ UNCHANGED <<read, late>>
    BY <1>3 DEF Record, left
  <2>5. IsABag(journal') /\ BagToSet(journal') \subseteq Entry
    BY <1>1, <2>3, <2>4, LineIsAdded
  <2> QED
    BY <1>1, <2>4, <2>5 DEF LinesTyped
<1>4. ASSUME journal' = journal, read' = read \/ read' = {} \/ read' = BagToSet(journal),
             late' \subseteq Pending
      PROVE  LinesTyped'
  BY <1>1, <1>4 DEF LinesTyped
<1>5. late \subseteq Pending
  BY <1>1 DEF LinesTyped
<1>6. CASE Around
  <2>1. UNCHANGED <<journal, read, late>>
    BY <1>6 DEF Around, Launch, SaveRequest, LaunchFails, Create, Open, KillRun,
       Shutdown, ScriptThrows, ScriptReturns, RunDone, LoadPersisted, vars, files, engine, left
  <2> QED
    BY <1>4, <1>5, <2>1
<1>7. CASE Crash \/ Start
  <2>1. journal' = journal /\ (late' = late \/ late' = {})
        /\ (read' = read \/ read' = {} \/ read' = BagToSet(journal))
    BY <1>7 DEF Crash, Start, NoContext, files, left
  <2> QED
    BY <1>4, <1>5, <2>1
<1>8. CASE WriteFails \/ Close
  <2> DEFINE Waits(c) == [seq |-> SeqOf(c), call |-> c, edited |-> c \in script]
  <2>1. ASSUME NEW c \in Left PROVE Waits(c) \in Pending
    <3>1. c \in Calls /\ pc[c] \in InFlight
      BY DEF Left
    <3>2. SeqOf(c) \in Nat \ {0}
      BY <1>1, <3>1, SeqOfMade
    <3> QED
      BY <3>1, <3>2 DEF Pending
  <2>2. late' = late \cup {Waits(c) : c \in Left}
    BY <1>8 DEF WriteFails, Close, Leave
  <2>3. late' \subseteq Pending
    BY <1>5, <2>1, <2>2
  <2>4. journal' = journal /\ read' = {}
    BY <1>8 DEF WriteFails, Close, NoContext
  <2> QED
    BY <1>4, <2>3, <2>4
<1>9. CASE \E i \in Items : Continue(i)
  <2>1. UNCHANGED <<journal, read, late>>
    BY <1>9 DEF Continue, CallAborted, Replay, Diverge, NewCall, ItemEnds, files, left
  <2> QED
    BY <1>4, <1>5, <2>1
<1>10. CASE \E c \in Calls : \/ Acquire(c) \/ AcquireFails(c) \/ Begin(c) \/ Abandon(c)
                             \/ AgentReturns(c) \/ RecordFails(c) \/ KillAgent(c)
  <2>1. UNCHANGED <<journal, read, late>>
    BY <1>10 DEF Acquire, AcquireFails, Begin, Abandon, AgentReturns, RecordFails,
       KillAgent, files, left
  <2> QED
    BY <1>4, <1>5, <2>1
<1>11. ASSUME NEW l \in late, LateLine(l) PROVE LinesTyped'
  <2>1. l.seq \in Nat \ {0} /\ l.call \in Calls /\ l.edited \in BOOLEAN
    BY <1>5 DEF Pending
  <2>2. read' = read /\ late' \subseteq Pending
    BY <1>5, <1>11 DEF LateLine, engine
  <2>3. PICK ok \in BOOLEAN :
          journal' \in {journal, journal (+) SetToBag({[seq |-> l.seq, call |-> l.call,
                                                       edited |-> l.edited, ok |-> ok]})}
    BY <1>11 DEF LateLine
  <2> DEFINE line == [seq |-> l.seq, call |-> l.call, edited |-> l.edited, ok |-> ok]
  <2>4. line \in Entry
    BY <2>1 DEF Entry
  <2>5. journal' = journal \/ journal' = journal (+) SetToBag({line})
    BY <2>3
  <2> HIDE DEF line
  <2>6. CASE journal' = journal
    BY <1>4, <2>2, <2>6
  <2>7. CASE journal' = journal (+) SetToBag({line})
    <3>1. IsABag(journal') /\ BagToSet(journal') \subseteq Entry
      BY <1>1, <2>4, <2>7, LineIsAdded
    <3> QED
      BY <1>1, <2>2, <3>1 DEF LinesTyped
  <2> QED
    BY <2>5, <2>6, <2>7
<1> QED
  BY <1>2, <1>3, <1>6, <1>7, <1>8, <1>9, <1>10, <1>11 DEF Next, Around

(* What the script throws. *)
Ends == ending' \in {ending, "aborted", "error"} /\ (ending # "none" => ending' = ending)

(* A step of the engine that stays in its phase. *)
LEMMA EngineRuns ==
  ASSUME RunInv, phase \in Live, UNCHANGED <<service, script, disk, aborted, launches, crashes>>,
         reset' \in {"none", "pending", "done", "failed"}, failures' \in Nat, Ends
  PROVE  RunInv'
<1>1. ServiceTyped
  BY DEF RunInv
<1>2. ServiceTyped'
  BY <1>1 DEF ServiceTyped, Ends, service
<1> QED
  BY <1>2 DEF RunInv, Ends, service

(* A run is where its phase says. *)
LEMMA RunStays ==
  ASSUME BaseInv, Next
  PROVE  RunInv'
<1>1. RunInv /\ ServiceTyped /\ JoinInv /\ pc \in [Calls -> Step]
  BY DEF BaseInv, RunInv, PermitInv, AgentsTyped
<1>2. ASSUME NEW c \in Calls,
             \/ Acquire(c) \/ AcquireFails(c) \/ Begin(c) \/ Abandon(c)
             \/ AgentReturns(c) \/ Record(c) \/ RecordFails(c) \/ KillAgent(c)
      PROVE  RunInv'
  <2>1. pc[c] \in InFlight
    BY <1>2 DEF Acquire, AcquireFails, NextAfterReset, Begin, Abandon, AgentReturns, Record,
       RecordFails, KillAgent, InFlight, Working
  <2>2. phase \in Live
    BY <1>1, <2>1 DEF JoinInv, Left
  <2>3. UNCHANGED <<service, script, disk, aborted, launches, crashes, reset>>
    BY <1>2 DEF Acquire, AcquireFails, Begin, Abandon, AgentReturns, Record, RecordFails,
       KillAgent, files, bounds, CanFail
  <2>4. failures' \in {failures, failures + 1}
    BY <1>2 DEF Acquire, AcquireFails, Begin, Abandon, AgentReturns, Record, RecordFails,
       KillAgent, bounds, CanFail
  <2>5. Ends
    BY <1>2 DEF Acquire, AcquireFails, Begin, Abandon, AgentReturns, Record, RecordFails,
       KillAgent, Fails, Throw, Settles, chains, Ends
  <2>6. failures' \in Nat /\ reset' \in {"none", "pending", "done", "failed"}
    BY <1>1, <2>3, <2>4 DEF ServiceTyped
  <2> QED
    BY <1>1, <2>2, <2>3, <2>5, <2>6, EngineRuns
<1>3. ASSUME NEW i \in Items, Continue(i) PROVE RunInv'
  <2>1. phase \in Live
    BY <1>3 DEF Continue, CallAborted, Replay, Diverge, NewCall, ItemEnds, Calling, Turn
  <2>2. UNCHANGED <<service, script, disk, aborted, bounds>>
    BY <1>3 DEF Continue, CallAborted, Replay, Diverge, NewCall, ItemEnds, files
  <2>3. Ends /\ reset' \in {reset, "pending"}
    BY <1>3 DEF Continue, CallAborted, Replay, Diverge, NewCall, ItemEnds, Fails, Throw, Ends
  <2> QED
    BY <1>1, <2>1, <2>2, <2>3, EngineRuns DEF bounds, ServiceTyped
<1>4. CASE ResetEnds
  <2>1. /\ phase \in Live /\ UNCHANGED <<service, script, disk, aborted, launches, crashes>>
        /\ reset' \in {"done", "failed"} /\ failures' \in {failures, failures + 1} /\ Ends
    BY <1>4 DEF ResetEnds, CanFail, chains, Ends
  <2>2. failures' \in Nat
    BY <1>1, <2>1 DEF ServiceTyped
  <2> QED
    BY <1>1, <2>1, <2>2, EngineRuns
<1>5. CASE WriteFails \/ Close \/ Crash
  <2>1. phase' = "idle" /\ Pristine' /\ ending' = "none"
    BY <1>5 DEF WriteFails, Close, Crash, NoContext, Pristine
  <2>2. status' \in Final \cup {"none"}
    BY <1>1, <1>5 DEF WriteFails, Close, Crash, Refused, Final, RunInv, ServiceTyped, Engine
  <2>3. disk' \in Final \cup {"none", "running"}
    BY <1>1, <1>5, <2>2 DEF WriteFails, Close, Crash, ServiceTyped, files
  <2>4. /\ script' = script /\ closed' \in BOOLEAN /\ killed' \in BOOLEAN /\ launches' = launches
        /\ failures' \in {failures, failures + 1} /\ crashes' \in {crashes, crashes + 1}
        /\ aborted' = FALSE /\ reset' = "none"
    BY <1>1, <1>5 DEF WriteFails, Close, Crash, CanFail, NoContext, ServiceTyped, files, bounds
  <2>5. failures' \in Nat /\ crashes' \in Nat /\ launches' \in Nat
    BY <1>1, <2>4 DEF ServiceTyped
  <2>6. ServiceTyped'
    BY <1>1, <2>1, <2>2, <2>3, <2>4, <2>5 DEF ServiceTyped
  <2>7. status' # "running" /\ phase' # "draining"
    BY <2>1, <2>2 DEF Final
  <2> QED
    BY <2>1, <2>6, <2>7 DEF RunInv
<1>6. CASE Start
  <2>1. phase' \in {"script", "draining"} /\ phase = "opened" /\ phase' \in Engine
    BY <1>6 DEF Start, Engine
  <2>2. /\ UNCHANGED <<script, disk, closed, killed, status, reset, launches, crashes>>
        /\ aborted' \in {aborted, TRUE} /\ failures' \in {failures, failures + 1}
        /\ ending' \in {ending, "killed", "failed"}
        /\ phase' = "draining" => ending' \in {"killed", "failed"}
    BY <1>6 DEF Start, files, CanFail
  <2>3. failures' \in Nat
    BY <1>1, <2>2 DEF ServiceTyped
  <2>4. ServiceTyped'
    BY <1>1, <2>1, <2>2, <2>3 DEF ServiceTyped
  <2> QED
    BY <2>1, <2>2, <2>4 DEF RunInv, Live
<1>7. CASE KillRun \/ Shutdown \/ ScriptThrows
  <2>1. /\ UNCHANGED <<script, disk, status, reset, bounds, read, made>>
        /\ closed' \in BOOLEAN /\ killed' \in BOOLEAN
        /\ \/ phase' = phase
           \/ phase \in Engine /\ phase' = "draining" /\ ending' \in {"killed", "failed"}
    BY <1>1, <1>7 DEF KillRun, Shutdown, ScriptThrows, Joined, Kill, files, ServiceTyped, Engine
  <2> DEFINE spared == UNCHANGED <<aborted, pc>> /\ (Ends \/ ending' \in {"killed", "failed"})
             told == /\ phase \in Engine /\ AbortEngine
                     /\ (Ends \/ (phase' = "draining" /\ ending' \in {"killed", "failed"}))
  <2>2. spared \/ told
    <3>1. Kill => \/ UNCHANGED <<aborted, pc, ending>>
                  \/ phase \in Engine /\ AbortEngine /\ Ends
      BY DEF Kill, Throw, Ends
    <3>2. ending' = ending => Ends
      BY DEF Ends
    <3>3. CASE KillRun
      BY <3>1, <3>2, <3>3 DEF KillRun
    <3>4. CASE Shutdown
      BY <3>1, <3>2, <3>4 DEF Shutdown
    <3>5. CASE ScriptThrows
      BY <3>5 DEF ScriptThrows, Joined, Engine
    <3> QED
      BY <1>7, <3>3, <3>4, <3>5
  <2>3. CASE spared
    <3>1. ServiceTyped'
      BY <1>1, <2>1, <2>3 DEF ServiceTyped, Ends, bounds, Engine
    <3> QED
      BY <1>1, <2>1, <2>3, <3>1 DEF RunInv, Ends, Live, Engine, Pristine
  <2>4. CASE told
    <3>1. aborted' = TRUE /\ phase' \in Engine
      BY <2>1, <2>4 DEF AbortEngine, Engine
    <3>2. ServiceTyped'
      BY <1>1, <2>1, <2>4, <3>1 DEF ServiceTyped, Ends, bounds, Engine
    <3> QED
      BY <1>1, <2>1, <2>4, <3>1, <3>2 DEF RunInv, Ends, Live, Engine
  <2> QED
    BY <2>2, <2>3, <2>4
<1>8. CASE \/ Launch \/ (\E s \in Scripts : SaveRequest(s)) \/ LaunchFails \/ Create \/ Open
           \/ ScriptReturns \/ RunDone \/ LoadPersisted \/ (\E l \in late : LateLine(l))
  <2>1. UNCHANGED <<reset, read, made, aborted, pc, ending, closed, failures, crashes>>
    BY <1>8 DEF Launch, SaveRequest, LaunchFails, Create, Open, ScriptReturns, RunDone,
       LoadPersisted, LateLine, service, engine, agents, chains, bounds
  <2>2. /\ killed' \in BOOLEAN /\ launches' \in {launches, launches + 1}
        /\ script' \in SUBSET Calls /\ disk' \in {disk, status}
    BY <1>1, <1>8, WorkflowAssumption
       DEF Launch, SaveRequest, LaunchFails, Create, Open, ScriptReturns, RunDone,
           LoadPersisted, LateLine, service, bounds, files, ServiceTyped
  <2>3. /\ phase' \in Engine \cup {"idle", "launching", "saved", "created", "opened", "over"}
        /\ status' \in Final \cup {"none"} \cup (IF phase' = "idle" THEN {} ELSE {"running"})
        /\ phase' \notin Engine \cup {"created", "opened"} => status' # "running"
        /\ phase' = "draining" => phase = "draining"
        /\ phase' \notin Live => phase \notin Live
    BY <1>1, <1>8 DEF Launch, SaveRequest, LaunchFails, Create, Open, ScriptReturns, RunDone,
       LoadPersisted, LateLine, service, RunInv, ServiceTyped, Joined, Live, Engine, Final
  <2>4. launches' \in Nat
    BY <1>1, <2>2 DEF ServiceTyped
  <2>5. ServiceTyped'
    BY <1>1, <2>1, <2>2, <2>3, <2>4 DEF ServiceTyped, Final
  <2> QED
    BY <1>1, <2>1, <2>3, <2>5 DEF RunInv, Pristine
<1> QED
  BY <1>2, <1>3, <1>4, <1>5, <1>6, <1>7, <1>8 DEF Next
-----------------------------------------------------------------------------
(* A call that goes on was at work, and brings no other to work. *)
LEMMA CallFewer ==
  ASSUME PermitInv, NEW c \in Calls,
         \/ Acquire(c) \/ AcquireFails(c) \/ Begin(c) \/ Abandon(c)
         \/ AgentReturns(c) \/ Record(c) \/ RecordFails(c) \/ KillAgent(c)
  PROVE  Fewer /\ ItemsEnd
<1>1. AgentsTyped /\ pc \in [Calls -> Step]
  BY DEF PermitInv, AgentsTyped
<1>2. pc[c] \in InFlight
  BY DEF Acquire, AcquireFails, NextAfterReset, Begin, Abandon, AgentReturns, Record,
     RecordFails, KillAgent, InFlight, Working
<1>3. ItemsEnd
  <2>1. at' = at \/ at' = [at EXCEPT ![c[1]] = Length[c[1]] + 1]
    BY DEF Acquire, AcquireFails, Begin, Abandon, AgentReturns, Record, RecordFails, KillAgent,
       chains, Settles, Fails, Item, Over
  <2> QED
    BY <1>1, <2>1, EndOfItem
<1>4. CASE Acquire(c) \/ AcquireFails(c) \/ Begin(c) \/ AgentReturns(c) \/ KillAgent(c)
  <2>1. \A d \in Calls : d # c => pc'[d] = pc[d]
    BY <1>1, <1>4 DEF Acquire, AcquireFails, Begin, AgentReturns, KillAgent, Goto
  <2> QED
    BY <1>2, <1>3, <2>1 DEF Fewer
<1>5. CASE Abandon(c) \/ Record(c) \/ RecordFails(c)
  <2>1. PICK step \in {"ok", "null", "failed"} : Release(c, step)
    BY <1>5 DEF Abandon, Record, RecordFails
  <2>2. pc[c] \in Working
    BY <1>5 DEF Abandon, Record, RecordFails, Working
  <2>3. MovesOn
    BY <2>1, <2>2, ReleaseMoves
  <2> QED
    BY <1>3, <2>3 DEF Fewer, MovesOn
<1> QED
  BY <1>4, <1>5

(* Neither does anything around the engine. *)
LEMMA AroundFewer ==
  ASSUME PermitInv, Around
  PROVE  Fewer /\ ItemsEnd
<1>1. at \in [Items -> Nat]
  BY DEF PermitInv, AgentsTyped
<1>2. CASE AbortEngine
  BY <1>2, AbortMoves DEF MovesOn, Fewer
<1>3. CASE UNCHANGED <<pc, at>>
  BY <1>1, <1>3 DEF Fewer, ItemsEnd
<1>4. AbortEngine \/ UNCHANGED <<pc, at>>
  BY DEF Around, Launch, SaveRequest, LaunchFails, Create, Open, KillRun, Shutdown, Kill,
     ScriptThrows, ScriptReturns, RunDone, LoadPersisted, vars, engine, agents, chains
<1> QED
  BY <1>2, <1>3, <1>4

(* The script makes a call, or an item ends. *)
LEMMA ScriptGoesOn ==
  ASSUME PermitInv, NEW i \in Items, Continue(i)
  PROVE  \/ Fewer /\ ItemsEnd /\ made' = made
         \/ /\ at[i] < Length[i] /\ ~aborted
            /\ \E step \in {"ok", "reset"} : Numbers(i, step)
<1>1. pc \in [Calls -> Step] /\ at \in [Items -> Nat] /\ "failed" \notin InFlight
  BY DEF PermitInv, AgentsTyped, InFlight, Working
<1>2. CASE CallAborted(i) \/ ItemEnds(i)
  <2>1. NextCall(i)[1] = i
    BY DEF NextCall
  <2>2. at' = [at EXCEPT ![i] = Over(i)] /\ made' = made
    BY <1>2, <2>1 DEF CallAborted, ItemEnds, Fails, Item
  <2>3. pc' = pc \/ pc' = [pc EXCEPT ![NextCall(i)] = "failed"]
    BY <1>2 DEF CallAborted, ItemEnds, Goto, agents
  <2>4. Fewer
    BY <1>1, <2>3 DEF Fewer
  <2>5. ItemsEnd
    <3>1. \A c \in Calls : c[1] \in Items
      BY CallShape
    <3>2. Over(i) = Length[i] + 1 /\ Over(i) \in Nat
      BY WorkflowAssumption DEF Over
    <3> QED
      BY <1>1, <2>2, <3>1, <3>2 DEF ItemsEnd
  <2> QED
    BY <2>2, <2>4, <2>5
<1>3. CASE Replay(i)
  BY <1>3 DEF Replay, Numbers, Number, Goto, Calling, files, service
<1>4. CASE Diverge(i) \/ NewCall(i)
  BY <1>4 DEF Diverge, NewCall, Numbers, Number, Goto, Calling, files, service
<1> QED
  BY <1>2, <1>3, <1>4 DEF Continue

(* Every call at work keeps its number. *)
LEMMA MadeStays ==
  ASSUME BaseInv, Next
  PROVE  MadeInv'
<1>1. /\ PermitInv /\ MadeInv /\ made \in Seq(Calls) /\ at \in [Items -> Nat]
      /\ pc \in [Calls -> Step]
  BY DEF BaseInv, EngineTyped, PermitInv, AgentsTyped
<1>2. CASE Fewer /\ ItemsEnd /\ made' = made
  BY <1>1, <1>2, MadeGoesOn
<1>3. ASSUME NEW i \in Items, Continue(i) PROVE MadeInv'
  <2>1. ASSUME at[i] < Length[i], NEW step \in {"ok", "reset"}, Numbers(i, step)
        PROVE  MadeInv'
    <3>1. step \in Step
      BY DEF Step, InFlight
    <3> QED
      BY <2>1, <3>1, NumbersKeep
  <2> QED
    BY <1>1, <1>2, <1>3, <2>1, ScriptGoesOn
<1>4. ASSUME NEW c \in Calls,
             \/ Acquire(c) \/ AcquireFails(c) \/ Begin(c) \/ Abandon(c)
             \/ AgentReturns(c) \/ Record(c) \/ RecordFails(c) \/ KillAgent(c)
      PROVE  MadeInv'
  <2>1. made' = made
    BY <1>4 DEF Acquire, AcquireFails, Begin, Abandon, AgentReturns, Record, RecordFails,
       KillAgent
  <2> QED
    BY <1>1, <1>2, <1>4, <2>1, CallFewer
<1>5. CASE Around
  <2>1. made' = made
    BY <1>5 DEF Around, Launch, SaveRequest, LaunchFails, Create, Open, KillRun, Shutdown,
       ScriptThrows, ScriptReturns, RunDone, LoadPersisted, vars, engine
  <2> QED
    BY <1>1, <1>2, <1>5, <2>1, AroundFewer
<1>6. CASE Start \/ ResetEnds \/ \E l \in late : LateLine(l)
  <2>1. UNCHANGED <<made, pc, at>>
    BY <1>6 DEF Start, ResetEnds, LateLine, engine, agents, chains
  <2> QED
    BY <1>1, <2>1 DEF MadeInv
<1>7. CASE WriteFails \/ Close \/ Crash
  BY <1>7 DEF WriteFails, Close, Crash, NoContext, MadeInv, InFlight, Working
<1> QED
  BY <1>3, <1>4, <1>5, <1>6, <1>7 DEF Next, Around
-----------------------------------------------------------------------------
(* Calls that go on and end leave the join as it is. *)
LEMMA JoinEases ==
  ASSUME PermitInv, JoinInv, Fewer, ItemsEnd, UNCHANGED <<joined, loose, phase, status, aborted>>,
         late' \subseteq late
  PROVE  JoinInv'
<1>1. \A c \in Left' : c \in Left
  BY DEF Left, Fewer
<1>2. ASSUME NEW c \in joined PROVE c[2] <= at'[c[1]]
  <2>1. c \in Calls /\ c[2] <= at[c[1]]
    BY DEF JoinInv
  <2>2. c[2] \in Nat /\ c[2] <= Length[c[1]] /\ Length[c[1]] \in Nat
    BY <2>1, CallShape, WorkflowAssumption
  <2>3. at'[c[1]] = at[c[1]] \/ at'[c[1]] = Length[c[1]] + 1
    BY <2>1 DEF ItemsEnd
  <2> QED
    BY <2>1, <2>2, <2>3
<1>3. ASSUME NEW i \in Items
      PROVE  /\ at[i] > 0 => at'[i] > 0
             /\ at[i] = Length[i] + 1 => at'[i] = Length[i] + 1
  <2>1. Length[i] \in Nat \ {0}
    BY WorkflowAssumption
  <2>2. <<i, 1>> \in Calls
    BY <2>1 DEF Calls
  <2>3. <<i, 1>>[1] = i
    OBVIOUS
  <2>4. at'[i] = at[i] \/ at'[i] = Length[i] + 1
    BY <2>2, <2>3 DEF ItemsEnd
  <2> QED
    BY <2>1, <2>4
<1>4. Left = {} => Left' = {}
  BY <1>1
<1>5. phase' = phase /\ status' = status /\ joined' = joined /\ loose' = loose
      /\ aborted' = aborted
  OBVIOUS
<1> HIDE DEF Live
<1>6. /\ joined' \subseteq Calls /\ loose' \in BOOLEAN /\ (late' # {} => loose')
      /\ (loose' => \E i \in Unawaited : Length[i] > 1)
      /\ \A c \in joined' : c[2] <= at'[c[1]]
  BY <1>2, <1>5 DEF JoinInv
<1>7. /\ phase' \notin Live => Left' = {}
      /\ phase' = "draining" => aborted'
      /\ phase' = "over" => IF aborted' THEN Left' = {} ELSE status' = "completed"
  BY <1>4, <1>5 DEF JoinInv
<1>8. /\ phase' = "over" => \A c \in Left' : c \notin joined'
      /\ phase' \in {"joining", "over"} =>
           \A c \in Left' : c \notin joined' => c[1] \in Unawaited /\ c[2] > 1
  BY <1>1, <1>5 DEF JoinInv
<1>9. phase' \in {"joining", "over"} /\ ~aborted' =>
        \A i \in Items : at'[i] > 0 /\ (i \notin Unawaited => at'[i] = Length[i] + 1)
  BY <1>3, <1>5 DEF JoinInv
<1> QED
  BY <1>6, <1>7, <1>8, <1>9 DEF JoinInv

(* A call the script makes after it returned belongs to a chain that it    *)
(* does not await, and is not the first of it.                             *)
LEMMA JoinNumbers ==
  ASSUME BaseInv, NEW i \in Items, at[i] < Length[i], ~aborted, phase \in Live,
         NEW step \in {"ok", "reset"}, Numbers(i, step),
         UNCHANGED <<joined, loose, late, status>>
  PROVE  JoinInv'
<1>1. JoinInv /\ AgentsTyped /\ at \in [Items -> Nat] /\ pc \in [Calls -> Step]
  BY DEF BaseInv, PermitInv, AgentsTyped
<1>2. /\ NextCall(i) \in Calls /\ NextCall(i)[1] = i /\ NextCall(i)[2] = at[i] + 1
  BY <1>1, NextCallShape
<1>3. /\ at' = [at EXCEPT ![i] = at[i] + 1] /\ pc' = [pc EXCEPT ![NextCall(i)] = step]
      /\ phase' = phase /\ aborted' = aborted
  BY DEF Numbers
<1>4. \A c \in Left' : c \in Left \/ c = NextCall(i)
  BY <1>1, <1>2, <1>3 DEF Left
<1>5. ASSUME NEW c \in joined PROVE c[2] <= at'[c[1]] /\ c # NextCall(i)
  <2>1. c \in Calls /\ c[2] <= at[c[1]]
    BY <1>1 DEF JoinInv
  <2>2. c[1] \in Items /\ c[2] \in Nat /\ at[c[1]] \in Nat
    BY <1>1, <2>1, CallShape
  <2> QED
    BY <1>1, <1>2, <1>3, <2>1, <2>2
<1>6. ASSUME phase \in {"joining", "over"}
      PROVE  /\ i \in Unawaited /\ at[i] + 1 > 1
             /\ \A k \in Items : at'[k] > 0 /\ (k \notin Unawaited => at'[k] = Length[k] + 1)
  <2>1. \A k \in Items : at[k] > 0 /\ (k \notin Unawaited => at[k] = Length[k] + 1)
    BY <1>1, <1>6 DEF JoinInv
  <2>2. at[i] \in Nat /\ Length[i] \in Nat
    BY <1>1, WorkflowAssumption
  <2>3. i \in Unawaited
    BY <2>1, <2>2
  <2>4. at[i] > 0
    BY <2>1
  <2> QED
    BY <1>1, <1>3, <2>1, <2>2, <2>3, <2>4
<1>7. joined' = joined /\ loose' = loose /\ late' = late /\ status' = status
  OBVIOUS
<1>8. /\ joined' \subseteq Calls /\ loose' \in BOOLEAN /\ (late' # {} => loose')
      /\ (loose' => \E k \in Unawaited : Length[k] > 1)
      /\ \A c \in joined' : c[2] <= at'[c[1]]
  BY <1>1, <1>5, <1>7 DEF JoinInv
<1>9. /\ phase' \in Live /\ ~aborted'
      /\ phase' = "draining" => aborted'
      /\ phase' = "over" => status' = "completed"
  BY <1>1, <1>3, <1>7 DEF JoinInv
<1>10. /\ phase' = "over" => \A c \in Left' : c \notin joined'
       /\ phase' \in {"joining", "over"} =>
            \A c \in Left' : c \notin joined' => c[1] \in Unawaited /\ c[2] > 1
  BY <1>1, <1>2, <1>3, <1>4, <1>5, <1>6, <1>7 DEF JoinInv
<1> QED
  BY <1>3, <1>6, <1>8, <1>9, <1>10 DEF JoinInv

(* A run that ends leaves behind what the join missed, and its script has  *)
(* a chain that nobody awaits.                                             *)
LEMMA JoinEnds ==
  ASSUME BaseInv, WriteFails \/ Close \/ Crash
  PROVE  JoinInv'
<1>1. JoinInv
  BY DEF BaseInv
<1>2. phase' = "idle" /\ Left' = {} /\ joined' = {}
  BY DEF WriteFails, Close, Crash, NoContext, Left, InFlight, Working
<1>3. CASE Crash
  <2>1. loose' = loose /\ late' = {}
    BY <1>3 DEF Crash
  <2> QED
    BY <1>1, <1>2, <2>1 DEF JoinInv
<1>4. CASE WriteFails \/ Close
  <2>1. phase \in {"created", "over"} /\ Leave
    BY <1>4 DEF WriteFails, Close
  <2>2. loose' = (loose \/ Left # {}) /\ loose' \in BOOLEAN
    BY <1>1, <2>1 DEF Leave, JoinInv
  <2>3. late' # {} => loose'
    BY <1>1, <2>1, <2>2 DEF Leave, JoinInv
  <2>4. ASSUME NEW c \in Left PROVE c[1] \in Unawaited /\ Length[c[1]] > 1
    <3>1. phase = "over"
      BY <1>1, <2>1 DEF JoinInv, Live, Engine
    <3>2. c[1] \in Unawaited /\ c[2] > 1
      BY <1>1, <3>1 DEF JoinInv
    <3>3. c \in Calls
      BY DEF Left
    <3>4. c[2] \in Nat /\ c[2] <= Length[c[1]] /\ Length[c[1]] \in Nat
      BY <3>3, CallShape, WorkflowAssumption
    <3> QED
      BY <3>2, <3>4
  <2>5. loose' => \E i \in Unawaited : Length[i] > 1
    BY <1>1, <2>2, <2>4 DEF JoinInv
  <2> QED
    BY <1>2, <2>2, <2>3, <2>5 DEF JoinInv
<1> QED
  BY <1>3, <1>4

(* The join takes what is at work when the script returns, and a run       *)
(* completes only when that has settled.                                   *)
LEMMA JoinAround ==
  ASSUME BaseInv, Around
  PROVE  JoinInv'
<1>1. JoinInv /\ PermitInv /\ FreshCalls /\ at \in [Items -> Nat] /\ pc \in [Calls -> Step]
  BY DEF BaseInv, PermitInv, AgentsTyped
<1>2. Fewer /\ ItemsEnd
  BY <1>1, AroundFewer
<1>3. UNCHANGED <<late, loose>>
  BY DEF Around, Launch, SaveRequest, LaunchFails, Create, Open, KillRun, Shutdown,
     ScriptThrows, ScriptReturns, RunDone, LoadPersisted, vars, left
<1>4. CASE UNCHANGED vars
  <2>1. UNCHANGED <<joined, loose, phase, status, aborted, late>>
    BY <1>4 DEF vars, left, service
  <2> QED
    BY <1>1, <1>2, <2>1, JoinEases
<1>5. CASE phase \notin Live /\ phase' \notin Live /\ UNCHANGED <<joined, pc, at>>
  <2>1. Left' = Left /\ Left = {}
    BY <1>1, <1>5 DEF Left, JoinInv
  <2>2. phase' # "joining" /\ phase' # "over" /\ phase' # "draining"
    BY <1>5 DEF Live, Engine
  <2> QED
    BY <1>1, <1>3, <1>5, <2>1, <2>2 DEF JoinInv
<1>6. CASE Launch \/ (\E s \in Scripts : SaveRequest(s)) \/ LaunchFails \/ Create \/ Open
  <2>1. phase \notin Live /\ phase' \notin Live /\ UNCHANGED <<joined, pc, at>>
    BY <1>6 DEF Launch, SaveRequest, LaunchFails, Create, Open, engine, agents, chains, left,
       Live, Engine
  <2> QED
    BY <1>5, <2>1
<1>7. CASE LoadPersisted
  <2>1. UNCHANGED <<joined, pc, at, phase, aborted>> /\ status = "none"
    BY <1>7 DEF LoadPersisted, engine, agents, chains, left
  <2>2. Left' = Left
    BY <2>1 DEF Left
  <2> QED
    BY <1>1, <1>3, <2>1, <2>2 DEF JoinInv
<1>8. CASE KillRun \/ Shutdown
  <2>1. UNCHANGED <<joined, phase, status>>
    BY <1>8 DEF KillRun, Shutdown, left
  <2>2. aborted' = aborted \/ (phase \in Engine /\ aborted' = TRUE)
    BY <1>8 DEF KillRun, Shutdown, Kill, AbortEngine
  <2>3. CASE aborted' = aborted
    BY <1>1, <1>2, <1>3, <2>1, <2>3, JoinEases
  <2>4. CASE phase \in Engine /\ aborted' = TRUE
    <3>1. \A c \in Left' : c \in Left
      BY <1>2 DEF Left, Fewer
    <3>2. \A c \in joined' : c[2] <= at'[c[1]]
      <4> SUFFICES ASSUME NEW c \in joined PROVE c[2] <= at'[c[1]]
        BY <2>1
      <4>1. c \in Calls /\ c[2] <= at[c[1]]
        BY <1>1 DEF JoinInv
      <4>2. c[2] \in Nat /\ c[2] <= Length[c[1]] /\ Length[c[1]] \in Nat
        BY <4>1, CallShape, WorkflowAssumption
      <4>3. at'[c[1]] = at[c[1]] \/ at'[c[1]] = Length[c[1]] + 1
        BY <1>2, <4>1 DEF ItemsEnd
      <4> QED
        BY <4>1, <4>2, <4>3
    <3>3. phase' \in Live /\ phase' # "over"
      BY <2>1, <2>4 DEF Live, Engine
    <3> QED
      BY <1>1, <1>3, <2>1, <2>4, <3>1, <3>2, <3>3 DEF JoinInv
  <2> QED
    BY <2>2, <2>3, <2>4
<1>9. CASE ScriptThrows
  <2>1. phase' = "draining" /\ aborted' = TRUE /\ joined' = joined
    BY <1>9 DEF ScriptThrows, AbortEngine, left
  <2>2. \A c \in joined' : c[2] <= at'[c[1]]
    <3> SUFFICES ASSUME NEW c \in joined PROVE c[2] <= at'[c[1]]
      BY <2>1
    <3>1. c \in Calls /\ c[2] <= at[c[1]]
      BY <1>1 DEF JoinInv
    <3>2. c[2] \in Nat /\ c[2] <= Length[c[1]] /\ Length[c[1]] \in Nat
      BY <3>1, CallShape, WorkflowAssumption
    <3>3. at'[c[1]] = at[c[1]] \/ at'[c[1]] = Length[c[1]] + 1
      BY <1>2, <3>1 DEF ItemsEnd
    <3> QED
      BY <3>1, <3>2, <3>3
  <2>3. phase' \in Live
    BY <2>1 DEF Live, Engine
  <2> QED
    BY <1>1, <1>3, <2>1, <2>2, <2>3 DEF JoinInv
<1>10. CASE ScriptReturns
  <2>1. /\ phase' = "joining" /\ joined' = Left /\ UNCHANGED <<pc, at>>
        /\ \A i \in Items : at[i] > 0 /\ (i \notin Unawaited => at[i] = Over(i))
    BY <1>10 DEF ScriptReturns, engine, agents, chains
  <2>2. Left' = Left /\ Left \subseteq Calls
    BY <2>1 DEF Left
  <2>3. ASSUME NEW c \in Left PROVE c[2] <= at[c[1]]
    <3>1. c \in Calls /\ pc[c] # "none"
      BY DEF Left, InFlight, Working
    <3>2. c[1] \in Items /\ c[2] \in Nat /\ at[c[1]] \in Nat
      BY <1>1, <3>1, CallShape
    <3> QED
      BY <1>1, <3>1, <3>2 DEF FreshCalls
  <2>4. phase' \in Live
    BY <2>1 DEF Live, Engine
  <2> QED
    BY <1>1, <1>3, <2>1, <2>2, <2>3, <2>4 DEF JoinInv, Over
<1>11. CASE RunDone
  <2>1. phase' = "over" /\ UNCHANGED <<joined, pc, at, aborted>>
    BY <1>11 DEF RunDone, engine, agents, chains, left
  <2>2. Left' = Left /\ phase' \in Live
    BY <2>1 DEF Left, Live
  <2>3. CASE Joined /\ ~aborted /\ status' = "completed"
    <3>1. phase = "joining" /\ \A c \in Left : c \notin joined
      BY <2>3 DEF Joined, Left
    <3> QED
      BY <1>1, <1>3, <2>1, <2>2, <2>3, <3>1 DEF JoinInv
  <2>4. CASE phase = "draining" /\ Left = {}
    BY <1>1, <1>3, <2>1, <2>2, <2>4 DEF JoinInv
  <2> QED
    BY <1>11, <2>3, <2>4 DEF RunDone
<1> QED
  BY <1>4, <1>6, <1>7, <1>8, <1>9, <1>10, <1>11 DEF Around

(* Every step keeps what the end of a run may leave at work. *)
LEMMA JoinStays ==
  ASSUME BaseInv, Next
  PROVE  JoinInv'
<1>1. JoinInv /\ PermitInv /\ at \in [Items -> Nat]
  BY DEF BaseInv, PermitInv, AgentsTyped
<1>2. ASSUME NEW i \in Items, Continue(i) PROVE JoinInv'
  <2>1. UNCHANGED <<joined, loose, late, phase, status, aborted>> /\ phase \in Live
    BY <1>2 DEF Continue, CallAborted, Replay, Diverge, NewCall, ItemEnds, Calling, Turn, left,
       service
  <2>2. CASE Fewer /\ ItemsEnd
    BY <1>1, <2>1, <2>2, JoinEases
  <2>3. ASSUME at[i] < Length[i], ~aborted, NEW step \in {"ok", "reset"}, Numbers(i, step)
        PROVE  JoinInv'
    BY <2>1, <2>3, JoinNumbers
  <2> QED
    BY <1>1, <1>2, <2>2, <2>3, ScriptGoesOn
<1>3. ASSUME NEW c \in Calls,
             \/ Acquire(c) \/ AcquireFails(c) \/ Begin(c) \/ Abandon(c)
             \/ AgentReturns(c) \/ Record(c) \/ RecordFails(c) \/ KillAgent(c)
      PROVE  JoinInv'
  <2>1. UNCHANGED <<joined, loose, late, phase, status, aborted>>
    BY <1>3 DEF Acquire, AcquireFails, Begin, Abandon, AgentReturns, Record, RecordFails,
       KillAgent, left, service
  <2>2. Fewer /\ ItemsEnd
    BY <1>1, <1>3, CallFewer
  <2> QED
    BY <1>1, <2>1, <2>2, JoinEases
<1>4. CASE ResetEnds \/ \E l \in late : LateLine(l)
  <2>1. UNCHANGED <<joined, loose, phase, status, aborted, pc, at>> /\ late' \subseteq late
    BY <1>4 DEF ResetEnds, LateLine, left, service, engine, agents, chains
  <2>2. Fewer /\ ItemsEnd
    BY <1>1, <2>1 DEF Fewer, ItemsEnd
  <2> QED
    BY <1>1, <2>1, <2>2, JoinEases
<1>5. CASE Start
  <2>1. /\ phase = "opened" /\ UNCHANGED <<joined, loose, late, pc, at>>
        /\ phase' = "script" \/ (phase' = "draining" /\ aborted' = TRUE)
    BY <1>5 DEF Start, left, agents
  <2>2. Left' = Left /\ phase' \in Live
    BY <2>1 DEF Left, Live, Engine
  <2> QED
    BY <1>1, <2>1, <2>2 DEF JoinInv
<1>6. CASE Around
  BY <1>6, JoinAround
<1>7. CASE WriteFails \/ Close \/ Crash
  BY <1>7, JoinEnds
<1> QED
  BY <1>2, <1>3, <1>4, <1>5, <1>6, <1>7 DEF Next, Around
-----------------------------------------------------------------------------
(* Every step keeps the journal true, until a run leaves calls behind. *)
LEMMA JournalStep ==
  ASSUME LinesInv, Next
  PROVE  JournalInv' \/ loose
<1>1. CASE WriteFails \/ Close \/ Crash
  <2>1. NoContext /\ phase' = "idle" /\ journal' = journal
    BY <1>1 DEF WriteFails, Close, Crash, files
  <2> QED
    BY <2>1, ContextIsNew
<1>2. CASE Start
  BY <1>2, EngineStarts
<1>3. CASE \E i \in Items : Continue(i)
  BY <1>3, CallsAreMade
<1>4. CASE ResetEnds
  BY <1>4, JournalIsCut
<1>5. CASE \E c \in Calls : Record(c)
  BY <1>5, LineIsWritten
<1>6. CASE \E c \in Calls : \/ Acquire(c) \/ AcquireFails(c) \/ Begin(c) \/ Abandon(c)
                            \/ AgentReturns(c) \/ RecordFails(c) \/ KillAgent(c)
  BY <1>6, CallGoesOn
<1>7. CASE Around
  BY <1>7, AroundKeeps
<1>8. CASE \E l \in late : LateLine(l)
  BY <1>8 DEF LinesInv, BaseInv, JoinInv
<1> QED
  BY <1>1, <1>2, <1>3, <1>4, <1>5, <1>6, <1>7, <1>8 DEF Next, Around

LEMMA SoundStep ==
  ASSUME SoundInv, [Next]_vars
  PROVE  SoundInv'
<1>1. PermitInv'
  BY StepKeeps DEF SoundInv, BaseInv
<1>2. CASE Next
  <2>1. BaseInv'
    BY <1>1, <1>2, EngineStaysTyped, LinesStayTyped, RunStays, JoinStays, MadeStays
       DEF SoundInv, BaseInv
  <2>2. loose => loose'
    BY <1>2 DEF Next, Launch, SaveRequest, LaunchFails, Create, Open, WriteFails, Start, Continue,
       CallAborted, Replay, Diverge, NewCall, ItemEnds, ResetEnds, Acquire, AcquireFails, Begin,
       Abandon, AgentReturns, Record, RecordFails, KillAgent, KillRun, Shutdown, ScriptThrows,
       ScriptReturns, RunDone, Close, LateLine, LoadPersisted, Crash, Leave, left
  <2>3. loose \/ JournalInv'
    BY <1>2, JournalStep DEF SoundInv, LinesInv
  <2> QED
    BY <2>1, <2>2, <2>3 DEF SoundInv
<1>3. CASE UNCHANGED vars
  <2>1. Around
    BY <1>3 DEF Around
  <2>2. JoinInv'
    BY <2>1, JoinAround DEF SoundInv
  <2>3. loose' = loose
    BY <1>3 DEF vars, left
  <2>4. loose \/ (MadeInv' /\ JournalInv')
    BY <2>1, AroundKeeps DEF SoundInv, LinesInv
  <2>5. LinesTyped' /\ EngineTyped' /\ RunInv' /\ MadeInv'
    <3>1. LinesTyped /\ EngineTyped /\ RunInv /\ MadeInv
      BY DEF SoundInv, BaseInv
    <3>2. /\ UNCHANGED <<journal, read, cut, made, stopped, ready, script, disk, phase, closed>>
          /\ UNCHANGED <<killed, aborted, status, reset, ending, launches, failures, crashes>>
          /\ UNCHANGED <<pc, at, late>>
      BY <1>3 DEF vars, files, service, agents, chains, bounds, left
    <3> QED
      BY <3>1, <3>2 DEF LinesTyped, EngineTyped, RunInv, ServiceTyped, MadeInv, Pristine
  <2> QED
    BY <1>1, <2>2, <2>3, <2>4, <2>5 DEF SoundInv, BaseInv
<1> QED
  BY <1>2, <1>3

(* A run that was never launched has no journal. *)
LEMMA InitLines ==
  ASSUME Init
  PROVE  SoundInv
<1>1. PermitInv
  BY InitPermits
<1>2. IsABag(journal) /\ BagToSet(journal) = {}
  BY DEF Init, EmptyBag, SetToBag, IsABag, BagToSet
<1>3. LinesTyped /\ EngineTyped /\ MadeInv
  BY <1>2 DEF Init, LinesTyped, EngineTyped, MadeInv, InFlight, Working
<1>4. JournalInv
  BY <1>2 DEF Init, JournalInv, CopiesInv, OneLineEach, Live, Engine
<1>5. RunInv
  BY DEF Init, RunInv, ServiceTyped, Pristine, Live, Engine, Final
<1>6. JoinInv
  BY DEF Init, JoinInv, Left, InFlight, Working, Live, Engine
<1> QED
  BY <1>1, <1>3, <1>4, <1>5, <1>6 DEF SoundInv, BaseInv

(* The journal of a run has one line for each call, with the prompt it was *)
(* made with, and nobody adds to it when the run is over: whatever is      *)
(* edited between launches, wherever a launch is killed or a write fails,  *)
(* and whatever calls were in flight then.  The one exception is a run     *)
(* that completes although its script did not await a chain of several     *)
(* calls: what it leaves at work is what the theorem says, and from then   *)
(* on nothing is claimed of the journal.                                   *)
(* (hooks.ts agent and its journal reset, run-workflow.ts, journal.ts,     *)
(* service.ts.)                                                            *)
THEOREM JournalStaysSound == Spec => []JournalSound
<1>1. Init => SoundInv
  BY InitLines
<1>2. SoundInv /\ [Next]_vars => SoundInv'
  BY SoundStep
<1>3. SoundInv => JournalSound
  BY LinesAreSound
<1> QED
  BY <1>1, <1>2, <1>3, PTL DEF Spec
=============================================================================
