------------------------- MODULE TeamLifecycleProofs -------------------------
(***************************************************************************)
(* What the ways a teammate can end leave behind, for any number of names, *)
(* tasks, plans and events: no unfinished task of a teammate that is gone, *)
(* no message that was accepted and not read, one report of each end; and  *)
(* no plan that is executed before the leader has approved it.             *)
(***************************************************************************)
EXTENDS TeamLifecycle, FiniteSetTheorems, TLAPS

(* The types that the properties rest on.                                   *)
Types ==
  /\ MemberTypes /\ BoardTypes
  /\ plans \in 0..MaxPlans /\ coordinator \in BOOLEAN
(* Who has mail to put back is a teammate that waits for mail.              *)
ReaderThere == reader # Nobody => reader \in Names /\ At(reader, {"idle"})
Typed == Types /\ ReaderThere

(* Members that are pruned have ended.                                      *)
LEMMA OldEnded ==
  ASSUME NEW table, NEW n \in Old(table)
  PROVE  n \in Members /\ table[n].at = "ended"
BY DEF Old, Members

(* What a step leaves of the roster: members of the same names.             *)
LEMMA RosterTyped ==
  ASSUME MemberTypes, NEW table, roster' = [n \in Members |-> table[n]],
         \A n \in Members : table[n] \in Member
  PROVE  MemberTypes'
BY DEF MemberTypes, Members

(* One member changes.                                                      *)
LEMMA MemberChanges ==
  ASSUME MemberTypes, NEW n \in Members, NEW member \in Member,
         roster' = [roster EXCEPT ![n] = member]
  PROVE  MemberTypes'
BY DEF MemberTypes, Members

(* The ways a member changes are ways to remain one.                        *)
LEMMA Shapes ==
  ASSUME NEW member \in Member
  PROVE  /\ Approved(member) \in Member
         /\ Stopped(member) \in Member
         /\ \A place \in {"reserved", "working", "planning", "idle", "leaving", "ended"} :
              [member EXCEPT !.at = place] \in Member
         /\ [[member EXCEPT !.at = "working"] EXCEPT !.pending = 0] \in Member
         /\ [[[member EXCEPT !.at = "leaving"] EXCEPT !.active = FALSE] EXCEPT !.pending = 0] \in Member
         /\ [member EXCEPT !.responded = TRUE] \in Member
<1> USE BoundsAssumption DEF Member
<1>1. 0 \in 0..MaxPlans OBVIOUS
<1>2. Approved(member) \in Member /\ Stopped(member) \in Member
  BY DEF Approved, Stopped
<1> QED BY <1>1, <1>2

LEMMA LeaveTyped ==
  ASSUME MemberTypes, NEW n \in Members, Leave(n)
  PROVE  MemberTypes'
<1>1. roster[n] \in Member
  BY DEF MemberTypes
<1>2. roster' = [roster EXCEPT ![n] =
        [[[roster[n] EXCEPT !.at = "leaving"] EXCEPT !.active = FALSE] EXCEPT !.pending = 0]]
  BY DEF Leave, Members
<1> QED BY <1>1, <1>2, Shapes, MemberChanges

(* New members and those that come back from disk are members.              *)
LEMMA NewMembers == Reserved \in Member /\ Hydrated \in Member
<1>1. 0 \in 0..MaxPlans
  BY BoundsAssumption
<1>2. Reserved \in Member
  BY <1>1 DEF Reserved, Member
<1>3. [Reserved EXCEPT !.at = "ended"] \in Member
  BY <1>2, Shapes
<1> QED BY <1>2, <1>3 DEF Hydrated

(* Mail and the tasks of others do not matter to the types.                 *)
LEMMA ReleaseTyped ==
  ASSUME BoardTypes, NEW names, Release(names)
  PROVE  BoardTypes'
BY DEF Release, BoardTypes

(* No step loses the types.                                                 *)
LEMMA TypesKept ==
  ASSUME Typed, [Next]_vars
  PROVE  Types'
<1> USE DEF Typed, Types
<1>1. ASSUME NEW n \in Names, Reserve(n) PROVE Types'
  <2>1. MemberTypes'
    BY <1>1, NewMembers DEF Reserve, MemberTypes, Members
  <2> QED BY <1>1, <2>1 DEF Reserve, board, BoardTypes
<1>2. ASSUME NEW n \in Names, Abandon(n) PROVE Types'
  <2>1. MemberTypes'
    BY <1>2 DEF Abandon, MemberTypes, Members
  <2> QED BY <1>2, <2>1 DEF Abandon, board, BoardTypes
<1>3. ASSUME NEW n \in Names, SendMessage(n) \/ SendShutdown(n) PROVE Types'
  BY <1>3 DEF SendMessage, SendShutdown, Accept, board, BoardTypes, MemberTypes, Members
<1>4. ASSUME NEW n \in Names, NEW t \in Tasks, Assign(t, n) \/ Claim(n, t) \/ Complete(n, t)
      PROVE  Types'
  <2>1. MemberTypes' /\ plans' = plans /\ coordinator' = coordinator
    BY <1>4 DEF Assign, Claim, Complete, Accept, MemberTypes, Members
  <2>2. BoardTypes'
    BY <1>4 DEF Assign, Claim, Complete, Accept, BoardTypes, Unfinished, Owned
  <2> QED BY <2>1, <2>2
<1>5. ASSUME NEW n \in Names, NEW mode \in {"plan", "exec"}, NEW approval \in BOOLEAN,
             Spawn(n, mode, approval)
      PROVE  Types'
  <2> DEFINE member == [Reserved EXCEPT !.at = "working", !.active = TRUE,
                                        !.mode = mode, !.approval = approval]
  <2>1. member \in Member /\ n \in Members
    BY <1>5, NewMembers DEF Spawn, Member, At
  <2>2. roster' = [roster EXCEPT ![n] = member]
    BY <1>5 DEF Spawn
  <2> QED BY <1>5, <2>1, <2>2, MemberChanges DEF Spawn, board, BoardTypes
<1>6. ASSUME NEW n \in Names, NEW yes \in BOOLEAN, RespondToPlan(n, yes) PROVE Types'
  <2>1. n \in Members /\ roster[n] \in Member
    BY <1>6 DEF RespondToPlan, MemberTypes
  <2>2. roster' = [roster EXCEPT ![n] = [roster[n] EXCEPT !.responded = TRUE]]
    BY <1>6 DEF RespondToPlan
  <2> QED BY <1>6, <2>1, <2>2, Shapes, MemberChanges DEF RespondToPlan, board, BoardTypes
<1>7. ASSUME NEW n \in Names, SubmitPlan(n) PROVE Types'
  <2>1. n \in Members /\ roster[n] \in Member /\ plans' \in 0..MaxPlans
    BY <1>7, BoundsAssumption DEF SubmitPlan, MemberTypes, At
  <2>2. Submitted(roster[n]) \in Member
    BY <2>1 DEF Submitted, Member
  <2>3. roster' = [roster EXCEPT ![n] = Submitted(roster[n])]
    BY <1>7 DEF SubmitPlan
  <2> QED BY <1>7, <2>1, <2>2, <2>3, MemberChanges DEF SubmitPlan, board, BoardTypes
<1>8. ASSUME NEW n \in Names, RunEnds(n) PROVE Types'
  <2>1. n \in Members /\ roster[n] \in Member
    BY <1>8 DEF RunEnds, MemberTypes, At
  <2>2. CASE Signalled(n)
    BY <1>8, <2>1, <2>2, LeaveTyped DEF RunEnds, board, BoardTypes
  <2>3. CASE ~Signalled(n) /\ ~PlanDue(roster[n])
    BY <1>8, <2>1, <2>3, Shapes, MemberChanges DEF RunEnds, board, BoardTypes
  <2>4. CASE ~Signalled(n) /\ PlanDue(roster[n])
    <3> DEFINE member == IF roster[n].pending = 0 THEN Submitted(roster[n]) ELSE roster[n]
    <3>1. plans' \in 0..MaxPlans
      BY <1>8, <2>4, BoundsAssumption DEF RunEnds
    <3>2. member \in Member
      BY <2>1, <3>1 DEF Submitted, Member
    <3> HIDE DEF member
    <3>3. MemberTypes'
      <4>1. CASE coordinator
        <5>1. roster' = [roster EXCEPT ![n] = [member EXCEPT !.at = "planning"]]
          BY <1>8, <2>4, <4>1 DEF RunEnds, member
        <5> QED BY <2>1, <3>2, <5>1, Shapes, MemberChanges
      <4>2. CASE ~coordinator
        <5>1. Resumed(n, Approved(member), box[n])
          BY <1>8, <2>4, <4>2 DEF RunEnds, member
        <5>2. Approved(member) \in Member
          BY <3>2, Shapes
        <5>3. [[Approved(member) EXCEPT !.at = "working"] EXCEPT !.pending = 0] \in Member
          BY <5>2, Shapes
        <5> QED BY <2>1, <5>1, <5>3, MemberChanges DEF Resumed
      <4> QED BY <4>1, <4>2
    <3> QED BY <1>8, <3>1, <3>3 DEF RunEnds, board, BoardTypes
  <2> QED BY <2>2, <2>3, <2>4
<1>9. ASSUME NEW n \in Names,
             RunFails(n) \/ Poll(n) \/ ReadFails(n) \/ (n = reader /\ Requeue)
      PROVE  Types'
  <2>1. n \in Members /\ roster[n] \in Member
    BY <1>9 DEF RunFails, Poll, ReadFails, Requeue, ReaderThere, MemberTypes, At
  <2>2. \/ UNCHANGED roster
        \/ Leave(n)
        \/ roster' = [roster EXCEPT ![n] = [roster[n] EXCEPT !.at = "working"]]
    BY <1>9 DEF RunFails, Poll, ReadFails, Requeue
  <2>3. MemberTypes'
    BY <2>1, <2>2, Shapes, LeaveTyped, MemberChanges DEF MemberTypes, Members
  <2> QED BY <1>9, <2>3 DEF RunFails, Poll, ReadFails, Requeue, board, BoardTypes
<1>10. ASSUME NEW n \in Names, Review(n) PROVE Types'
  <2>1. n \in Members /\ roster[n] \in Member
    BY <1>10 DEF Review, MemberTypes, At
  <2>2. \/ UNCHANGED roster
        \/ Leave(n)
        \/ \E member \in {roster[n], Approved(roster[n])} :
             roster' = [roster EXCEPT ![n] = [[member EXCEPT !.at = "working"] EXCEPT !.pending = 0]]
    BY <1>10 DEF Review, Resumed
  <2>3. MemberTypes'
    BY <2>1, <2>2, Shapes, LeaveTyped, MemberChanges DEF MemberTypes, Members
  <2> QED BY <1>10, <2>3 DEF Review, board, BoardTypes
<1>11. ASSUME NEW n \in Names, Finish(n) PROVE Types'
  <2>1. MemberTypes'
    BY <1>11, NewMembers DEF Finish, Prune, MemberTypes, Members
  <2> QED BY <1>11, <2>1, ReleaseTyped DEF Finish
<1>12. ASSUME NEW names, StopThese(names) PROVE Types'
  <2>1. MemberTypes'
    BY <1>12, Shapes, RosterTyped DEF StopThese, MemberTypes, Members
  <2> QED BY <1>12, <2>1, ReleaseTyped DEF StopThese
<1>13. CASE Deleted
  BY <1>13 DEF Deleted, MemberTypes, BoardTypes, Members
<1>14. CASE Restart
  <2>1. MemberTypes'
    BY <1>14, NewMembers DEF Restart, Prune, MemberTypes, Members
  <2> QED BY <1>14, <2>1, ReleaseTyped DEF Restart
<1>15. CASE UNCHANGED vars
  BY <1>15 DEF vars, board, MemberTypes, BoardTypes, Members
<1>16. CASE Requeue
  BY <1>9, <1>16 DEF Requeue, ReaderThere
<1> QED
  BY <1>1, <1>2, <1>3, <1>4, <1>5, <1>6, <1>7, <1>8, <1>9, <1>10, <1>11, <1>12, <1>13,
     <1>14, <1>15, <1>16
  DEF Next, Turn, Stop, StopAll, Delete

(* Nothing else runs while mail is to be put back.                          *)
LEMMA ReaderKept ==
  ASSUME Typed, [Next]_vars
  PROVE  ReaderThere'
<1> USE DEF Typed
<1>1. CASE Turn /\ reader = Nobody
  <2>1. ASSUME NEW n \in Names, Poll(n) PROVE ReaderThere'
    BY <1>1, <2>1 DEF Poll, reading, ReaderThere, At, Members
  <2>2. CASE UNCHANGED reader
    BY <1>1, <2>2 DEF ReaderThere
  <2>3. UNCHANGED reader \/ \E n \in Names : Poll(n)
    BY <1>1 DEF Turn, Reserve, Abandon, SendMessage, SendShutdown, Accept, Stop, Spawn,
                RespondToPlan, Assign, Claim, Complete, SubmitPlan, RunEnds, RunFails, Review,
                ReadFails, Finish, StopAll, Delete, Deleted, StopThese, reading
  <2> QED BY <2>1, <2>2, <2>3
<1>2. CASE Requeue \/ Restart
  BY <1>2 DEF Requeue, Restart, ReaderThere
<1>3. CASE UNCHANGED vars
  BY <1>3 DEF vars, reading, ReaderThere, At, Members
<1> QED BY <1>1, <1>2, <1>3 DEF Next

LEMMA TypedKept ==
  ASSUME Typed, [Next]_vars
  PROVE  Typed'
BY TypesKept, ReaderKept DEF Typed

(* The types hold in every reachable state.                                 *)
LEMMA AlwaysTyped == Spec => []Typed
<1>1. Init => Typed
  BY BoundsAssumption DEF Init, Typed, Types, ReaderThere, MemberTypes, BoardTypes, Members
<1> QED BY <1>1, TypedKept, PTL DEF Spec
-----------------------------------------------------------------------------
(* A teammate that is there: reserved, or with a runtime.                   *)
Present(n) == Live(n) \/ At(n, {"reserved"})
Running == {"working", "planning", "idle", "leaving"}
(* Whoever may be given work is there: only a runtime is active.            *)
ActiveLive == \A n \in Members : roster[n].active => Live(n)

(* Nobody goes when one member changes and runs, or is where it was.        *)
LEMMA StaysPresent ==
  ASSUME ActiveLive, NEW n \in Members, NEW member,
         \/ member.at \in Running
         \/ member.at = roster[n].at /\ member.active = roster[n].active,
         roster' = [roster EXCEPT ![n] = member]
  PROVE  ActiveLive' /\ \A m : Present(m) => Present(m)'
BY DEF Present, Live, At, Members, Running, ActiveLive

LEMMA LeaveStays ==
  ASSUME ActiveLive, MemberTypes, NEW n \in Members, Leave(n)
  PROVE  ActiveLive' /\ \A m : Present(m) => Present(m)'
<1>1. roster[n] \in Member
  BY DEF MemberTypes
<1> DEFINE left == [[[roster[n] EXCEPT !.at = "leaving"] EXCEPT !.active = FALSE] EXCEPT !.pending = 0]
<1>2. roster' = [roster EXCEPT ![n] = left]
  BY DEF Leave, Members
<1>3. left.at \in Running
  BY <1>1 DEF Member, Running
<1> QED BY <1>2, <1>3, StaysPresent

(* What a teammate does for itself, and what the leader decides about its   *)
(* plan, changes it alone: it runs after that, or is where it was.          *)
LEMMA OwnChange ==
  ASSUME Typed, NEW n \in Names,
         \/ RunEnds(n) \/ RunFails(n) \/ Poll(n) \/ Review(n) \/ SubmitPlan(n)
         \/ ReadFails(n) \/ (n = reader /\ Requeue)
         \/ \E mode \in {"plan", "exec"}, approval \in BOOLEAN : Spawn(n, mode, approval)
         \/ \E yes \in BOOLEAN : RespondToPlan(n, yes)
  PROVE  /\ n \in Members /\ roster[n] \in Member
         /\ \/ UNCHANGED roster
            \/ Leave(n)
            \/ \E member : /\ \/ member.at \in Running
                              \/ member.at = roster[n].at /\ member.active = roster[n].active
                           /\ roster' = [roster EXCEPT ![n] = member]
<1> USE DEF Typed, Types
<1>1. n \in Members /\ roster[n] \in Member
  BY DEF RunEnds, RunFails, Poll, Review, SubmitPlan, ReadFails, Requeue, ReaderThere, Spawn,
         RespondToPlan, At, MemberTypes
<1>2. \/ UNCHANGED roster
      \/ Leave(n)
      \/ \E member : /\ \/ member.at \in Running
                        \/ member.at = roster[n].at /\ member.active = roster[n].active
                     /\ roster' = [roster EXCEPT ![n] = member]
  <2>1. CASE RunEnds(n)
    <3> DEFINE sub == IF roster[n].pending = 0 THEN Submitted(roster[n]) ELSE roster[n]
               waits == [roster[n] EXCEPT !.at = "idle"]
               planning == [sub EXCEPT !.at = "planning"]
               resumed == [[Approved(sub) EXCEPT !.at = "working"] EXCEPT !.pending = 0]
    <3>1. \/ Leave(n)
          \/ \E member \in {waits, planning, resumed} : roster' = [roster EXCEPT ![n] = member]
      BY <2>1 DEF RunEnds, Resumed
    <3>2. waits.at \in Running /\ planning.at \in Running /\ resumed.at \in Running
      BY <1>1 DEF Submitted, Approved, Member, Running
    <3> QED BY <3>1, <3>2
  <2>2. CASE RunFails(n)
    BY <2>2 DEF RunFails
  <2>3. CASE Poll(n)
    <3>1. [roster[n] EXCEPT !.at = "working"].at \in Running
      BY <1>1 DEF Member, Running
    <3>2. \/ UNCHANGED roster
          \/ Leave(n)
          \/ roster' = [roster EXCEPT ![n] = [roster[n] EXCEPT !.at = "working"]]
      BY <2>3 DEF Poll
    <3> QED BY <3>1, <3>2
  <2>4. CASE Review(n)
    <3> DEFINE resumed(member) == [[member EXCEPT !.at = "working"] EXCEPT !.pending = 0]
    <3>1. resumed(roster[n]).at \in Running /\ resumed(Approved(roster[n])).at \in Running
      BY <1>1 DEF Approved, Member, Running
    <3>2. \/ UNCHANGED roster
          \/ Leave(n)
          \/ \E member \in {roster[n], Approved(roster[n])} :
               roster' = [roster EXCEPT ![n] = resumed(member)]
      BY <2>4 DEF Review, Resumed
    <3> QED BY <3>1, <3>2
  <2>5. CASE SubmitPlan(n)
    <3>1. Submitted(roster[n]).at \in Running
      BY <1>1, <2>5 DEF SubmitPlan, Submitted, Member, At, Running
    <3> QED BY <2>5, <3>1 DEF SubmitPlan
  <2>6. ASSUME NEW mode \in {"plan", "exec"}, NEW approval \in BOOLEAN, Spawn(n, mode, approval)
        PROVE  \E member : member.at \in Running /\ roster' = [roster EXCEPT ![n] = member]
    <3> DEFINE member == [Reserved EXCEPT !.at = "working", !.active = TRUE,
                                          !.mode = mode, !.approval = approval]
    <3>1. member.at \in Running
      BY DEF Reserved, Running
    <3> QED BY <2>6, <3>1 DEF Spawn
  <2>7. ASSUME NEW yes \in BOOLEAN, RespondToPlan(n, yes)
        PROVE  \E member : /\ member.at = roster[n].at /\ member.active = roster[n].active
                           /\ roster' = [roster EXCEPT ![n] = member]
    <3> DEFINE member == [roster[n] EXCEPT !.responded = TRUE]
    <3>1. member.at = roster[n].at /\ member.active = roster[n].active
      BY <1>1 DEF Member
    <3> QED BY <2>7, <3>1 DEF RespondToPlan
  <2>8. CASE ReadFails(n) \/ (n = reader /\ Requeue)
    BY <2>8 DEF ReadFails, Requeue
  <2> QED BY <2>1, <2>2, <2>3, <2>4, <2>5, <2>6, <2>7, <2>8
<1> QED BY <1>1, <1>2

(* It takes no teammate away and gives no task to anyone.                   *)
LEMMA OwnSteps ==
  ASSUME Typed, ActiveLive, NEW n \in Names,
         \/ RunEnds(n) \/ RunFails(n) \/ Poll(n) \/ Review(n) \/ SubmitPlan(n)
         \/ ReadFails(n) \/ (n = reader /\ Requeue)
         \/ \E mode \in {"plan", "exec"}, approval \in BOOLEAN : Spawn(n, mode, approval)
         \/ \E yes \in BOOLEAN : RespondToPlan(n, yes)
  PROVE  /\ UNCHANGED <<owner, started, finished, orphaned>>
         /\ ActiveLive' /\ \A m : Present(m) => Present(m)'
<1> USE DEF Typed, Types
<1>1. UNCHANGED <<owner, started, finished, orphaned>>
  BY DEF RunEnds, RunFails, Poll, Review, SubmitPlan, ReadFails, Requeue, Spawn, RespondToPlan,
         board, history
<1>2. n \in Members /\ roster[n] \in Member
  BY OwnChange
<1>3. \/ UNCHANGED roster
      \/ Leave(n)
      \/ \E member : /\ \/ member.at \in Running
                        \/ member.at = roster[n].at /\ member.active = roster[n].active
                     /\ roster' = [roster EXCEPT ![n] = member]
  BY OwnChange
<1>4. ActiveLive' /\ \A m : Present(m) => Present(m)'
  <2>1. CASE UNCHANGED roster
    BY <2>1 DEF Present, Live, At, Members, ActiveLive
  <2>2. CASE Leave(n)
    BY <1>2, <2>2, LeaveStays
  <2>3. ASSUME NEW member,
               \/ member.at \in Running
               \/ member.at = roster[n].at /\ member.active = roster[n].active,
               roster' = [roster EXCEPT ![n] = member]
        PROVE  ActiveLive' /\ \A m : Present(m) => Present(m)'
    BY <1>2, <2>3, StaysPresent
  <2> QED BY <1>3, <2>1, <2>2, <2>3
<1> QED BY <1>1, <1>4
-----------------------------------------------------------------------------
(* Whose tasks are cared for. *)
CaredFor(o) == o \in {Nobody} \cup orphaned \/ Present(o)

(* Tasks of those that go are released, or their names are known; the       *)
(* others keep their owners.                                                *)
LEMMA Released ==
  ASSUME BoardTypes, NoGhostOwner, NEW names, Release(names),
         \A m : Present(m) /\ m \notin names => Present(m)'
  PROVE  NoGhostOwner'
<1>1. PICK failed \in Unreleased(names) :
        /\ owner' = [t \in Tasks |->
                      IF t \in UNION {Owned(n) : n \in names \ failed} THEN Nobody ELSE owner[t]]
        /\ orphaned' = (orphaned \ names) \cup failed
        /\ finished' = finished
  BY DEF Release
<1> DEFINE freed == UNION {Owned(n) : n \in names \ failed}
<1> SUFFICES ASSUME NEW t \in Tasks, t \notin finished, NEW o, o = owner'[t]
             PROVE  CaredFor(o)'
  BY <1>1 DEF NoGhostOwner, Unfinished, Present, CaredFor
<1>2. CASE t \in freed
  BY <1>1, <1>2 DEF CaredFor
<1>3. CASE t \notin freed
  <2>1. o = owner[t] /\ (o \notin names \/ o \in failed)
    BY <1>1, <1>3 DEF Owned, Unfinished
  <2>2. CaredFor(o)
    BY <2>1 DEF NoGhostOwner, Unfinished, Present, CaredFor
  <2>3. o \notin names /\ Present(o) => Present(o)'
    OBVIOUS
  <2>4. o \notin failed => o \notin names
    BY <2>1
  <2> QED BY <1>1, <2>2, <2>3, <2>4 DEF CaredFor
<1> QED BY <1>2, <1>3

(* Nobody goes, and the tasks that change hands go to those who are there.  *)
LEMMA Kept ==
  ASSUME NoGhostOwner, \A m : Present(m) => Present(m)',
         \A m \in orphaned : m \in orphaned' \/ Present(m)',
         finished \subseteq finished',
         \A t \in Unfinished : owner'[t] = owner[t] \/ Present(owner'[t])
  PROVE  NoGhostOwner'
BY DEF NoGhostOwner, Unfinished, Present

(* No step leaves work with a teammate that is gone.                        *)
LEMMA GuardKept ==
  ASSUME Typed, ActiveLive, NoGhostOwner, [Next]_vars
  PROVE  ActiveLive' /\ NoGhostOwner'
<1> USE DEF Typed, Types
<1>1. ASSUME NEW n \in Names, Reserve(n) PROVE ActiveLive' /\ NoGhostOwner'
  <2>1. roster' = [m \in Members \cup {n} |-> IF m = n THEN Reserved ELSE roster[m]]
        /\ orphaned' = orphaned \ {n} /\ UNCHANGED board
    BY <1>1 DEF Reserve
  <2>2. Reserved.at = "reserved" /\ Reserved.active = FALSE
    BY DEF Reserved
  <2>3. n \notin Members
    BY <1>1 DEF Reserve
  <2>4. \A m : Present(m) => Present(m)'
    BY <2>1, <2>3 DEF Present, Live, At, Members
  <2>5. Present(n)'
    BY <2>1, <2>2 DEF Present, At, Members
  <2>6. ActiveLive'
    BY <2>1, <2>2 DEF ActiveLive, Live, At, Members
  <2> QED BY <2>1, <2>6, <2>4, <2>5, Kept DEF board
<1>2. ASSUME NEW n \in Names, Abandon(n) PROVE ActiveLive' /\ NoGhostOwner'
  <2>1. roster' = [m \in Members \ {n} |-> roster[m]]
        /\ orphaned' = orphaned \cup {n} /\ UNCHANGED board
    BY <1>2 DEF Abandon
  <2>2. ActiveLive' /\ \A m : Present(m) => m = n \/ Present(m)'
    BY <2>1 DEF ActiveLive, Present, Live, At, Members
  <2> QED BY <2>1, <2>2 DEF NoGhostOwner, Unfinished, Present, board
<1>3. ASSUME NEW n \in Names, SendMessage(n) \/ SendShutdown(n)
      PROVE  ActiveLive' /\ NoGhostOwner'
  BY <1>3 DEF SendMessage, SendShutdown, Accept, board, history, ActiveLive, Live, At,
              Members, NoGhostOwner, Unfinished
<1>4. ASSUME NEW n \in Names, NEW t \in Tasks, Assign(t, n) \/ Claim(n, t) \/ Complete(n, t)
      PROVE  ActiveLive' /\ NoGhostOwner'
  <2>1. UNCHANGED <<roster, orphaned>> /\ finished \subseteq finished'
    BY <1>4 DEF Assign, Claim, Complete, Accept, history
  <2>2. UNCHANGED owner \/ (owner' = [owner EXCEPT ![t] = n] /\ Present(n))
    BY <1>4 DEF Assign, Claim, Complete, Accept, Open, ActiveLive, Present, Live, At, Members
  <2>3. ActiveLive' /\ \A m : Present(m) => Present(m)'
    BY <2>1 DEF ActiveLive, Present, Live, At, Members
  <2>4. \A u \in Unfinished : owner'[u] = owner[u] \/ Present(owner'[u])
    BY <2>2 DEF BoardTypes, Unfinished
  <2> QED BY <2>1, <2>3, <2>4, Kept
<1>5. ASSUME NEW n \in Names,
             \/ RunEnds(n) \/ RunFails(n) \/ Poll(n) \/ Review(n) \/ SubmitPlan(n)
             \/ ReadFails(n) \/ (n = reader /\ Requeue)
             \/ \E mode \in {"plan", "exec"}, approval \in BOOLEAN : Spawn(n, mode, approval)
             \/ \E yes \in BOOLEAN : RespondToPlan(n, yes)
      PROVE  ActiveLive' /\ NoGhostOwner'
  <2>1. UNCHANGED <<owner, started, finished, orphaned>> /\ ActiveLive'
        /\ \A m : Present(m) => Present(m)'
    BY <1>5, OwnSteps
  <2> QED BY <2>1, Kept
<1>6. ASSUME NEW n \in Names, Finish(n) PROVE ActiveLive' /\ NoGhostOwner'
  <2> DEFINE table == [roster EXCEPT ![n] = Hydrated]
  <2>1. Release({n})
        /\ roster' = [m \in Members \ Old(table) |-> table[m]]
    BY <1>6 DEF Finish, Prune
  <2>2. \A m \in Old(table) : table[m].at = "ended"
    BY OldEnded
  <2>3. Hydrated.active = FALSE
    BY DEF Hydrated, Reserved
  <2>4. \A m \in Members : m # n => table[m] = roster[m]
    OBVIOUS
  <2>5. n \in Members => table[n] = Hydrated
    BY DEF Members
  <2> HIDE DEF table
  <2>6. \A m : Present(m) /\ m \notin {n} => Present(m)'
    BY <2>1, <2>2, <2>4 DEF Present, Live, At, Members
  <2>7. ActiveLive'
    BY <2>1, <2>3, <2>4, <2>5 DEF ActiveLive, Live, At, Members
  <2> QED BY <2>1, <2>6, <2>7, Released
<1>7. ASSUME NEW names \in SUBSET Members, StopThese(names)
      PROVE  ActiveLive' /\ NoGhostOwner'
  <2> DEFINE stopped == {n \in names : ~roster[n].stopping}
             gone == {n \in stopped : ~Live(n)}
  <2>1. roster' = [n \in Members |-> IF n \in stopped THEN Stopped(roster[n]) ELSE roster[n]]
        /\ Release(gone)
    BY <1>7 DEF StopThese
  <2>2. \A n \in Members : /\ Stopped(roster[n]).at = roster[n].at
                           /\ Stopped(roster[n]).active = FALSE
    BY DEF Stopped, Member, MemberTypes
  <2> HIDE DEF stopped
  <2>3. ActiveLive'
    BY <2>1, <2>2 DEF ActiveLive, Live, At, Members
  <2>4. \A m : Present(m) /\ m \notin gone => Present(m)'
    BY <2>1, <2>2 DEF Present, Live, At, Members
  <2> QED BY <1>7, <2>1, <2>3, <2>4, Released
<1>8. CASE Deleted
  BY <1>8 DEF Deleted, ActiveLive, Members, NoGhostOwner, Unfinished
<1>9. CASE Restart
  <2> DEFINE table == [n \in Members |-> Hydrated]
  <2>1. Release(Members)
        /\ roster' = [m \in Members \ Old(table) |-> table[m]]
    BY <1>9 DEF Restart, Prune
  <2>2. Hydrated.active = FALSE
    BY DEF Hydrated, Reserved
  <2>3. ActiveLive'
    BY <2>1, <2>2 DEF ActiveLive, Live, At, Members
  <2>4. \A m : Present(m) /\ m \notin Members => Present(m)'
    BY DEF Present, Live, At
  <2> QED BY <2>1, <2>3, <2>4, Released
<1>10. CASE UNCHANGED vars
  BY <1>10 DEF vars, board, history, ActiveLive, Live, At, Members, NoGhostOwner, Unfinished
<1>11. ASSUME NEW n \in Names, Stop(n) PROVE ActiveLive' /\ NoGhostOwner'
  BY <1>7, <1>11 DEF Stop
<1>12. CASE StopAll \/ Delete
  BY <1>7, <1>12 DEF StopAll, Delete
<1>13. CASE Requeue
  BY <1>5, <1>13 DEF Requeue, ReaderThere
<1> QED
  BY <1>1, <1>2, <1>3, <1>4, <1>5, <1>6, <1>8, <1>9, <1>10, <1>11, <1>12, <1>13
  DEF Next, Turn

(* For any number of teammates and tasks, and whatever ends the teammates:   *)
(* unfinished work belongs to nobody, to a teammate that is there, or to a   *)
(* name whose reservation was given up or whose release failed.              *)
THEOREM NoWorkWithGhosts == Spec => []NoGhostOwner
<1>1. Init => ActiveLive /\ NoGhostOwner
  BY DEF Init, ActiveLive, Members, NoGhostOwner, Unfinished
<1>2. Typed /\ ActiveLive /\ NoGhostOwner /\ [Next]_vars => ActiveLive' /\ NoGhostOwner'
  BY GuardKept
<1> QED BY <1>1, <1>2, AlwaysTyped, PTL DEF Spec
(* The places of a finite set of positions are numbered in their order. *)
LEMMA Numbered ==
  ASSUME NEW places \in SUBSET Nat, IsFiniteSet(places)
  PROVE  /\ Cardinality(places) \in Nat
         /\ \A i \in places : Rank(places, i) \in 1..Cardinality(places)
         /\ \A i, j \in places : i < j => Rank(places, i) < Rank(places, j)
         /\ \A k \in 1..Cardinality(places) :
              Nth(places, k) \in places /\ Rank(places, Nth(places, k)) = k
<1> DEFINE upTo(i) == {j \in places : j <= i}
           n == Cardinality(places)
           rank == [i \in places |-> Rank(places, i)]
<1>1. n \in Nat
  BY FS_CardinalityType
<1>2. ASSUME NEW i \in places
      PROVE  IsFiniteSet(upTo(i)) /\ Rank(places, i) \in 1..n
  <2>1. upTo(i) \in SUBSET places /\ i \in upTo(i)
    OBVIOUS
  <2>2. IsFiniteSet(upTo(i)) /\ Cardinality(upTo(i)) \in Nat /\ Cardinality(upTo(i)) <= n
    BY <2>1, FS_Subset, FS_CardinalityType
  <2>3. Cardinality(upTo(i)) # 0
    BY <2>1, <2>2, FS_EmptySet
  <2>4. Rank(places, i) = Cardinality(upTo(i))
    BY DEF Rank
  <2> HIDE DEF upTo, n
  <2> QED
    BY <1>1, <2>2, <2>3, <2>4
<1>3. ASSUME NEW i \in places, NEW j \in places, i < j
      PROVE  Rank(places, i) < Rank(places, j)
  <2>1. upTo(i) \in SUBSET upTo(j) /\ upTo(i) # upTo(j)
    <3>1. i \in Nat /\ j \in Nat /\ \A k \in places : k \in Nat
      OBVIOUS
    <3>2. \A k \in places : k <= i => k <= j
      BY <1>3, <3>1
    <3>3. j \in upTo(j) /\ j \notin upTo(i)
      BY <1>3, <3>1
    <3> QED
      BY <3>2, <3>3
  <2>2. /\ Cardinality(upTo(i)) <= Cardinality(upTo(j))
        /\ Cardinality(upTo(i)) # Cardinality(upTo(j))
    <3> HIDE DEF upTo
    <3> QED
      BY <1>2, <2>1, FS_Subset
  <2>3. Cardinality(upTo(i)) = Rank(places, i) /\ Cardinality(upTo(j)) = Rank(places, j)
    BY DEF Rank
  <2> HIDE DEF upTo
  <2> QED
    BY <1>1, <1>2, <2>2, <2>3
<1>4. rank \in Injection(places, 1..n)
  <2>1. rank \in [places -> 1..n]
    BY <1>2
  <2>2. ASSUME NEW i \in places, NEW j \in places, rank[i] = rank[j] PROVE i = j
    <3>1. Rank(places, i) = Rank(places, j)
      BY <2>2, Zenon
    <3>2. Rank(places, i) \in 1..n
      BY <1>2
    <3> HIDE DEF rank, n
    <3>3. ~(i < j) /\ ~(j < i)
      BY <1>1, <1>3, <3>1, <3>2
    <3> QED
      BY <3>3
  <2> HIDE DEF rank
  <2> QED
    BY <2>1, <2>2 DEF Injection, IsInjective
<1>5. IsFiniteSet(1..n) /\ Cardinality(1..n) = n
  BY <1>1, FS_Interval
<1>6. rank \in Surjection(places, 1..n)
  <2> HIDE DEF rank, n
  <2> QED
    BY <1>4, <1>5, FS_Injection DEF n
<1>7. ASSUME NEW k \in 1..n
      PROVE  Nth(places, k) \in places /\ Rank(places, Nth(places, k)) = k
  <2>1. \E i \in places : Rank(places, i) = k
    BY <1>6 DEF Surjection
  <2> QED
    BY <2>1 DEF Nth
<1> QED
  BY <1>1, <1>2, <1>3, <1>7

(* The positions of a sequence are a finite set of numbers. *)
LEMMA Positions ==
  ASSUME NEW S, NEW s \in Seq(S), NEW places \in SUBSET DOMAIN s
  PROVE  /\ places \in SUBSET Nat /\ IsFiniteSet(places)
         /\ Cardinality(places) \in Nat
<1>1. DOMAIN s = 1..Len(s) /\ Len(s) \in Nat
  OBVIOUS
<1>2. IsFiniteSet(1..Len(s))
  BY <1>1, FS_Interval
<1> QED
  BY <1>1, <1>2, FS_Subset, FS_CardinalityType

(* What is numbered is numbered in its order, and each place once. *)
LEMMA NthGrows ==
  ASSUME NEW places \in SUBSET Nat, IsFiniteSet(places)
  PROVE  /\ \A k, l \in 1..Cardinality(places) : k < l => Nth(places, k) < Nth(places, l)
         /\ \A i \in places : \E k \in 1..Cardinality(places) : Nth(places, k) = i
<1> DEFINE n == Cardinality(places)
<1>1. /\ n \in Nat
      /\ \A i \in places : Rank(places, i) \in 1..n
      /\ \A i, j \in places : i < j => Rank(places, i) < Rank(places, j)
      /\ \A k \in 1..n : Nth(places, k) \in places /\ Rank(places, Nth(places, k)) = k
  BY Numbered
<1>2. \A i \in places : i \in Nat
  OBVIOUS
<1> HIDE DEF n
<1>3. ASSUME NEW k \in 1..n, NEW l \in 1..n, k < l PROVE Nth(places, k) < Nth(places, l)
  <2>1. PICK i \in places : i = Nth(places, k) /\ Rank(places, i) = k
    BY <1>1
  <2>2. PICK j \in places : j = Nth(places, l) /\ Rank(places, j) = l
    BY <1>1
  <2>3. ~(j < i) /\ i # j
    BY <1>1, <1>3, <2>1, <2>2
  <2> QED
    BY <1>2, <2>1, <2>2, <2>3
<1>4. ASSUME NEW i \in places PROVE \E k \in 1..n : Nth(places, k) = i
  <2>1. PICK k \in 1..n : Rank(places, i) = k
    BY <1>1
  <2>2. PICK j \in places : j = Nth(places, k) /\ Rank(places, j) = k
    BY <1>1
  <2>3. ~(i < j) /\ ~(j < i)
    BY <1>1, <2>1, <2>2
  <2> QED
    BY <1>2, <2>1, <2>2, <2>3
<1> QED
  BY <1>3, <1>4 DEF n

(* An increasing list of all the places is their numbering. *)
LEMMA Increasing ==
  ASSUME NEW places \in SUBSET Nat, IsFiniteSet(places), NEW n \in Nat,
         NEW g \in [1..n -> places],
         \A k, l \in 1..n : k < l => g[k] < g[l],
         \A i \in places : \E k \in 1..n : g[k] = i
  PROVE  Cardinality(places) = n /\ \A k \in 1..n : Nth(places, k) = g[k]
<1>1. \A k \in 1..n : g[k] \in Nat /\ g[k] \in places
  OBVIOUS
<1>2. \A k, l \in 1..n : k <= l <=> g[k] <= g[l]
  <2> SUFFICES ASSUME NEW k \in 1..n, NEW l \in 1..n PROVE k <= l <=> g[k] <= g[l]
    OBVIOUS
  <2>1. (k < l => g[k] < g[l]) /\ (l < k => g[l] < g[k])
    OBVIOUS
  <2>2. k \in Nat /\ l \in Nat /\ g[k] \in Nat /\ g[l] \in Nat
    BY <1>1
  <2> QED
    BY <2>1, <2>2
<1>3. ASSUME NEW k \in 1..n PROVE Rank(places, g[k]) = k
  <2> DEFINE upTo == {j \in places : j <= g[k]}
             h == [i \in 1..k |-> g[i]]
  <2>1. \A i \in 1..k : i \in 1..n /\ i <= k
    OBVIOUS
  <2>2. \A i \in 1..k : g[i] \in upTo
    BY <1>1, <1>2, <2>1
  <2>3. h \in [1..k -> upTo]
    BY <2>2
  <2>4. ASSUME NEW j \in upTo PROVE \E i \in 1..k : h[i] = j
    <3>1. PICK i \in 1..n : g[i] = j
      OBVIOUS
    <3>2. i <= k
      BY <1>2, <3>1
    <3> QED
      BY <3>1, <3>2
  <2>5. \A i, j \in 1..k : h[i] = h[j] => i = j
    <3> SUFFICES ASSUME NEW i \in 1..k, NEW j \in 1..k, g[i] = g[j] PROVE i = j
      OBVIOUS
    <3>1. i \in 1..n /\ j \in 1..n /\ g[i] <= g[j] /\ g[j] <= g[i]
      BY <1>1, <2>1
    <3> QED
      BY <1>2, <3>1
  <2> HIDE DEF upTo, h
  <2>6. h \in Bijection(1..k, upTo)
    BY <2>3, <2>4, <2>5 DEF Bijection, Injection, IsInjective, Surjection
  <2>7. IsFiniteSet(1..k) /\ Cardinality(1..k) = k
    BY FS_Interval
  <2>8. Cardinality(upTo) = k
    BY <2>6, <2>7, FS_Bijection DEF ExistsBijection
  <2> QED
    BY <2>8 DEF Rank, upTo
<1>4. Cardinality(places) = n
  <2>1. \A i, j \in 1..n : g[i] = g[j] => i = j
    <3> SUFFICES ASSUME NEW i \in 1..n, NEW j \in 1..n, g[i] = g[j] PROVE i = j
      OBVIOUS
    <3>1. g[i] <= g[j] /\ g[j] <= g[i]
      BY <1>1
    <3> QED
      BY <1>2, <3>1
  <2>2. g \in Bijection(1..n, places)
    BY <2>1 DEF Bijection, Injection, IsInjective, Surjection
  <2>3. IsFiniteSet(1..n) /\ Cardinality(1..n) = n
    BY FS_Interval
  <2> QED
    BY <2>2, <2>3, FS_Bijection DEF ExistsBijection
<1>5. ASSUME NEW k \in 1..n PROVE Nth(places, k) = g[k]
  <2>1. PICK l \in 1..n : Nth(places, l) = g[k]
    BY <1>1, <1>4, NthGrows
  <2>2. Rank(places, Nth(places, l)) = l
    BY <1>4, Numbered
  <2> QED
    BY <1>3, <2>1, <2>2
<1> QED
  BY <1>4, <1>5

(* A selection has the elements at the places, each once and in their order. *)
LEMMA Chosen ==
  ASSUME NEW S, NEW s \in Seq(S), NEW places \in SUBSET DOMAIN s
  PROVE  /\ Selected(s, places) \in Seq(S)
         /\ DOMAIN Selected(s, places) = 1..Cardinality(places)
         /\ Len(Selected(s, places)) = Cardinality(places)
         /\ \A k \in 1..Cardinality(places) :
              Nth(places, k) \in places /\ Selected(s, places)[k] = s[Nth(places, k)]
         /\ \A i \in places : \E k \in 1..Cardinality(places) : Nth(places, k) = i
<1> DEFINE n == Cardinality(places)
           t == Selected(s, places)
<1>1. places \in SUBSET Nat /\ IsFiniteSet(places) /\ n \in Nat
  BY Positions
<1>2. \A k \in 1..n : Nth(places, k) \in places
  BY <1>1, Numbered
<1>3. \A i \in places : \E k \in 1..n : Nth(places, k) = i
  BY <1>1, NthGrows
<1>4. \A i \in places : s[i] \in S
  OBVIOUS
<1>5. t = [k \in 1..n |-> s[Nth(places, k)]]
  BY DEF Selected
<1> HIDE DEF n, t
<1>6. t \in Seq(S) /\ DOMAIN t = 1..n /\ Len(t) = n
  BY <1>1, <1>2, <1>4, <1>5
<1> QED
  BY <1>2, <1>3, <1>5, <1>6 DEF n, t

(* Selecting from a selection is selecting once. *)
LEMMA SelectedTwice ==
  ASSUME NEW S, NEW s \in Seq(S), NEW P \in SUBSET DOMAIN s,
         NEW Q \in SUBSET (1..Cardinality(P)), NEW R \in SUBSET P,
         \A k \in 1..Cardinality(P) : k \in Q <=> Nth(P, k) \in R
  PROVE  Selected(Selected(s, P), Q) = Selected(s, R)
<1> DEFINE n == Cardinality(P)
           m == Cardinality(Q)
           t == Selected(s, P)
           g == [k \in 1..m |-> Nth(P, Nth(Q, k))]
<1>1. P \in SUBSET Nat /\ IsFiniteSet(P) /\ n \in Nat
  BY Positions
<1>2. t \in Seq(S) /\ DOMAIN t = 1..n
      /\ \A k \in 1..n : Nth(P, k) \in P /\ t[k] = s[Nth(P, k)]
  BY Chosen
<1>3. \A i \in P : \E k \in 1..n : Nth(P, k) = i
  BY Chosen
<1>4. \A k, l \in 1..n : k < l => Nth(P, k) < Nth(P, l)
  BY <1>1, NthGrows
<1>5. Q \in SUBSET Nat /\ IsFiniteSet(Q) /\ m \in Nat
  <2> HIDE DEF t, n, m
  <2>1. Q \in SUBSET DOMAIN t
    BY <1>2 DEF n
  <2> QED
    BY <1>2, <2>1, Positions DEF m
<1>6. \A k \in 1..m : Nth(Q, k) \in Q
  BY <1>5, Numbered
<1>7. \A k, l \in 1..m : k < l => Nth(Q, k) < Nth(Q, l)
  BY <1>5, NthGrows
<1>8. \A k \in Q : \E l \in 1..m : Nth(Q, l) = k
  BY <1>5, NthGrows
<1>9. R \in SUBSET Nat /\ IsFiniteSet(R)
  BY <1>1, FS_Subset
<1>10. \A k \in 1..m : g[k] = Nth(P, Nth(Q, k)) /\ g[k] \in R /\ Nth(Q, k) \in 1..n
  BY <1>6
<1>11. g \in [1..m -> R]
  BY <1>10
<1> HIDE DEF g, n, m, t
<1>12. \A k, l \in 1..m : k < l => g[k] < g[l]
  BY <1>4, <1>7, <1>10
<1>13. ASSUME NEW i \in R PROVE \E k \in 1..m : g[k] = i
  <2>1. PICK k \in 1..n : Nth(P, k) = i
    BY <1>3
  <2>2. k \in Q
    BY <2>1 DEF n
  <2>3. PICK l \in 1..m : Nth(Q, l) = k
    BY <1>8, <2>2
  <2> QED
    BY <1>10, <2>1, <2>3
<1>14. Cardinality(R) = m /\ \A k \in 1..m : Nth(R, k) = g[k]
  BY <1>5, <1>9, <1>11, <1>12, <1>13, Increasing
<1>15. \A k \in 1..m : t[Nth(Q, k)] = s[Nth(R, k)]
  BY <1>2, <1>10, <1>14
<1>16. Selected(t, Q) = [k \in 1..m |-> t[Nth(Q, k)]]
  BY DEF Selected, m
<1>17. Selected(s, R) = [k \in 1..m |-> s[Nth(R, k)]]
  BY <1>14 DEF Selected
<1> QED
  BY <1>15, <1>16, <1>17 DEF t

(* A selection that leaves no text out has the same texts. *)
LEMMA SameTexts ==
  ASSUME NEW S, NEW s \in Seq(S), NEW places \in SUBSET DOMAIN s,
         TextPlaces(s) \subseteq places
  PROVE  TextsOf(Selected(s, places)) = TextsOf(s)
<1> DEFINE t == Selected(s, places)
           Q == TextPlaces(t)
           R == TextPlaces(s)
<1>1. DOMAIN t = 1..Cardinality(places)
      /\ \A k \in 1..Cardinality(places) :
           Nth(places, k) \in places /\ t[k] = s[Nth(places, k)]
  BY Chosen
<1> HIDE DEF t
<1>2. Q \in SUBSET (1..Cardinality(places)) /\ R \in SUBSET places
  BY <1>1 DEF TextPlaces
<1>3. \A k \in 1..Cardinality(places) : k \in Q <=> Nth(places, k) \in R
  BY <1>1 DEF TextPlaces
<1> HIDE DEF Q, R
<1>4. Selected(t, Q) = Selected(s, R)
  BY <1>2, <1>3, SelectedTwice DEF t
<1> QED
  BY <1>4 DEF TextsOf, t, Q, R

(* Without texts no text is found. *)
LEMMA NoTexts ==
  ASSUME NEW s, \A i \in DOMAIN s : ~IsText(s[i])
  PROVE  TextsOf(s) = <<>>
<1>1. TextPlaces(s) = {}
  BY DEF TextPlaces
<1>2. Cardinality(TextPlaces(s)) = 0
  BY <1>1, FS_EmptySet
<1>3. TextsOf(s) = [k \in 1..0 |-> s[Nth(TextPlaces(s), k)]]
  BY <1>2 DEF TextsOf, Selected
<1> QED
  BY <1>3

(* A message that arrives is behind the others. *)
LEMMA TextsAppend ==
  ASSUME NEW S, NEW s \in Seq(S), NEW m \in S
  PROVE  TextsOf(Append(s, m)) = IF IsText(m) THEN Append(TextsOf(s), m) ELSE TextsOf(s)
<1> DEFINE P == TextPlaces(s)
           Q == TextPlaces(Append(s, m))
           n == Cardinality(P)
           g == [k \in 1..(n + 1) |-> IF k <= n THEN Nth(P, k) ELSE Len(s) + 1]
<1>1. Append(s, m) \in Seq(S) /\ Len(Append(s, m)) = Len(s) + 1 /\ Len(s) \in Nat
      /\ DOMAIN Append(s, m) = 1..(Len(s) + 1) /\ DOMAIN s = 1..Len(s)
      /\ \A i \in DOMAIN s : Append(s, m)[i] = s[i]
      /\ Append(s, m)[Len(s) + 1] = m
  OBVIOUS
<1>2. P \in SUBSET DOMAIN s
  BY DEF TextPlaces
<1>3. P \in SUBSET Nat /\ IsFiniteSet(P) /\ n \in Nat
  BY <1>2, Positions
<1>4. /\ \A k \in 1..n : Nth(P, k) \in P /\ TextsOf(s)[k] = s[Nth(P, k)]
      /\ \A i \in P : \E k \in 1..n : Nth(P, k) = i
      /\ TextsOf(s) \in Seq(S) /\ DOMAIN TextsOf(s) = 1..n /\ Len(TextsOf(s)) = n
  BY <1>2, Chosen DEF TextsOf
<1>5. Q = IF IsText(m) THEN P \cup {Len(s) + 1} ELSE P
  BY <1>1 DEF TextPlaces
<1>6. CASE ~IsText(m)
  <2>1. TextsOf(Append(s, m)) = [k \in 1..n |-> Append(s, m)[Nth(P, k)]]
    BY <1>5, <1>6 DEF TextsOf, Selected
  <2>2. TextsOf(s) = [k \in 1..n |-> s[Nth(P, k)]]
    BY DEF TextsOf, Selected
  <2>3. \A k \in 1..n : Append(s, m)[Nth(P, k)] = s[Nth(P, k)]
    BY <1>1, <1>2, <1>4
  <2> QED
    BY <1>6, <2>1, <2>2, <2>3
<1>7. CASE IsText(m)
  <2>1. Q = P \cup {Len(s) + 1}
    BY <1>5, <1>7
  <2>2. \A k, l \in 1..n : k < l => Nth(P, k) < Nth(P, l)
    BY <1>3, NthGrows
  <2>3. \A i \in P : i \in Nat /\ i <= Len(s)
    BY <1>1, <1>2
  <2>4. Q \in SUBSET DOMAIN Append(s, m)
    BY DEF TextPlaces
  <2>5. Q \in SUBSET Nat /\ IsFiniteSet(Q)
    <3> DEFINE t == Append(s, m)
    <3> HIDE DEF t, Q
    <3>1. t \in Seq(S) /\ Q \in SUBSET DOMAIN t
      BY <1>1, <2>4 DEF t
    <3> QED
      BY <3>1, Positions
  <2>6. /\ \A k \in 1..n : g[k] = Nth(P, k) /\ g[k] \in P
        /\ g[n + 1] = Len(s) + 1 /\ DOMAIN g = 1..(n + 1)
    BY <1>3, <1>4
  <2> HIDE DEF P, Q, n
  <2>7. g \in [1..(n + 1) -> Q]
    BY <1>3, <2>1, <2>6
  <2> HIDE DEF g
  <2>8. ASSUME NEW k \in 1..(n + 1), NEW l \in 1..(n + 1), k < l PROVE g[k] < g[l]
    <3>1. CASE l = n + 1
      <4>1. k \in 1..n
        BY <1>3, <2>8, <3>1
      <4>2. g[k] \in Nat /\ g[k] <= Len(s)
        BY <2>3, <2>6, <4>1
      <4> QED
        BY <1>1, <2>6, <3>1, <4>2
    <3>2. CASE l # n + 1
      <4>1. k \in 1..n /\ l \in 1..n
        BY <1>3, <2>8, <3>2
      <4> QED
        BY <2>2, <2>6, <2>8, <4>1
    <3> QED
      BY <3>1, <3>2
  <2>9. ASSUME NEW i \in Q PROVE \E k \in 1..(n + 1) : g[k] = i
    <3>1. CASE i = Len(s) + 1
      BY <1>3, <2>6, <3>1
    <3>2. CASE i \in P
      <4>1. PICK k \in 1..n : Nth(P, k) = i
        BY <1>4, <3>2
      <4> QED
        BY <1>3, <2>6, <4>1
    <3> QED
      BY <2>1, <3>1, <3>2
  <2>10. n + 1 \in Nat
    BY <1>3
  <2>11. Cardinality(Q) = n + 1 /\ \A k \in 1..(n + 1) : Nth(Q, k) = g[k]
    BY <2>5, <2>7, <2>8, <2>9, <2>10, Increasing
  <2>12. TextsOf(Append(s, m)) = [k \in 1..(n + 1) |-> Append(s, m)[g[k]]]
    <3>1. TextsOf(Append(s, m)) = [k \in 1..(n + 1) |-> Append(s, m)[Nth(Q, k)]]
      BY <2>11 DEF TextsOf, Selected, Q
    <3> QED
      BY <2>11, <3>1
  <2>13. \A k \in 1..n : Append(s, m)[g[k]] = TextsOf(s)[k]
    BY <1>1, <1>2, <1>4, <2>6
  <2>14. Append(TextsOf(s), m)
           = [k \in 1..(n + 1) |-> IF k <= n THEN TextsOf(s)[k] ELSE m]
    <3> DEFINE u == TextsOf(s)
    <3> HIDE DEF u
    <3>1. u \in Seq(S) /\ Len(u) = n
      BY <1>4 DEF u
    <3>2. Append(u, m) \in Seq(S) /\ DOMAIN Append(u, m) = 1..(n + 1)
      BY <3>1
    <3>3. \A k \in 1..(n + 1) : Append(u, m)[k] = IF k <= n THEN u[k] ELSE m
      BY <3>1
    <3> DEFINE w == Append(u, m)
    <3> HIDE DEF w
    <3>4. w \in Seq(S) /\ DOMAIN w = 1..(n + 1)
          /\ \A k \in 1..(n + 1) : w[k] = IF k <= n THEN u[k] ELSE m
      BY <3>2, <3>3 DEF w
    <3>5. w = [k \in 1..(n + 1) |-> IF k <= n THEN u[k] ELSE m]
      BY <3>4
    <3> QED
      BY <3>5 DEF u, w
  <2>15. \A k \in 1..(n + 1) :
           Append(s, m)[g[k]] = IF k <= n THEN TextsOf(s)[k] ELSE m
    <3> SUFFICES ASSUME NEW k \in 1..(n + 1)
                 PROVE  Append(s, m)[g[k]] = IF k <= n THEN TextsOf(s)[k] ELSE m
      OBVIOUS
    <3>1. CASE k = n + 1
      <4>1. ~(k <= n)
        BY <1>3, <3>1
      <4>2. Append(s, m)[g[k]] = m
        BY <1>1, <2>6, <3>1
      <4> QED
        BY <4>1, <4>2
    <3>2. CASE k # n + 1
      <4>1. k \in 1..n /\ k <= n
        BY <1>3, <3>2
      <4> QED
        BY <2>13, <4>1
    <3> QED
      BY <3>1, <3>2
  <2>16. TextsOf(Append(s, m)) = Append(TextsOf(s), m)
    BY <2>12, <2>14, <2>15
  <2> QED
    BY <1>7, <2>16
<1> QED
  BY <1>6, <1>7
-----------------------------------------------------------------------------
Mail == [kind : {"text", "shutdown"} \cup Answers, id : Nat]
MailTyped ==
  /\ box \in [Names -> Seq(Mail)] /\ held \in Seq(Mail)
  /\ sent \in [Names -> Nat] /\ heard \in [Names -> Seq(Nat)]
  /\ lost \in [Names -> SUBSET Nat]

(* What is read of a mailbox, and what is left of it, are messages of it.   *)
LEMMA PartsOfMail ==
  ASSUME NEW s \in Seq(Mail), NEW t \in {TextsOf(s), OthersOf(s), LeftByShutdown(s)}
  PROVE  /\ t \in Seq(Mail)
         /\ \A k \in DOMAIN t : \E i \in DOMAIN s : t[k] = s[i]
<1>1. \E places \in SUBSET DOMAIN s : t = Selected(s, places)
  BY DEF TextsOf, OthersOf, LeftByShutdown, TextPlaces
<1>2. PICK places \in SUBSET DOMAIN s : t = Selected(s, places)
  BY <1>1
<1>3. /\ t \in Seq(Mail)
      /\ DOMAIN t = 1..Cardinality(places)
      /\ \A k \in 1..Cardinality(places) : Nth(places, k) \in places /\ t[k] = s[Nth(places, k)]
  BY <1>2, Chosen
<1> QED
  BY <1>3

(* No part of a mailbox that is read or left lacks a text, and what has     *)
(* none has no texts.                                                       *)
LEMMA TextsOfParts ==
  ASSUME NEW s \in Seq(Mail)
  PROVE  /\ TextsOf(TextsOf(s)) = TextsOf(s)
         /\ TextsOf(LeftByShutdown(s)) = TextsOf(s)
         /\ TextsOf(OthersOf(s)) = <<>>
         /\ TextsOf(<<>>) = <<>>
<1>1. TextsOf(TextsOf(s)) = TextsOf(s)
  <2> DEFINE P == TextPlaces(s)
  <2>1. P \in SUBSET DOMAIN s
    BY DEF TextPlaces
  <2> HIDE DEF P
  <2>2. TextsOf(Selected(s, P)) = TextsOf(s)
    BY <2>1, SameTexts DEF P
  <2> QED
    BY <2>2 DEF TextsOf, P
<1>2. TextsOf(LeftByShutdown(s)) = TextsOf(s)
  <2> DEFINE Request(i) == s[i] = Shutdown /\ \A j \in 1..(i - 1) : s[j] # Shutdown
             P == {i \in DOMAIN s : ~Request(i)}
  <2>1. P \in SUBSET DOMAIN s
    OBVIOUS
  <2>2. TextPlaces(s) \subseteq P
    BY DEF TextPlaces, IsText, Shutdown
  <2>3. LeftByShutdown(s) = Selected(s, P)
    BY DEF LeftByShutdown
  <2> HIDE DEF P
  <2> QED
    BY <2>1, <2>2, <2>3, SameTexts
<1>3. TextsOf(OthersOf(s)) = <<>>
  <2> DEFINE P == DOMAIN s \ TextPlaces(s)
             t == Selected(s, P)
  <2>1. P \in SUBSET DOMAIN s /\ \A i \in P : ~IsText(s[i])
    BY DEF TextPlaces
  <2> HIDE DEF P
  <2>2. DOMAIN t = 1..Cardinality(P)
        /\ \A k \in 1..Cardinality(P) : Nth(P, k) \in P /\ t[k] = s[Nth(P, k)]
    BY <2>1, Chosen
  <2> HIDE DEF t
  <2>3. TextsOf(t) = <<>>
    BY <2>1, <2>2, NoTexts
  <2> QED
    BY <2>3 DEF OthersOf, t, P
<1>4. TextsOf(<<>>) = <<>>
  <2>1. \A i \in DOMAIN <<>> : ~IsText(<<>>[i])
    OBVIOUS
  <2> QED
    BY <2>1, NoTexts
<1> QED
  BY <1>1, <1>2, <1>3, <1>4
-----------------------------------------------------------------------------
(* The numbers that are left of those given, without those that are gone.    *)
Tally(numbers, count, gone) ==
  /\ gone \subseteq 1..count
  /\ ToSet(numbers) = (1..count) \ gone
  /\ \A i, j \in DOMAIN numbers : i < j => numbers[i] < numbers[j]

LEMMA TallyNone == Tally(<<>>, 0, {})
BY DEF Tally, ToSet

(* The next number is given.                                                *)
LEMMA TallyMore ==
  ASSUME NEW u \in Seq(Nat), NEW count \in Nat, NEW gone, Tally(u, count, gone)
  PROVE  Tally(Append(u, count + 1), count + 1, gone)
<1> DEFINE v == Append(u, count + 1)
<1>1. Len(u) \in Nat /\ DOMAIN u = 1..Len(u) /\ DOMAIN v = 1..(Len(u) + 1)
      /\ v[Len(u) + 1] = count + 1 /\ \A i \in 1..Len(u) : v[i] = u[i]
  OBVIOUS
<1>2. \A i \in 1..(Len(u) + 1) : i \in 1..Len(u) \/ i = Len(u) + 1
  BY <1>1
<1>3. \A i \in 1..Len(u) : u[i] \in (1..count) \ gone
  BY <1>1 DEF Tally, ToSet
<1> HIDE DEF v
<1>4. gone \subseteq 1..(count + 1)
  BY DEF Tally
<1>5. ToSet(v) = (1..(count + 1)) \ gone
  <2>1. ASSUME NEW k \in ToSet(v) PROVE k \in (1..(count + 1)) \ gone
    <3>1. PICK i \in 1..(Len(u) + 1) : k = v[i]
      BY <1>1, <2>1 DEF ToSet
    <3>2. CASE i \in 1..Len(u)
      BY <1>1, <1>3, <3>1, <3>2
    <3>3. CASE i = Len(u) + 1
      BY <1>1, <3>1, <3>3 DEF Tally
    <3> QED BY <1>2, <3>2, <3>3
  <2>2. ASSUME NEW k \in (1..(count + 1)) \ gone PROVE k \in ToSet(v)
    <3>1. CASE k \in 1..count
      <4>1. PICK i \in 1..Len(u) : k = u[i]
        BY <1>1, <2>2, <3>1 DEF Tally, ToSet
      <4>2. i \in 1..(Len(u) + 1) /\ v[i] = k
        BY <1>1, <4>1
      <4> QED BY <1>1, <4>2 DEF ToSet
    <3>2. CASE k = count + 1
      <4>1. Len(u) + 1 \in 1..(Len(u) + 1)
        BY <1>1
      <4> QED BY <1>1, <3>2, <4>1 DEF ToSet
    <3> QED BY <2>2, <3>1, <3>2
  <2> QED BY <2>1, <2>2
<1>6. ASSUME NEW i \in 1..(Len(u) + 1), NEW j \in 1..(Len(u) + 1), i < j PROVE v[i] < v[j]
  <2>1. i \in 1..Len(u)
    BY <1>1, <1>6
  <2>2. v[i] = u[i] /\ u[i] \in 1..count
    BY <1>1, <1>3, <2>1
  <2>3. CASE j \in 1..Len(u)
    BY <1>1, <1>6, <2>1, <2>2, <2>3 DEF Tally
  <2>4. CASE j = Len(u) + 1
    BY <1>1, <2>2, <2>4
  <2> QED BY <1>2, <2>3, <2>4
<1> QED BY <1>1, <1>4, <1>5, <1>6 DEF Tally, v

(* The last numbers are lost.                                               *)
LEMMA TallyLess ==
  ASSUME NEW u \in Seq(Nat), NEW w \in Seq(Nat), NEW count \in Nat, NEW gone,
         Tally(u \o w, count, gone)
  PROVE  Tally(u, count, gone \cup ToSet(w))
<1> DEFINE v == u \o w
<1>1. /\ Len(u) \in Nat /\ Len(w) \in Nat /\ DOMAIN u = 1..Len(u) /\ DOMAIN w = 1..Len(w)
      /\ DOMAIN v = 1..(Len(u) + Len(w))
      /\ \A i \in 1..Len(u) : v[i] = u[i]
      /\ \A i \in 1..Len(w) : v[Len(u) + i] = w[i]
  OBVIOUS
<1>2. /\ gone \subseteq 1..count /\ ToSet(v) = (1..count) \ gone
      /\ \A i, j \in 1..(Len(u) + Len(w)) : i < j => v[i] < v[j]
  BY <1>1 DEF Tally
<1>3. \A i \in 1..Len(u) : i \in 1..(Len(u) + Len(w))
  BY <1>1
<1>4. \A i \in 1..Len(w) : Len(u) + i \in 1..(Len(u) + Len(w))
  BY <1>1
<1> HIDE DEF v
<1>5. ToSet(w) \subseteq ToSet(v) /\ ToSet(u) \subseteq ToSet(v)
  BY <1>1, <1>3, <1>4 DEF ToSet
<1>6. \A i \in 1..Len(u), j \in 1..Len(w) : u[i] # w[j]
  <2> SUFFICES ASSUME NEW i \in 1..Len(u), NEW j \in 1..Len(w) PROVE u[i] < w[j]
    BY <1>1
  <2>1. i < Len(u) + j
    BY <1>1
  <2>2. v[i] < v[Len(u) + j]
    BY <1>2, <1>3, <1>4, <2>1
  <2> QED BY <1>1, <2>2
<1>7. ToSet(u) = (1..count) \ (gone \cup ToSet(w))
  <2>1. ASSUME NEW k \in ToSet(u) PROVE k \notin ToSet(w)
    BY <1>1, <1>6, <2>1 DEF ToSet
  <2>2. ASSUME NEW k \in ToSet(v), k \notin ToSet(w) PROVE k \in ToSet(u)
    <3>1. PICK i \in 1..(Len(u) + Len(w)) : k = v[i]
      BY <1>1, <2>2 DEF ToSet
    <3>2. CASE i <= Len(u)
      <4>1. i \in 1..Len(u)
        BY <1>1, <3>1, <3>2
      <4> QED BY <1>1, <3>1, <4>1 DEF ToSet
    <3>3. CASE i > Len(u)
      <4>1. i - Len(u) \in 1..Len(w) /\ Len(u) + (i - Len(u)) = i
        BY <1>1, <3>1, <3>3
      <4>2. w[i - Len(u)] = k
        BY <1>1, <3>1, <4>1
      <4> QED BY <1>1, <2>2, <4>1, <4>2 DEF ToSet
    <3> QED BY <1>1, <3>2, <3>3
  <2> QED BY <1>2, <1>5, <2>1, <2>2
<1>8. \A i, j \in DOMAIN u : i < j => u[i] < u[j]
  BY <1>1, <1>2, <1>3
<1> QED BY <1>2, <1>5, <1>7, <1>8 DEF Tally

(* Every message accepted for a teammate was read by it, or is to be read,  *)
(* or was lost between the two writes.                                      *)
AllHeard == \A n \in Names : Tally(Accounted(n), sent[n], lost[n])
HeldHere ==
  IF reader = Nobody THEN held = <<>> ELSE reader \in Names /\ box[reader] = <<>>

(* Mail stays where it is.                                                  *)
LEMMA MailUntouched ==
  ASSUME MailTyped, AllHeard, UNCHANGED <<box, sent, heard, lost, reading>>
  PROVE  MailTyped' /\ AllHeard'
BY DEF MailTyped, AllHeard, Accounted, InHand, reading

LEMMA EmptyEnds ==
  ASSUME NEW u \in Seq(Nat)
  PROVE  u \o <<>> = u /\ <<>> \o u = u
OBVIOUS

(* Texts are numbers.                                                       *)
LEMMA TextNumbers ==
  ASSUME NEW s \in Seq(Mail)
  PROVE  /\ TextsOf(s) \in Seq(Mail) /\ Texts(s) \in Seq(Nat)
         /\ TextsOf(s) = <<>> => Texts(s) = <<>>
<1> DEFINE t == TextsOf(s)
<1>1. t \in Seq(Mail)
  BY PartsOfMail
<1>2. Texts(s) = [i \in DOMAIN t |-> t[i].id]
  BY DEF Texts, Ids
<1> HIDE DEF t
<1>3. \A i \in DOMAIN t : t[i].id \in Nat
  <2>1. \A m \in Mail : m.id \in Nat
    BY DEF Mail
  <2> QED BY <1>1, <2>1
<1>4. Texts(s) \in Seq(Nat)
  BY <1>1, <1>2, <1>3
<1>5. t = <<>> => Texts(s) = <<>>
  BY <1>2
<1> QED BY <1>1, <1>4, <1>5 DEF t

(* Where nothing is in hand, a message is read or in the mailbox.           *)
LEMMA NothingInHand ==
  ASSUME NEW n \in Names, heard[n] \in Seq(Nat), n # reader
  PROVE  Accounted(n) = heard[n] \o Texts(box[n])
<1>1. InHand(n) = <<>>
  BY DEF InHand
<1> QED BY <1>1, EmptyEnds DEF Accounted

(* One mailbox changes, and what was sent and read of it.                   *)
LEMMA MailChanges ==
  ASSUME MailTyped, AllHeard, reader = Nobody, UNCHANGED <<reading, lost>>, NEW n \in Names,
         NEW messages \in Seq(Mail), NEW read \in Seq(Nat), NEW count \in Nat,
         box' = [box EXCEPT ![n] = messages], heard' = [heard EXCEPT ![n] = read],
         sent' = [sent EXCEPT ![n] = count],
         Tally(read \o Texts(messages), count, lost[n])
  PROVE  MailTyped' /\ AllHeard'
<1>1. MailTyped'
  BY DEF MailTyped, reading
<1>2. reader' = Nobody /\ lost' = lost
  BY DEF reading
<1>3. ASSUME NEW m \in Names PROVE Tally(Accounted(m)', sent'[m], lost'[m])
  <2>1. InHand(m) = <<>> /\ InHand(m)' = <<>>
    BY <1>2, NobodyAssumption DEF InHand
  <2>2. heard[m] \in Seq(Nat) /\ heard'[m] \in Seq(Nat)
    BY <1>1 DEF MailTyped
  <2>3. Accounted(m) = heard[m] \o Texts(box[m])
    BY <2>1, <2>2, EmptyEnds DEF Accounted
  <2>4. Accounted(m)' = heard'[m] \o Texts(box'[m])
    BY <2>1, <2>2, EmptyEnds DEF Accounted
  <2>5. CASE m = n
    <3>1. heard'[m] = read /\ box'[m] = messages /\ sent'[m] = count
      BY <2>5 DEF MailTyped
    <3> QED BY <1>2, <2>4, <2>5, <3>1
  <2>6. CASE m # n
    <3>1. heard'[m] = heard[m] /\ box'[m] = box[m] /\ sent'[m] = sent[m]
      BY <2>6 DEF MailTyped
    <3>2. Tally(Accounted(m), sent[m], lost[m])
      BY DEF AllHeard
    <3> QED BY <1>2, <2>3, <2>4, <3>1, <3>2
  <2> QED BY <2>5, <2>6
<1> QED BY <1>1, <1>3 DEF AllHeard

(* The number of a text that arrives is behind the others; requests and      *)
(* answers have none.                                                       *)
LEMMA TextsArrive ==
  ASSUME NEW s \in Seq(Mail), NEW m \in Mail
  PROVE  Texts(Append(s, m)) = IF IsText(m) THEN Append(Texts(s), m.id) ELSE Texts(s)
<1> DEFINE t == TextsOf(s)
<1>1. t \in Seq(Mail)
  BY PartsOfMail
<1>2. TextsOf(Append(s, m)) = IF IsText(m) THEN Append(t, m) ELSE t
  BY TextsAppend
<1>3. Texts(s) = Ids(t) /\ Texts(Append(s, m)) = Ids(TextsOf(Append(s, m)))
  BY DEF Texts
<1> HIDE DEF t
<1>4. Ids(Append(t, m)) = Append(Ids(t), m.id)
  <2> DEFINE w == Ids(Append(t, m))
             v == Append(Ids(t), m.id)
  <2>1. Ids(t) \in Seq(Nat) /\ Len(Ids(t)) = Len(t) /\ m.id \in Nat /\ Len(t) \in Nat
    <3>1. \A e \in Mail : e.id \in Nat
      BY DEF Mail
    <3> QED BY <1>1, <3>1 DEF Ids
  <2>2. \A i \in 1..Len(t) : Ids(t)[i] = t[i].id
    BY <1>1 DEF Ids
  <2>3. DOMAIN v = 1..(Len(t) + 1)
        /\ \A i \in 1..(Len(t) + 1) : v[i] = IF i <= Len(t) THEN t[i].id ELSE m.id
    BY <2>1, <2>2
  <2>4. DOMAIN w = 1..(Len(t) + 1)
        /\ \A i \in 1..(Len(t) + 1) : w[i] = IF i <= Len(t) THEN t[i].id ELSE m.id
    BY <1>1 DEF Ids
  <2>5. w = [i \in 1..(Len(t) + 1) |-> IF i <= Len(t) THEN t[i].id ELSE m.id]
    BY <2>4 DEF Ids
  <2>6. v \in Seq(Nat)
    BY <2>1
  <2> HIDE DEF w, v
  <2>7. v = [i \in 1..(Len(t) + 1) |-> IF i <= Len(t) THEN t[i].id ELSE m.id]
    BY <2>3, <2>6
  <2> QED BY <2>5, <2>7 DEF w, v
<1> QED BY <1>2, <1>3, <1>4

(* A message is accepted.                                                   *)
LEMMA MailAccepted ==
  ASSUME MailTyped, AllHeard, reader = Nobody, UNCHANGED <<reading, lost>>, NEW n \in Names,
         Accept(n)
  PROVE  MailTyped' /\ AllHeard'
<1> DEFINE s == box[n]
           count == sent[n] + 1
           m == Text(count)
           read == heard[n]
<1>1. s \in Seq(Mail) /\ count \in Nat /\ sent[n] \in Nat /\ read \in Seq(Nat)
  BY DEF MailTyped
<1>2. m \in Mail /\ IsText(m) /\ m.id = count
  BY <1>1 DEF Text, Mail, IsText
<1>3. sent'[n] = count
  BY DEF MailTyped, Accept
<1>4. /\ box' = [box EXCEPT ![n] = Append(s, m)]
      /\ sent' = [sent EXCEPT ![n] = count]
      /\ heard' = [heard EXCEPT ![n] = read]
  BY <1>3 DEF MailTyped, Accept
<1>5. Append(s, m) \in Seq(Mail)
  BY <1>1, <1>2
<1>6. Tally(read \o Texts(s), sent[n], lost[n])
  BY <1>1, NothingInHand, NobodyAssumption DEF AllHeard
<1>7. Texts(Append(s, m)) = Append(Texts(s), count) /\ Texts(s) \in Seq(Nat)
  BY <1>1, <1>2, TextsArrive, TextNumbers
<1>8. Tally(read \o Append(Texts(s), count), count, lost[n])
  <2> DEFINE u == Texts(s)
  <2> HIDE DEF u, read, s
  <2>1. read \o Append(u, count) = Append(read \o u, count) /\ read \o u \in Seq(Nat)
    BY <1>1, <1>7 DEF u
  <2>2. Tally(Append(read \o u, sent[n] + 1), sent[n] + 1, lost[n])
    BY <1>1, <1>6, <2>1, TallyMore DEF u
  <2> QED BY <2>1, <2>2 DEF u
<1> DEFINE messages == Append(s, m)
<1> HIDE DEF s, count, m, read, messages
<1>9. messages \in Seq(Mail) /\ box' = [box EXCEPT ![n] = messages]
      /\ Tally(read \o Texts(messages), count, lost[n])
  BY <1>4, <1>5, <1>7, <1>8 DEF messages
<1> QED BY <1>1, <1>4, <1>9, MailChanges

(* A request or an answer is sent.                                          *)
LEMMA MailAsked ==
  ASSUME MailTyped, AllHeard, reader = Nobody, UNCHANGED <<reading, lost>>, NEW n \in Names,
         NEW m \in Mail, ~IsText(m),
         box' = [box EXCEPT ![n] = Append(@, m)], UNCHANGED <<sent, heard>>
  PROVE  MailTyped' /\ AllHeard'
<1> DEFINE s == box[n]
           read == heard[n]
           count == sent[n]
<1>1. s \in Seq(Mail) /\ count \in Nat /\ read \in Seq(Nat) /\ Append(s, m) \in Seq(Mail)
  BY DEF MailTyped
<1>2. /\ box' = [box EXCEPT ![n] = Append(s, m)]
      /\ sent' = [sent EXCEPT ![n] = count]
      /\ heard' = [heard EXCEPT ![n] = read]
  BY DEF MailTyped
<1>3. Tally(read \o Texts(Append(s, m)), count, lost[n])
  <2>1. Texts(Append(s, m)) = Texts(s)
    BY <1>1, TextsArrive
  <2>2. Tally(read \o Texts(s), count, lost[n])
    BY <1>1, NothingInHand, NobodyAssumption DEF AllHeard
  <2> QED BY <2>1, <2>2
<1> HIDE DEF s, count, read
<1> QED BY <1>1, <1>2, <1>3, MailChanges

(* Some of the mail is read, and its texts with it, or none of them.        *)
LEMMA MailRead ==
  ASSUME MailTyped, AllHeard, reader = Nobody, UNCHANGED <<reading, lost>>, NEW n \in Names,
         NEW left \in Seq(Mail), UNCHANGED sent,
         box' = [box EXCEPT ![n] = left],
         \/ UNCHANGED heard /\ TextsOf(left) = TextsOf(box[n])
         \/ heard' = [heard EXCEPT ![n] = @ \o Texts(box[n])] /\ TextsOf(left) = <<>>
  PROVE  MailTyped' /\ AllHeard'
<1> DEFINE s == box[n]
           count == sent[n]
           read == heard'[n]
<1>1. s \in Seq(Mail) /\ count \in Nat /\ heard[n] \in Seq(Nat) /\ Texts(s) \in Seq(Nat)
  BY TextNumbers DEF MailTyped
<1>2. Tally(heard[n] \o Texts(s), count, lost[n])
  BY <1>1, NothingInHand, NobodyAssumption DEF AllHeard
<1>3. sent' = [sent EXCEPT ![n] = count]
  BY DEF MailTyped
<1>4. CASE UNCHANGED heard /\ TextsOf(left) = TextsOf(box[n])
  <2>1. heard' = [heard EXCEPT ![n] = read] /\ read = heard[n]
    BY <1>4 DEF MailTyped
  <2>2. Texts(left) = Texts(s)
    BY <1>4 DEF Texts
  <2> HIDE DEF s, count, read
  <2> QED BY <1>1, <1>2, <1>3, <2>1, <2>2, MailChanges
<1>5. CASE heard' = [heard EXCEPT ![n] = @ \o Texts(box[n])] /\ TextsOf(left) = <<>>
  <2>1. heard' = [heard EXCEPT ![n] = read] /\ read = heard[n] \o Texts(s)
    BY <1>5 DEF MailTyped
  <2>2. Texts(left) = <<>>
    BY <1>5, TextNumbers
  <2>3. read \in Seq(Nat) /\ read \o <<>> = read
    BY <1>1, <2>1
  <2> HIDE DEF s, count, read
  <2> QED BY <1>1, <1>2, <1>3, <2>1, <2>2, <2>3, MailChanges
<1> QED BY <1>4, <1>5

(* The prompt after a review: the texts that wait are read, the rest stays.  *)
LEMMA ResumedReads ==
  ASSUME MailTyped, AllHeard, reader = Nobody, UNCHANGED <<reading, lost>>, NEW n \in Names,
         NEW member, UNCHANGED sent,
         NEW rest \in {box[n], TextsOf(box[n])}, Resumed(n, member, rest)
  PROVE  MailTyped' /\ AllHeard'
<1> DEFINE left == OthersOf(rest)
<1>1. box[n] \in Seq(Mail)
  BY DEF MailTyped
<1>2. rest \in Seq(Mail) /\ TextsOf(rest) = TextsOf(box[n])
  BY <1>1, PartsOfMail, TextsOfParts
<1>3. left \in Seq(Mail) /\ TextsOf(left) = <<>>
  BY <1>2, PartsOfMail, TextsOfParts
<1>4. box' = [box EXCEPT ![n] = left]
  BY DEF Resumed
<1>5. heard' = [heard EXCEPT ![n] = @ \o Texts(box[n])]
  BY <1>2 DEF Resumed, Prompt, Texts
<1> HIDE DEF left
<1> QED BY <1>3, <1>4, <1>5, MailRead

(* Everything is read, and the rest is in hand.                             *)
LEMMA MailTaken ==
  ASSUME MailTyped, AllHeard, reader = Nobody, NEW n \in Names,
         UNCHANGED <<sent, heard, lost>>,
         reader' = n, held' = LeftByShutdown(box[n]), box' = [box EXCEPT ![n] = <<>>]
  PROVE  MailTyped' /\ AllHeard'
<1>1. box[n] \in Seq(Mail) /\ held' \in Seq(Mail) /\ Texts(held') = Texts(box[n])
  <2>1. box[n] \in Seq(Mail)
    BY DEF MailTyped
  <2> QED BY <2>1, PartsOfMail, TextsOfParts DEF Texts
<1>2. MailTyped'
  BY <1>1 DEF MailTyped
<1>3. ASSUME NEW m \in Names PROVE Accounted(m)' = Accounted(m)
  <2>1. heard'[m] = heard[m] /\ heard[m] \in Seq(Nat) /\ Texts(box[m]) \in Seq(Nat)
        /\ box'[m] = IF m = n THEN <<>> ELSE box[m]
    BY TextNumbers DEF MailTyped
  <2>2. Accounted(m) = heard[m] \o Texts(box[m])
    BY <2>1, NothingInHand, NobodyAssumption
  <2>3. CASE m = n
    <3>1. InHand(m)' = Texts(box[m])
      BY <1>1, <2>3 DEF InHand
    <3>2. Texts(box'[m]) = <<>>
      <4>1. <<>> \in Seq(Mail)
        OBVIOUS
      <4> QED BY <2>1, <2>3, <4>1, TextsOfParts, TextNumbers
    <3>3. Accounted(m)' = heard[m] \o Texts(box[m]) \o <<>>
      BY <2>1, <3>1, <3>2 DEF Accounted
    <3>4. heard[m] \o Texts(box[m]) \in Seq(Nat)
      BY <2>1
    <3> QED BY <2>2, <3>3, <3>4, EmptyEnds
  <2>4. CASE m # n
    <3>1. InHand(m)' = <<>>
      BY <2>4 DEF InHand
    <3>2. Accounted(m)' = heard[m] \o <<>> \o Texts(box[m])
      BY <2>1, <2>4, <3>1 DEF Accounted
    <3> QED BY <2>1, <2>2, <3>2, EmptyEnds
  <2> QED BY <2>3, <2>4
<1> QED BY <1>2, <1>3 DEF AllHeard

(* Who has mail in hand has none in the mailbox.                            *)
LEMMA OnlyInHand ==
  ASSUME MailTyped, HeldHere, reader # Nobody
  PROVE  /\ reader \in Names /\ heard[reader] \in Seq(Nat) /\ Texts(held) \in Seq(Nat)
         /\ Accounted(reader) = heard[reader] \o Texts(held)
<1>1. reader \in Names /\ box[reader] = <<>> /\ heard[reader] \in Seq(Nat)
  BY DEF HeldHere, MailTyped
<1>2. Texts(held) \in Seq(Nat)
  BY TextNumbers DEF MailTyped
<1>3. Texts(<<>>) = <<>>
  <2>1. <<>> \in Seq(Mail)
    OBVIOUS
  <2> QED BY <2>1, TextsOfParts, TextNumbers
<1>4. Accounted(reader) = heard[reader] \o Texts(held) \o <<>>
  BY <1>1, <1>3 DEF Accounted, InHand
<1>5. heard[reader] \o Texts(held) \in Seq(Nat)
  BY <1>1, <1>2
<1> QED BY <1>1, <1>2, <1>4, <1>5, EmptyEnds

(* The rest is put back.                                                    *)
LEMMA MailPutBack ==
  ASSUME MailTyped, AllHeard, HeldHere, reader # Nobody, UNCHANGED <<sent, heard, lost>>,
         box' = [box EXCEPT ![reader] = @ \o held], reader' = Nobody, held' = <<>>
  PROVE  MailTyped' /\ AllHeard'
<1>1. reader \in Names /\ box[reader] = <<>> /\ <<>> \o held = held /\ held \in Seq(Mail)
  BY DEF HeldHere, MailTyped
<1>2. box' = [box EXCEPT ![reader] = held]
  BY <1>1
<1>3. MailTyped'
  BY <1>1, <1>2 DEF MailTyped
<1>4. ASSUME NEW m \in Names PROVE Accounted(m)' = Accounted(m)
  <2>1. heard'[m] = heard[m] /\ heard[m] \in Seq(Nat)
        /\ box'[m] = IF m = reader THEN held ELSE box[m]
    BY <1>2 DEF MailTyped
  <2>2. InHand(m)' = <<>>
    BY NobodyAssumption DEF InHand
  <2>3. Accounted(m)' = heard[m] \o <<>> \o Texts(box'[m])
    BY <2>1, <2>2 DEF Accounted
  <2>4. Accounted(m)' = heard[m] \o Texts(box'[m])
    BY <2>1, <2>3, EmptyEnds
  <2>5. CASE m = reader
    BY <2>1, <2>4, <2>5, OnlyInHand
  <2>6. CASE m # reader
    BY <2>1, <2>4, <2>6, NothingInHand
  <2> QED BY <2>5, <2>6
<1> QED BY <1>3, <1>4 DEF AllHeard

(* The rest, if there is one, is lost.                                      *)
LEMMA MailForgotten ==
  ASSUME MailTyped, AllHeard, HeldHere, Forget, UNCHANGED <<box, sent, heard>>,
         reader' = Nobody, held' = <<>>
  PROVE  MailTyped' /\ AllHeard'
<1>1. ASSUME NEW m \in Names PROVE Tally(Accounted(m)', sent[m], lost'[m])
  <2>1. heard[m] \in Seq(Nat) /\ sent[m] \in Nat /\ Tally(Accounted(m), sent[m], lost[m])
        /\ lost'[m] = lost[m] \cup LostNow(m)
    BY DEF MailTyped, AllHeard, Forget
  <2>2. InHand(m)' = <<>>
    BY NobodyAssumption DEF InHand
  <2>3. Accounted(m)' = heard[m] \o <<>> \o Texts(box[m])
    BY <2>2 DEF Accounted
  <2>4. Accounted(m)' = heard[m] \o Texts(box[m])
    BY <2>1, <2>3, EmptyEnds
  <2>5. CASE m = reader
    <3>1. reader # Nobody /\ box[m] = <<>>
      BY <2>5, NobodyAssumption DEF HeldHere
    <3>2. Accounted(m)' = heard[m]
      <4>1. <<>> \in Seq(Mail)
        OBVIOUS
      <4>2. Texts(box[m]) = <<>>
        BY <3>1, <4>1, TextsOfParts, TextNumbers
      <4> QED BY <2>1, <2>4, <4>2, EmptyEnds
    <3>3. Tally(heard[m] \o Texts(held), sent[m], lost[m]) /\ Texts(held) \in Seq(Nat)
      BY <2>1, <2>5, <3>1, OnlyInHand
    <3>4. lost'[m] = lost[m] \cup ToSet(Texts(held))
      BY <2>1, <2>5 DEF LostNow
    <3> QED BY <2>1, <3>2, <3>3, <3>4, TallyLess
  <2>6. CASE m # reader
    <3>1. lost'[m] = lost[m]
      BY <2>1, <2>6 DEF LostNow
    <3>2. Accounted(m)' = Accounted(m)
      BY <2>1, <2>4, <2>6, NothingInHand
    <3> QED BY <2>1, <3>1, <3>2
  <2> QED BY <2>5, <2>6
<1>2. MailTyped'
  <2>1. Texts(held) \in Seq(Nat)
    BY TextNumbers DEF MailTyped
  <2>2. ToSet(Texts(held)) \subseteq Nat
    BY <2>1 DEF ToSet
  <2> QED BY <2>2 DEF MailTyped, Forget, LostNow
<1> QED BY <1>1, <1>2 DEF AllHeard

(* No step loses a message unnoticed or reads one twice or out of order.    *)
LEMMA MailStep ==
  ASSUME Typed, MailTyped, AllHeard, HeldHere, [Next]_vars
  PROVE  MailTyped' /\ AllHeard'
<1>1. ASSUME NEW n \in Names,
             \/ Reserve(n) \/ Abandon(n) \/ SubmitPlan(n) \/ RunFails(n) \/ Finish(n) \/ Stop(n)
             \/ \E mode \in {"plan", "exec"}, approval \in BOOLEAN : Spawn(n, mode, approval)
             \/ \E t \in Tasks : Claim(n, t) \/ Complete(n, t)
      PROVE  UNCHANGED <<box, sent, heard, lost, reading>>
  BY <1>1 DEF Reserve, Abandon, SubmitPlan, RunFails, Finish, Stop, StopThese, Spawn, Claim,
              Complete, history
<1>2. ASSUME StopAll \/ Delete \/ UNCHANGED vars
      PROVE  UNCHANGED <<box, sent, heard, lost, reading>>
  BY <1>2 DEF StopAll, Delete, StopThese, vars, history
<1>3. ASSUME reader = Nobody, NEW n \in Names, SendMessage(n) \/ \E t \in Tasks : Assign(t, n)
      PROVE  MailTyped' /\ AllHeard'
  BY <1>3, MailAccepted DEF SendMessage, Assign, Accept
<1>4. ASSUME reader = Nobody, NEW n \in Names, SendShutdown(n) PROVE MailTyped' /\ AllHeard'
  <2>1. Shutdown \in Mail /\ ~IsText(Shutdown)
    BY DEF Shutdown, Mail, IsText
  <2>2. box' = [box EXCEPT ![n] = Append(@, Shutdown)]
        /\ UNCHANGED <<sent, heard, reading, lost>>
    BY <1>4 DEF SendShutdown, history
  <2> QED BY <1>4, <2>1, <2>2, MailAsked
<1>5. ASSUME reader = Nobody, NEW n \in Names, NEW yes \in BOOLEAN, RespondToPlan(n, yes)
      PROVE  MailTyped' /\ AllHeard'
  <2> DEFINE m == Answer(roster[n].pending, yes)
  <2>1. roster[n].pending \in Nat
    BY <1>5, BoundsAssumption DEF RespondToPlan, Typed, Types, MemberTypes, Member
  <2>2. m \in Mail /\ ~IsText(m)
    BY <2>1 DEF Answer, Answers, Mail, IsText
  <2>3. box' = [box EXCEPT ![n] = Append(@, m)] /\ UNCHANGED <<sent, heard, reading, lost>>
    BY <1>5 DEF RespondToPlan
  <2> HIDE DEF m
  <2> QED BY <1>5, <2>2, <2>3, MailAsked
<1>6. ASSUME reader = Nobody, NEW n \in Names, RunEnds(n) PROVE MailTyped' /\ AllHeard'
  <2>1. UNCHANGED <<sent, reading, lost>>
    BY <1>6 DEF RunEnds
  <2>2. \/ UNCHANGED <<box, heard>>
        \/ \E member : Resumed(n, member, box[n])
    BY <1>6 DEF RunEnds
  <2> QED BY <1>6, <2>1, <2>2, MailUntouched, ResumedReads
<1>7. ASSUME reader = Nobody, NEW n \in Names, Poll(n) PROVE MailTyped' /\ AllHeard'
  <2>1. box[n] \in Seq(Mail) /\ <<>> \in Seq(Mail) /\ UNCHANGED <<sent, lost>>
    BY <1>7 DEF MailTyped, Poll
  <2>2. \/ UNCHANGED <<box, heard, reading>>
        \/ /\ box' = [box EXCEPT ![n] = <<>>] /\ UNCHANGED heard
           /\ reader' = n /\ held' = LeftByShutdown(box[n])
        \/ /\ box' = [box EXCEPT ![n] = <<>>] /\ UNCHANGED reading
           /\ heard' = [heard EXCEPT ![n] = @ \o Texts(box[n])]
    BY <1>7 DEF Poll, Prompt, Texts
  <2>3. TextsOf(<<>>) = <<>>
    BY <2>1, TextsOfParts
  <2>4. CASE UNCHANGED <<box, heard, reading>>
    BY <2>1, <2>4, MailUntouched
  <2>5. CASE /\ box' = [box EXCEPT ![n] = <<>>] /\ UNCHANGED heard
             /\ reader' = n /\ held' = LeftByShutdown(box[n])
    BY <1>7, <2>1, <2>5, MailTaken
  <2>6. CASE /\ box' = [box EXCEPT ![n] = <<>>] /\ UNCHANGED reading
             /\ heard' = [heard EXCEPT ![n] = @ \o Texts(box[n])]
    BY <1>7, <2>1, <2>3, <2>6, MailRead
  <2> QED BY <2>2, <2>4, <2>5, <2>6
<1>8. ASSUME reader = Nobody, NEW n \in Names, Review(n) \/ ReadFails(n)
      PROVE  MailTyped' /\ AllHeard'
  <2> DEFINE rest == TextsOf(box[n])
  <2>1. box[n] \in Seq(Mail) /\ UNCHANGED <<sent, reading, lost>>
    BY <1>8 DEF MailTyped, Review, ReadFails, history
  <2>2. \/ UNCHANGED <<box, heard>>
        \/ box' = [box EXCEPT ![n] = rest] /\ UNCHANGED heard
        \/ \E member : Resumed(n, member, rest)
    BY <1>8 DEF Review, ReadFails, history
  <2>3. rest \in Seq(Mail) /\ TextsOf(rest) = TextsOf(box[n])
    BY <2>1, PartsOfMail, TextsOfParts
  <2>4. CASE UNCHANGED <<box, heard>>
    BY <2>1, <2>4, MailUntouched
  <2>5. CASE box' = [box EXCEPT ![n] = rest] /\ UNCHANGED heard
    <3> HIDE DEF rest
    <3> QED BY <1>8, <2>1, <2>3, <2>5, MailRead
  <2>6. CASE \E member : Resumed(n, member, rest)
    BY <1>8, <2>1, <2>6, ResumedReads
  <2> QED BY <2>2, <2>4, <2>5, <2>6
<1>9. CASE reader = Nobody /\ Deleted
  <2>1. box' = Empty /\ heard' = Empty /\ sent' = [n \in Names |-> 0] /\ lost' = NothingLost
        /\ UNCHANGED reading
    BY <1>9 DEF Deleted
  <2>2. MailTyped'
    BY <2>1 DEF MailTyped, Empty, NothingLost, reading
  <2>3. ASSUME NEW n \in Names PROVE Tally(Accounted(n)', sent'[n], lost'[n])
    <3>1. box'[n] = <<>> /\ heard'[n] = <<>> /\ sent'[n] = 0 /\ lost'[n] = {}
      BY <2>1 DEF Empty, NothingLost
    <3>2. InHand(n)' = <<>>
      BY <1>9, <2>1, NobodyAssumption DEF InHand, reading
    <3>3. Texts(<<>>) = <<>>
      <4>1. <<>> \in Seq(Mail)
        OBVIOUS
      <4> QED BY <4>1, TextsOfParts, TextNumbers
    <3>4. Accounted(n)' = <<>>
      BY <3>1, <3>2, <3>3 DEF Accounted
    <3> QED BY <3>1, <3>4, TallyNone
  <2> QED BY <2>2, <2>3 DEF AllHeard
<1>10. CASE Requeue
  <2>1. reader # Nobody /\ UNCHANGED <<sent, heard>> /\ reader' = Nobody /\ held' = <<>>
    BY <1>10 DEF Requeue
  <2>2. \/ box' = [box EXCEPT ![reader] = @ \o held] /\ UNCHANGED lost
        \/ Forget /\ UNCHANGED box
    BY <1>10 DEF Requeue
  <2> QED BY <2>1, <2>2, MailPutBack, MailForgotten
<1>11. CASE Restart
  BY <1>11, MailForgotten DEF Restart
<1> QED
  BY <1>1, <1>2, <1>3, <1>4, <1>5, <1>6, <1>7, <1>8, <1>9, <1>10, <1>11, MailUntouched
  DEF Next, Turn

(* Mail is in hand only between the two writes.                             *)
LEMMA HeldStep ==
  ASSUME Typed, MailTyped, HeldHere, [Next]_vars
  PROVE  HeldHere'
<1>1. CASE Turn /\ reader = Nobody
  <2>1. ASSUME NEW n \in Names, Poll(n) PROVE HeldHere'
    <3>1. UNCHANGED reading \/ (reader' = n /\ box' = [box EXCEPT ![n] = <<>>])
      BY <2>1 DEF Poll
    <3>2. CASE UNCHANGED reading
      BY <1>1, <3>2 DEF HeldHere, reading
    <3>3. CASE reader' = n /\ box' = [box EXCEPT ![n] = <<>>]
      BY <3>3, NobodyAssumption DEF HeldHere, MailTyped
    <3> QED BY <3>1, <3>2, <3>3
  <2>2. CASE UNCHANGED reading
    BY <1>1, <2>2 DEF HeldHere, reading
  <2>3. UNCHANGED reading \/ \E n \in Names : Poll(n)
    BY <1>1 DEF Turn, Reserve, Abandon, SendMessage, SendShutdown, Accept, Stop, Spawn,
                RespondToPlan, Assign, Claim, Complete, SubmitPlan, RunEnds, RunFails, Review,
                ReadFails, Finish, StopAll, Delete, Deleted, StopThese
  <2> QED BY <2>1, <2>2, <2>3
<1>2. CASE Requeue \/ Restart
  BY <1>2 DEF Requeue, Restart, HeldHere
<1>3. CASE UNCHANGED vars
  BY <1>3 DEF vars, reading, HeldHere
<1> QED BY <1>1, <1>2, <1>3 DEF Next
-----------------------------------------------------------------------------
(* Plans are numbered; the last one of a teammate is the one that waits, and  *)
(* while it waits nobody takes the teammate's mail as prompts.  An answer is *)
(* to a plan submitted, an approval one the leader gave.                     *)
PlansBelow ==
  \A n \in Members :
    /\ roster[n].pending \in {0, roster[n].plan} /\ roster[n].plan \in 0..plans
    /\ roster[n].pending # 0 => roster[n].mode = "plan" /\ roster[n].at # "idle"
KnownAnswer(m, answered) ==
  m.kind \in Answers => m.id \in 1..plans /\ (m.kind = "approve" => m \in answered)
AnswersKnown == \A n \in Names : \A i \in DOMAIN box[n] : KnownAnswer(box[n][i], verdicts)
GateInv == PlansBelow /\ AnswersKnown /\ GateHeld
HeldKnown == \A i \in DOMAIN held : KnownAnswer(held[i], verdicts)

(* What a step makes of a member: it is new, or as it was, perhaps without   *)
(* its plan's answer to wait for.                                           *)
Began(m) == m.pending = 0 /\ m.plan = 0
AsBefore(old, new) ==
  /\ new.plan = old.plan /\ new.mode = old.mode
  /\ new.at = "idle" => new.pending = 0 \/ old.at = "idle"
  /\ new.pending = 0 \/ (new.pending = old.pending /\ new.responded = old.responded)

(* Answers neither come nor go, and no plan does.                           *)
LEMMA GateUntouched ==
  ASSUME Typed, GateInv, UNCHANGED <<box, verdicts, plans, coordinator>>,
         \A n \in DOMAIN roster' :
           Began(roster'[n]) \/ (n \in Members /\ AsBefore(roster[n], roster'[n]))
  PROVE  GateInv'
<1>1. PlansBelow'
  BY BoundsAssumption DEF Typed, Types, GateInv, PlansBelow, Members, Began, AsBefore
<1>2. AnswersKnown'
  BY DEF GateInv, AnswersKnown, KnownAnswer
<1>3. GateHeld'
  BY DEF GateInv, GateHeld, DecisionHeld, Members, Began, AsBefore
<1> QED BY <1>1, <1>2, <1>3 DEF GateInv

(* One member changes like that.                                            *)
LEMMA GateMember ==
  ASSUME Typed, GateInv, UNCHANGED <<box, verdicts, plans, coordinator>>,
         NEW n \in Members, NEW member, Began(member) \/ AsBefore(roster[n], member),
         roster' = [roster EXCEPT ![n] = member]
  PROVE  GateInv'
<1>1. \A m \in DOMAIN roster' :
        Began(roster'[m]) \/ (m \in Members /\ AsBefore(roster[m], roster'[m]))
  BY DEF Members, AsBefore
<1> QED BY <1>1, GateUntouched

(* Answers are read by the teammate that leaves, or while it waits for none; *)
(* texts are answers to nothing, and what is put back was known before.     *)
LEMMA GateRead ==
  ASSUME Typed, MailTyped, GateInv, UNCHANGED <<verdicts, coordinator>>,
         plans' \in Nat, plans <= plans',
         NEW n \in Names, n \in Members, NEW member, roster' = [roster EXCEPT ![n] = member],
         box' = [box EXCEPT ![n] = box'[n]],
         \A k \in DOMAIN box'[n] :
           KnownAnswer(box'[n][k], verdicts) \/ \E i \in DOMAIN box[n] : box'[n][k] = box[n][i],
         member.pending = 0, member.plan \in 0..plans',
         \/ member.mode = roster[n].mode /\ member.plan = roster[n].plan
         \/ coordinator => Answer(member.plan, TRUE) \in verdicts
  PROVE  GateInv'
<1> plans \in Nat
  BY BoundsAssumption DEF Typed, Types
<1>1. PlansBelow'
  <2>1. \A i \in 0..plans : i \in 0..plans'
    OBVIOUS
  <2>2. \A m \in Members :
          /\ roster'[m].pending \in {0, roster'[m].plan} /\ roster'[m].plan \in 0..plans'
          /\ roster'[m].pending # 0 => roster'[m].mode = "plan" /\ roster'[m].at # "idle"
    BY <2>1 DEF GateInv, PlansBelow, Members
  <2> QED BY <2>2 DEF PlansBelow, Members
<1>2. AnswersKnown'
  <2>1. \A i \in 1..plans : i \in 1..plans'
    OBVIOUS
  <2> QED BY <2>1 DEF GateInv, AnswersKnown, KnownAnswer, MailTyped
<1>3. \A m \in Members : m # n => roster'[m] = roster[m] /\ box'[m] = box[m]
  BY DEF Members, MailTyped, Typed, Types, MemberTypes
<1>4. roster'[n] = member
  BY DEF Members
<1>5. DecisionHeld'
  BY <1>3, <1>4 DEF GateInv, GateHeld, DecisionHeld, Members
<1>6. \A m \in DOMAIN roster' :
        coordinator' /\ roster'[m].mode = "exec" /\ roster'[m].plan # 0
          => Answer(roster'[m].plan, TRUE) \in verdicts'
  <2> SUFFICES ASSUME NEW m \in Members, coordinator,
                      roster'[m].mode = "exec", roster'[m].plan # 0
               PROVE  Answer(roster'[m].plan, TRUE) \in verdicts
    BY DEF Members
  <2>1. CASE m = n
    BY <1>4, <2>1 DEF GateInv, GateHeld
  <2>2. CASE m # n
    BY <1>3, <2>2 DEF GateInv, GateHeld
  <2> QED BY <2>1, <2>2
<1> QED BY <1>1, <1>2, <1>5, <1>6 DEF GateInv, GateHeld, Members

(* A plan is submitted: no answer in the mailbox is to it.                  *)
LEMMA GateSubmits ==
  ASSUME Typed, MailTyped, GateInv, UNCHANGED <<box, verdicts, coordinator>>, plans' = plans + 1,
         NEW n \in Names, n \in Members, NEW member, roster' = [roster EXCEPT ![n] = member],
         member.pending = plans + 1, member.plan = plans + 1, ~member.responded,
         member.mode = "plan", member.at # "idle"
  PROVE  GateInv'
<1>1. plans \in Nat /\ n \in Members /\ roster'[n] = member
  BY BoundsAssumption DEF Typed, Types, Members
<1>2. \A m \in Members : m # n => roster'[m] = roster[m]
  BY DEF Members
<1>3. \A i \in 0..plans : i \in 0..(plans + 1)
  BY <1>1
<1>4. PlansBelow'
  <2>1. \A m \in Members :
          /\ roster'[m].pending \in {0, roster'[m].plan}
          /\ roster'[m].plan \in 0..(plans + 1)
          /\ roster'[m].pending # 0 => roster'[m].mode = "plan" /\ roster'[m].at # "idle"
    BY <1>1, <1>2, <1>3 DEF GateInv, PlansBelow
  <2> QED BY <2>1 DEF PlansBelow, Members
<1>5. AnswersKnown'
  <2>1. \A i \in 1..plans : i \in 1..(plans + 1)
    BY <1>1
  <2> QED BY <2>1 DEF GateInv, AnswersKnown, KnownAnswer
<1>6. \A i \in DOMAIN box[n] : ~(box[n][i].kind \in Answers /\ box[n][i].id = plans + 1)
  BY <1>1 DEF GateInv, AnswersKnown, KnownAnswer
<1>7. DecisionHeld'
  BY <1>1, <1>2, <1>6 DEF GateInv, GateHeld, DecisionHeld, Members
<1>8. \A m \in DOMAIN roster' :
        coordinator' /\ roster'[m].mode = "exec" /\ roster'[m].plan # 0
          => Answer(roster'[m].plan, TRUE) \in verdicts'
  BY <1>1, <1>2 DEF GateInv, GateHeld, Members
<1> QED BY <1>4, <1>5, <1>7, <1>8 DEF GateInv, GateHeld, Members

(* A message arrives that is no answer.                                     *)
LEMMA GateGains ==
  ASSUME Typed, MailTyped, GateInv, UNCHANGED <<roster, verdicts, plans, coordinator>>,
         NEW n \in Names, NEW m, m.kind \notin Answers, box[n] \in Seq(Mail),
         box' = [box EXCEPT ![n] = Append(box[n], m)]
  PROVE  GateInv'
<1> DEFINE s == box[n]
<1>1. /\ \A k \in Names : k # n => box'[k] = box[k]
      /\ box'[n] = Append(s, m)
  BY DEF MailTyped
<1>2. /\ \A i \in DOMAIN Append(s, m) : (i \in DOMAIN s /\ Append(s, m)[i] = s[i])
                                         \/ Append(s, m)[i] = m
      /\ \A i \in DOMAIN s : i \in DOMAIN Append(s, m) /\ Append(s, m)[i] = s[i]
  <2>1. DOMAIN Append(s, m) = 1..(Len(s) + 1) /\ Len(s) \in Nat /\ DOMAIN s = 1..Len(s)
        /\ Append(s, m)[Len(s) + 1] = m
        /\ \A i \in 1..Len(s) : Append(s, m)[i] = s[i]
    OBVIOUS
  <2> QED BY <2>1
<1>3. PlansBelow'
  BY DEF GateInv, PlansBelow, Members
<1>4. AnswersKnown'
  BY <1>1, <1>2 DEF GateInv, AnswersKnown, KnownAnswer
<1>5. DecisionHeld'
  <2> SUFFICES ASSUME NEW k \in Members, roster[k].pending # 0
               PROVE  roster[k].responded <=>
                        \E i \in DOMAIN box'[k] : box'[k][i].kind \in Answers
                                                  /\ box'[k][i].id = roster[k].pending
    BY DEF DecisionHeld, Members
  <2>1. k \in Names
    BY DEF Typed, Types, MemberTypes
  <2> QED BY <1>1, <1>2, <2>1 DEF GateInv, GateHeld, DecisionHeld
<1>6. GateHeld'
  BY <1>5 DEF GateInv, GateHeld, Members
<1> QED BY <1>3, <1>4, <1>6 DEF GateInv

(* The leader answers the plan that waits.                                  *)
LEMMA GateAnswers ==
  ASSUME Typed, MailTyped, GateInv, NEW n \in Names, NEW yes \in BOOLEAN, RespondToPlan(n, yes)
  PROVE  GateInv'
<1> DEFINE m == Answer(roster[n].pending, yes)
           s == box[n]
<1>1. n \in Members /\ roster[n] \in Member /\ s \in Seq(Mail) /\ roster[n].pending # 0
  BY DEF RespondToPlan, Typed, Types, MemberTypes, MailTyped
<1>2. m.kind \in Answers /\ m.id = roster[n].pending /\ m.id \in 1..plans
  BY <1>1, BoundsAssumption DEF Answer, Answers, GateInv, PlansBelow, Typed, Types
<1>3. verdicts' = verdicts \cup {m} /\ UNCHANGED <<plans, coordinator>>
  BY DEF RespondToPlan
<1>4. roster' = [roster EXCEPT ![n] = [roster[n] EXCEPT !.responded = TRUE]]
  BY DEF RespondToPlan
<1>5. /\ \A k \in Members : k # n => roster'[k] = roster[k]
      /\ roster'[n].responded /\ roster'[n].pending = roster[n].pending
      /\ roster'[n].plan = roster[n].plan /\ roster'[n].mode = roster[n].mode
      /\ roster'[n].at = roster[n].at
      /\ DOMAIN roster' = Members
  BY <1>1, <1>4 DEF Members, Member
<1>6. box' = [box EXCEPT ![n] = Append(s, m)]
  BY DEF RespondToPlan
<1>7. /\ \A k \in Names : k # n => box'[k] = box[k]
      /\ box'[n] = Append(s, m)
  BY <1>6 DEF MailTyped
<1>8. /\ \A i \in DOMAIN Append(s, m) : (i \in DOMAIN s /\ Append(s, m)[i] = s[i])
                                         \/ Append(s, m)[i] = m
      /\ \E i \in DOMAIN Append(s, m) : Append(s, m)[i] = m
  <2>1. DOMAIN Append(s, m) = 1..(Len(s) + 1) /\ Len(s) \in Nat /\ DOMAIN s = 1..Len(s)
        /\ Append(s, m)[Len(s) + 1] = m
        /\ \A i \in 1..Len(s) : Append(s, m)[i] = s[i]
    BY <1>1
  <2> QED BY <2>1
<1> HIDE DEF m, s
<1>9. PlansBelow'
  BY <1>3, <1>5 DEF GateInv, PlansBelow, Members
<1>10. AnswersKnown'
  <2> SUFFICES ASSUME NEW k \in Names, NEW i \in DOMAIN box'[k]
               PROVE  KnownAnswer(box'[k][i], verdicts')
    BY <1>3 DEF AnswersKnown, KnownAnswer
  <2>1. \A e : KnownAnswer(e, verdicts) => KnownAnswer(e, verdicts')
    BY <1>3 DEF KnownAnswer
  <2>2. KnownAnswer(m, verdicts')
    BY <1>2, <1>3 DEF KnownAnswer
  <2>3. box'[k][i] = m \/ \E j \in DOMAIN box[k] : box'[k][i] = box[k][j]
    BY <1>7, <1>8 DEF s
  <2> QED BY <2>1, <2>2, <2>3 DEF GateInv, AnswersKnown
<1>11. DecisionHeld'
  <2> SUFFICES ASSUME NEW k \in Members, roster'[k].pending # 0
               PROVE  roster'[k].responded <=>
                        \E i \in DOMAIN box'[k] : box'[k][i].kind \in Answers
                                                  /\ box'[k][i].id = roster'[k].pending
    BY <1>5 DEF DecisionHeld, Members
  <2>1. CASE k = n
    BY <1>2, <1>5, <1>7, <1>8, <2>1
  <2>2. CASE k # n
    <3>1. k \in Names
      BY DEF Typed, Types, MemberTypes
    <3> QED BY <1>5, <1>7, <2>2, <3>1 DEF GateInv, GateHeld, DecisionHeld
  <2> QED BY <2>1, <2>2
<1>12. \A k \in DOMAIN roster' :
         coordinator' /\ roster'[k].mode = "exec" /\ roster'[k].plan # 0
           => Answer(roster'[k].plan, TRUE) \in verdicts'
  <2>1. \A k \in Members : roster'[k].mode = roster[k].mode /\ roster'[k].plan = roster[k].plan
    BY <1>5
  <2> QED BY <1>3, <1>5, <2>1 DEF GateInv, GateHeld
<1> QED BY <1>9, <1>10, <1>11, <1>12 DEF GateInv, GateHeld, Members

(* What the review reads: every answer, and only what was sent.             *)
LEMMA AnswersFound ==
  ASSUME NEW s \in Seq(Mail), NEW member
  PROVE  LET taken == OthersOf(s)
             answers == Selected(taken, {i \in DOMAIN taken : Decides(member, taken[i])}) IN
         /\ answers = <<>> => \A i \in DOMAIN s : ~Decides(member, s[i])
         /\ answers # <<>> => \E i \in DOMAIN s : answers[1] = s[i] /\ Decides(member, s[i])
<1> DEFINE P == DOMAIN s \ TextPlaces(s)
           taken == OthersOf(s)
           Q == {i \in DOMAIN taken : Decides(member, taken[i])}
           answers == Selected(taken, Q)
<1>1. /\ taken \in Seq(Mail) /\ DOMAIN taken = 1..Cardinality(P)
      /\ \A k \in 1..Cardinality(P) : Nth(P, k) \in P /\ taken[k] = s[Nth(P, k)]
      /\ \A i \in P : \E k \in 1..Cardinality(P) : Nth(P, k) = i
  <2>1. P \in SUBSET DOMAIN s /\ taken = Selected(s, P)
    BY DEF OthersOf
  <2> HIDE DEF P, taken
  <2> QED BY <2>1, Chosen
<1>2. /\ DOMAIN answers = 1..Cardinality(Q) /\ Cardinality(Q) \in Nat
      /\ answers \in Seq(Mail)
      /\ \A k \in 1..Cardinality(Q) : Nth(Q, k) \in Q /\ answers[k] = taken[Nth(Q, k)]
      /\ \A i \in Q : \E k \in 1..Cardinality(Q) : Nth(Q, k) = i
  <2>1. Q \in SUBSET DOMAIN taken
    OBVIOUS
  <2> HIDE DEF Q, taken
  <2>2. Cardinality(Q) \in Nat
    BY <1>1, <2>1, Positions
  <2>3. taken \in Seq(Mail)
    BY <1>1
  <2> QED BY <2>1, <2>2, <2>3, Chosen
<1> HIDE DEF taken, answers
<1>3. ASSUME answers = <<>>, NEW i \in DOMAIN s PROVE ~Decides(member, s[i])
  <2>1. Cardinality(Q) = 0
    BY <1>2, <1>3
  <2>2. Q = {}
    BY <1>2, <2>1
  <2>3. CASE i \in P
    BY <1>1, <2>2, <2>3
  <2>4. CASE i \notin P
    BY <2>4 DEF TextPlaces, IsText, Decides, Answers
  <2> QED BY <2>3, <2>4
<1>4. ASSUME answers # <<>>
      PROVE  \E i \in DOMAIN s : answers[1] = s[i] /\ Decides(member, s[i])
  <2>1. 1 \in 1..Cardinality(Q)
    BY <1>2, <1>4
  <2>2. PICK k \in Q : answers[1] = taken[k]
    BY <1>2, <2>1
  <2>3. Nth(P, k) \in DOMAIN s /\ taken[k] = s[Nth(P, k)]
    BY <1>1
  <2> QED BY <2>2, <2>3
<1> QED BY <1>3, <1>4 DEF answers, taken

(* No text is an answer.                                                    *)
LEMMA NoAnswers ==
  ASSUME NEW s \in Seq(Mail)
  PROVE  \A k \in DOMAIN TextsOf(s) : TextsOf(s)[k].kind \notin Answers
<1> DEFINE P == TextPlaces(s)
<1>1. P \in SUBSET DOMAIN s /\ \A i \in P : s[i].kind = "text"
  BY DEF TextPlaces, IsText
<1> HIDE DEF P
<1>2. DOMAIN Selected(s, P) = 1..Cardinality(P)
      /\ \A k \in 1..Cardinality(P) : Nth(P, k) \in P /\ Selected(s, P)[k] = s[Nth(P, k)]
  BY <1>1, Chosen
<1>3. \A k \in DOMAIN Selected(s, P) : Selected(s, P)[k].kind = "text"
  BY <1>1, <1>2
<1> QED BY <1>3 DEF TextsOf, P, Answers

(* A member that has a plan to submit submits it: it has another one now.   *)
LEMMA SubmittedPlan ==
  ASSUME NEW member \in Member, plans' = plans + 1
  PROVE  /\ Submitted(member).pending = plans + 1 /\ Submitted(member).plan = plans + 1
         /\ ~Submitted(member).responded /\ Submitted(member).mode = member.mode
         /\ Submitted(member).at = member.at
BY DEF Submitted, Member

(* What a teammate that leaves keeps.                                       *)
LEMMA GateLeaves ==
  ASSUME Typed, MailTyped, GateInv, UNCHANGED <<verdicts, plans, coordinator>>,
         NEW n \in Names, n \in Members, Leave(n), box' = [box EXCEPT ![n] = box'[n]],
         \A k \in DOMAIN box'[n] :
           KnownAnswer(box'[n][k], verdicts) \/ \E i \in DOMAIN box[n] : box'[n][k] = box[n][i]
  PROVE  GateInv'
<1> DEFINE left == [[[roster[n] EXCEPT !.at = "leaving"] EXCEPT !.active = FALSE] EXCEPT !.pending = 0]
<1>1. roster[n] \in Member /\ roster[n].plan \in 0..plans /\ plans \in Nat
  BY BoundsAssumption DEF Typed, Types, MemberTypes, GateInv, PlansBelow
<1>2. roster' = [roster EXCEPT ![n] = left]
  BY DEF Leave, Members
<1>3. left.pending = 0 /\ left.plan = roster[n].plan /\ left.mode = roster[n].mode
  BY <1>1 DEF Member
<1> HIDE DEF left
<1>4. plans' \in Nat /\ plans <= plans' /\ left.plan \in 0..plans'
  BY <1>1, <1>3
<1>5. UNCHANGED <<verdicts, coordinator>>
  OBVIOUS
<1> QED BY <1>2, <1>3, <1>4, <1>5, GateRead

(* No step opens the gate for a plan the leader has not approved, or loses   *)
(* an answer.                                                               *)
LEMMA GateStep ==
  ASSUME Typed, MailTyped, HeldHere, HeldKnown, GateInv, [Next]_vars
  PROVE  GateInv'
<1> plans \in Nat /\ \A n \in Members : roster[n] \in Member /\ n \in Names
  BY BoundsAssumption DEF Typed, Types, MemberTypes
<1>1. ASSUME NEW n \in Names, Reserve(n) \/ Abandon(n) PROVE GateInv'
  <2>1. UNCHANGED <<box, verdicts, plans, coordinator>>
    BY <1>1 DEF Reserve, Abandon
  <2>2. Began(Reserved)
    BY DEF Began, Reserved
  <2>3. \A m \in DOMAIN roster' :
          Began(roster'[m]) \/ (m \in Members /\ AsBefore(roster[m], roster'[m]))
    BY <1>1, <2>2 DEF Reserve, Abandon, AsBefore, Members
  <2> QED BY <2>1, <2>3, GateUntouched
<1>2. ASSUME NEW n \in Names, NEW mode \in {"plan", "exec"}, NEW approval \in BOOLEAN,
             Spawn(n, mode, approval)
      PROVE  GateInv'
  <2> DEFINE member == [Reserved EXCEPT !.at = "working", !.active = TRUE,
                                        !.mode = mode, !.approval = approval]
  <2>1. UNCHANGED <<box, verdicts, plans, coordinator>> /\ n \in Members
        /\ roster' = [roster EXCEPT ![n] = member]
    BY <1>2 DEF Spawn, At
  <2>2. Began(member)
    BY DEF Began, Reserved
  <2> HIDE DEF member
  <2> QED BY <2>1, <2>2, GateMember
<1>3. ASSUME NEW n \in Names, Accept(n), UNCHANGED <<roster, verdicts, plans, coordinator>>
      PROVE  GateInv'
  <2> DEFINE m == Text(sent'[n])
  <2>1. box' = [box EXCEPT ![n] = Append(box[n], m)] /\ box[n] \in Seq(Mail)
    BY <1>3 DEF Accept, MailTyped
  <2>2. m.kind \notin Answers
    BY DEF Text, Answers
  <2> HIDE DEF m
  <2> QED BY <1>3, <2>1, <2>2, GateGains
<1>4. ASSUME NEW n \in Names, SendMessage(n) \/ \E t \in Tasks : Assign(t, n) PROVE GateInv'
  BY <1>3, <1>4 DEF SendMessage, Assign, Accept
<1>5. ASSUME NEW n \in Names, SendShutdown(n) PROVE GateInv'
  <2>1. box' = [box EXCEPT ![n] = Append(box[n], Shutdown)] /\ box[n] \in Seq(Mail)
        /\ UNCHANGED <<roster, verdicts, plans, coordinator>>
    BY <1>5 DEF SendShutdown, MailTyped, history
  <2>2. Shutdown.kind \notin Answers
    BY DEF Shutdown, Answers
  <2> QED BY <2>1, <2>2, GateGains
<1>6. ASSUME NEW n \in Names, NEW t \in Tasks, Claim(n, t) \/ Complete(n, t) PROVE GateInv'
  <2>1. UNCHANGED <<box, verdicts, plans, coordinator, roster>>
    BY <1>6 DEF Claim, Complete, history
  <2>2. \A m \in DOMAIN roster' : m \in Members /\ AsBefore(roster[m], roster'[m])
    BY <2>1 DEF AsBefore, Members
  <2> QED BY <2>1, <2>2, GateUntouched
<1>7. ASSUME NEW n \in Names, SubmitPlan(n) PROVE GateInv'
  <2>1. n \in Members /\ plans' = plans + 1 /\ roster[n].mode = "plan"
        /\ roster[n].at # "idle"
        /\ UNCHANGED <<box, verdicts, coordinator>>
        /\ roster' = [roster EXCEPT ![n] = Submitted(roster[n])]
    BY <1>7 DEF SubmitPlan, At, history
  <2> QED BY <2>1, SubmittedPlan, GateSubmits
<1>8. ASSUME NEW n \in Names, RunEnds(n) PROVE GateInv'
  <2>1. n \in Members /\ roster[n] \in Member /\ UNCHANGED <<verdicts, coordinator>>
        /\ roster[n].plan \in 0..plans /\ box[n] \in Seq(Mail)
    BY <1>8 DEF RunEnds, At, GateInv, PlansBelow, MailTyped
  <2>2. CASE Signalled(n)
    <3>1. Leave(n) /\ UNCHANGED <<plans, box>>
      BY <1>8, <2>2 DEF RunEnds
    <3>2. box' = [box EXCEPT ![n] = box'[n]] /\ box'[n] = box[n]
      BY <3>1 DEF MailTyped
    <3> QED BY <2>1, <3>1, <3>2, GateLeaves
  <2>3. CASE ~Signalled(n) /\ ~PlanDue(roster[n])
    <3> DEFINE member == [roster[n] EXCEPT !.at = "idle"]
    <3>1. UNCHANGED <<box, plans>> /\ roster' = [roster EXCEPT ![n] = member]
      BY <1>8, <2>1, <2>3 DEF RunEnds
    <3>2. AsBefore(roster[n], member)
      BY <2>1, <2>3 DEF AsBefore, Member, PlanDue, GateInv, PlansBelow
    <3> HIDE DEF member
    <3> QED BY <2>1, <3>1, <3>2, GateMember
  <2>4. CASE ~Signalled(n) /\ PlanDue(roster[n])
    <3> DEFINE member == IF roster[n].pending = 0 THEN Submitted(roster[n]) ELSE roster[n]
               waits == [member EXCEPT !.at = "planning"]
               goes == [[Approved(member) EXCEPT !.at = "working"] EXCEPT !.pending = 0]
    <3>1. roster[n].mode = "plan"
      BY <2>4 DEF PlanDue
    <3>2. plans' = IF roster[n].pending = 0 THEN plans + 1 ELSE plans
      BY <1>8, <2>4 DEF RunEnds
    <3>3. plans' \in 0..MaxPlans
      BY <1>8, <2>4, <3>2, BoundsAssumption DEF RunEnds
    <3>4. member \in Member
      BY <2>1, <3>3 DEF Submitted, Member
    <3>5. /\ coordinator => roster' = [roster EXCEPT ![n] = waits] /\ UNCHANGED box
          /\ ~coordinator => Resumed(n, Approved(member), box[n])
      BY <1>8, <2>4 DEF RunEnds
    <3>6. CASE coordinator
      <4>1. CASE roster[n].pending = 0
        <5>1. /\ member.pending = plans + 1 /\ member.plan = plans + 1
              /\ ~member.responded /\ member.mode = "plan"
          BY <2>1, <3>1, <3>2, <4>1, SubmittedPlan
        <5> HIDE DEF member
        <5>2. /\ waits.pending = plans + 1 /\ waits.plan = plans + 1
              /\ ~waits.responded /\ waits.mode = "plan" /\ waits.at # "idle"
          BY <3>4, <5>1 DEF Member
        <5> HIDE DEF waits
        <5> QED BY <2>1, <3>2, <3>5, <3>6, <4>1, <5>2, GateSubmits
      <4>2. CASE roster[n].pending # 0
        <5>1. AsBefore(roster[n], waits)
          BY <2>1, <4>2 DEF AsBefore, Member
        <5> HIDE DEF waits
        <5> QED BY <2>1, <3>2, <3>5, <3>6, <4>2, <5>1, GateMember
      <4> QED BY <4>1, <4>2
    <3>7. CASE ~coordinator
      <4> DEFINE left == OthersOf(box[n])
      <4>1. roster' = [roster EXCEPT ![n] = goes] /\ box' = [box EXCEPT ![n] = left]
        BY <3>5, <3>7 DEF Resumed
      <4>2. \A k \in DOMAIN left : \E i \in DOMAIN box[n] : left[k] = box[n][i]
        BY <2>1, PartsOfMail
      <4>3. member.plan \in 0..plans'
        BY <2>1, <3>2, SubmittedPlan
      <4> HIDE DEF member
      <4>4. goes.pending = 0 /\ goes.plan \in 0..plans'
        BY <3>4, <4>3 DEF Approved, Member
      <4>5. plans' \in Nat /\ plans <= plans'
        BY <3>2
      <4> HIDE DEF goes, left
      <4>6. box' = [box EXCEPT ![n] = box'[n]] /\ box'[n] = left
        BY <4>1 DEF MailTyped
      <4>7. \A k \in DOMAIN box'[n] : \E i \in DOMAIN box[n] : box'[n][k] = box[n][i]
        BY <4>2, <4>6
      <4> QED BY <2>1, <3>7, <4>1, <4>4, <4>5, <4>6, <4>7, GateRead
    <3> QED BY <3>6, <3>7
  <2> QED BY <2>2, <2>3, <2>4
<1>9. ASSUME NEW n \in Names, RunFails(n) PROVE GateInv'
  <2>1. Leave(n) /\ n \in Members /\ UNCHANGED <<box, verdicts, plans, coordinator>>
    BY <1>9 DEF RunFails, At, history
  <2>2. box' = [box EXCEPT ![n] = box'[n]] /\ box'[n] = box[n]
    BY <2>1 DEF MailTyped
  <2> QED BY <2>1, <2>2, GateLeaves
<1>10. ASSUME NEW n \in Names, Poll(n) PROVE GateInv'
  <2>1. n \in Members /\ box[n] \in Seq(Mail) /\ UNCHANGED <<verdicts, plans, coordinator>>
        /\ roster[n].at = "idle"
    BY <1>10 DEF Poll, At, MailTyped
  <2>2. \/ Leave(n) /\ UNCHANGED box
        \/ UNCHANGED roster /\ box' = [box EXCEPT ![n] = <<>>]
        \/ /\ roster' = [roster EXCEPT ![n] = [roster[n] EXCEPT !.at = "working"]]
           /\ box' = [box EXCEPT ![n] = <<>>]
    BY <1>10 DEF Poll
  <2>3. CASE Leave(n) /\ UNCHANGED box
    <3>1. box' = [box EXCEPT ![n] = box'[n]] /\ box'[n] = box[n]
      BY <2>3 DEF MailTyped
    <3>2. \A k \in DOMAIN box'[n] : \E i \in DOMAIN box[n] : box'[n][k] = box[n][i]
      BY <3>1
    <3> QED BY <2>1, <2>3, <3>1, <3>2, GateLeaves
  <2>4. CASE UNCHANGED roster /\ box' = [box EXCEPT ![n] = <<>>]
    <3>1. box'[n] = <<>> /\ \A k \in Names : k # n => box'[k] = box[k]
      BY <2>4 DEF MailTyped
    <3>2. roster[n].pending = 0
      BY <2>1 DEF GateInv, PlansBelow
    <3>3. PlansBelow'
      BY <2>1, <2>4 DEF GateInv, PlansBelow, Members
    <3>4. AnswersKnown'
      BY <2>1, <3>1 DEF GateInv, AnswersKnown, KnownAnswer
    <3>5. DecisionHeld'
      BY <2>1, <2>4, <3>1, <3>2 DEF GateInv, GateHeld, DecisionHeld, Members
    <3>6. GateHeld'
      BY <2>1, <2>4, <3>5 DEF GateInv, GateHeld, Members
    <3> QED BY <3>3, <3>4, <3>6 DEF GateInv
  <2>5. CASE /\ roster' = [roster EXCEPT ![n] = [roster[n] EXCEPT !.at = "working"]]
             /\ box' = [box EXCEPT ![n] = <<>>]
    <3> DEFINE member == [roster[n] EXCEPT !.at = "working"]
    <3>1. box' = [box EXCEPT ![n] = box'[n]] /\ box'[n] = <<>>
      BY <2>5 DEF MailTyped
    <3>2. \A k \in DOMAIN box'[n] : \E i \in DOMAIN box[n] : box'[n][k] = box[n][i]
      BY <3>1
    <3>3. member.pending = 0 /\ member.plan = roster[n].plan /\ member.mode = roster[n].mode
      BY <2>1, <2>5 DEF Member, GateInv, PlansBelow
    <3>4. plans' \in Nat /\ plans <= plans' /\ member.plan \in 0..plans'
      BY <2>1, <3>3 DEF GateInv, PlansBelow
    <3>5. roster' = [roster EXCEPT ![n] = member]
      BY <2>5
    <3> HIDE DEF member
    <3> QED BY <2>1, <3>1, <3>2, <3>3, <3>4, <3>5, GateRead
  <2> QED BY <2>2, <2>3, <2>4, <2>5
<1>11. ASSUME NEW n \in Names, Review(n) PROVE GateInv'
  <2> DEFINE taken == OthersOf(box[n])
             rest == TextsOf(box[n])
             answers == Selected(taken, {i \in DOMAIN taken : Decides(roster[n], taken[i])})
  <2>1. n \in Members /\ roster[n] \in Member /\ box[n] \in Seq(Mail)
        /\ UNCHANGED <<verdicts, plans, coordinator>>
    BY <1>11 DEF Review, At, MailTyped
  <2>2. /\ answers = <<>> => \A i \in DOMAIN box[n] : ~Decides(roster[n], box[n][i])
        /\ answers # <<>> =>
             \E i \in DOMAIN box[n] : answers[1] = box[n][i] /\ Decides(roster[n], box[n][i])
    BY <2>1, AnswersFound
  <2>3. \/ Leave(n) /\ (UNCHANGED box \/ box' = [box EXCEPT ![n] = rest])
        \/ answers = <<>> /\ box' = [box EXCEPT ![n] = rest] /\ UNCHANGED roster
        \/ answers # <<>> /\ Resumed(n, IF answers[1].kind = "approve" THEN Approved(roster[n])
                                        ELSE roster[n], rest)
    BY <1>11 DEF Review
  <2>4. \A k \in DOMAIN rest : \E i \in DOMAIN box[n] : rest[k] = box[n][i]
    BY <2>1, PartsOfMail
  <2>5. rest \in Seq(Mail) /\ \A k \in DOMAIN OthersOf(rest) :
                               \E i \in DOMAIN rest : OthersOf(rest)[k] = rest[i]
    BY <2>1, PartsOfMail
  <2> HIDE DEF rest, answers
  <2>6. CASE Leave(n) /\ (UNCHANGED box \/ box' = [box EXCEPT ![n] = rest])
    <3>1. box' = [box EXCEPT ![n] = box'[n]] /\ box'[n] \in {box[n], rest}
      BY <2>6 DEF MailTyped
    <3>2. \A k \in DOMAIN box'[n] : \E i \in DOMAIN box[n] : box'[n][k] = box[n][i]
      BY <2>4, <3>1
    <3> QED BY <2>1, <2>6, <3>1, <3>2, GateLeaves
  <2>7. CASE answers = <<>> /\ box' = [box EXCEPT ![n] = rest] /\ UNCHANGED roster
    <3>1. box'[n] = rest /\ \A k \in Names : k # n => box'[k] = box[k]
      BY <2>7 DEF MailTyped
    <3>2. \A i \in DOMAIN rest : ~(rest[i].kind \in Answers)
      BY <2>1, NoAnswers DEF rest
    <3>3. PlansBelow'
      BY <2>1, <2>7 DEF GateInv, PlansBelow, Members
    <3>4. AnswersKnown'
      BY <2>1, <3>1, <3>2 DEF GateInv, AnswersKnown, KnownAnswer
    <3>5. DecisionHeld'
      <4>1. roster[n].pending # 0 => ~roster[n].responded
        BY <2>1, <2>2, <2>7 DEF GateInv, GateHeld, DecisionHeld, Decides
      <4> QED BY <2>1, <2>7, <3>1, <3>2, <4>1 DEF GateInv, GateHeld, DecisionHeld, Members
    <3>6. GateHeld'
      BY <2>1, <2>7, <3>5 DEF GateInv, GateHeld, Members
    <3> QED BY <3>3, <3>4, <3>6 DEF GateInv
  <2>8. CASE /\ answers # <<>>
             /\ Resumed(n, IF answers[1].kind = "approve" THEN Approved(roster[n])
                           ELSE roster[n], rest)
    <3> DEFINE next == IF answers[1].kind = "approve" THEN Approved(roster[n]) ELSE roster[n]
               member == [[next EXCEPT !.at = "working"] EXCEPT !.pending = 0]
    <3>1. roster' = [roster EXCEPT ![n] = member] /\ box' = [box EXCEPT ![n] = OthersOf(rest)]
      BY <2>8 DEF Resumed
    <3>2. box' = [box EXCEPT ![n] = box'[n]] /\ box'[n] = OthersOf(rest)
      BY <3>1 DEF MailTyped
    <3>3. \A k \in DOMAIN box'[n] : \E i \in DOMAIN box[n] : box'[n][k] = box[n][i]
      BY <2>4, <2>5, <3>2
    <3>4. /\ next \in Member /\ next.plan = roster[n].plan
          /\ answers[1].kind # "approve" => next.mode = roster[n].mode
      <4>1. Approved(roster[n]) \in Member
        BY <2>1, Shapes
      <4>2. Approved(roster[n]).plan = roster[n].plan
        BY <2>1 DEF Approved, Member
      <4> QED BY <2>1, <4>1, <4>2
    <3> HIDE DEF next
    <3>5. member.pending = 0 /\ member.plan = next.plan /\ member.mode = next.mode
      BY <3>4 DEF Member
    <3> HIDE DEF member
    <3>6. plans' \in Nat /\ plans <= plans' /\ member.plan \in 0..plans'
      BY <2>1, <3>4, <3>5 DEF GateInv, PlansBelow
    <3>7. answers[1].kind = "approve" => Answer(member.plan, TRUE) \in verdicts
      <4> SUFFICES ASSUME answers[1].kind = "approve"
                   PROVE  Answer(member.plan, TRUE) \in verdicts
        OBVIOUS
      <4>1. PICK i \in DOMAIN box[n] : answers[1] = box[n][i] /\ Decides(roster[n], box[n][i])
        BY <2>2, <2>8
      <4> DEFINE m == box[n][i]
      <4>2. m \in Mail /\ m.kind = "approve" /\ m.id = roster[n].pending
        BY <2>1, <4>1 DEF Decides
      <4>3. m \in verdicts /\ m.id \in 1..plans
        BY <4>2 DEF GateInv, AnswersKnown, KnownAnswer, Answers
      <4>4. roster[n].pending = roster[n].plan
        BY <2>1, <4>2, <4>3 DEF GateInv, PlansBelow
      <4> HIDE DEF m
      <4>5. m = Answer(member.plan, TRUE)
        BY <3>4, <3>5, <4>2, <4>4 DEF Answer, Mail
      <4> QED BY <4>3, <4>5
    <3>8. \/ member.mode = roster[n].mode /\ member.plan = roster[n].plan
          \/ coordinator => Answer(member.plan, TRUE) \in verdicts
      BY <3>4, <3>5, <3>7
    <3> QED BY <2>1, <3>1, <3>2, <3>3, <3>5, <3>6, <3>8, GateRead
  <2> QED BY <2>3, <2>6, <2>7, <2>8
<1>12. ASSUME NEW n \in Names, Finish(n) PROVE GateInv'
  <2> DEFINE table == [roster EXCEPT ![n] = Hydrated]
  <2>1. UNCHANGED <<box, verdicts, plans, coordinator>>
        /\ roster' = [m \in Members \ Old(table) |-> table[m]]
    BY <1>12 DEF Finish, Prune
  <2>2. \A m \in Members : table[m] = Hydrated \/ table[m] = roster[m]
    BY DEF Members
  <2>3. Began(Hydrated)
    BY DEF Began, Hydrated, Reserved
  <2> HIDE DEF table
  <2>4. \A m \in DOMAIN roster' :
          Began(roster'[m]) \/ (m \in Members /\ AsBefore(roster[m], roster'[m]))
    BY <2>1, <2>2, <2>3 DEF AsBefore, Members
  <2> QED BY <2>1, <2>4, GateUntouched
<1>13. ASSUME NEW names, StopThese(names), UNCHANGED <<verdicts, coordinator>> PROVE GateInv'
  <2>1. UNCHANGED <<box, plans>> /\ DOMAIN roster' = Members
        /\ \A m \in Members : roster'[m] \in {roster[m], Stopped(roster[m])}
    BY <1>13 DEF StopThese, Members
  <2>2. \A m \in Members : AsBefore(roster[m], roster[m])
                           /\ AsBefore(roster[m], Stopped(roster[m]))
    BY DEF AsBefore, Stopped, Member
  <2>3. \A m \in DOMAIN roster' : m \in Members /\ AsBefore(roster[m], roster'[m])
    BY <2>1, <2>2
  <2> QED BY <1>13, <2>1, <2>3, GateUntouched
<1>14. CASE StopAll \/ Delete \/ \E n \in Names : Stop(n)
  BY <1>13, <1>14 DEF Stop, StopAll, Delete, StopThese, history
<1>15. CASE Deleted
  <2>1. DOMAIN roster' = {} /\ \A n \in Names : box'[n] = <<>>
    BY <1>15 DEF Deleted, Empty
  <2> QED BY <2>1 DEF GateInv, PlansBelow, AnswersKnown, GateHeld, DecisionHeld, Members
<1>16. CASE Restart
  <2>1. UNCHANGED <<box, verdicts, plans, coordinator>>
        /\ \A m \in DOMAIN roster' : roster'[m] = Hydrated
    BY <1>16 DEF Restart, Prune
  <2>2. Began(Hydrated)
    BY DEF Began, Hydrated, Reserved
  <2>3. \A m \in DOMAIN roster' :
          Began(roster'[m]) \/ (m \in Members /\ AsBefore(roster[m], roster'[m]))
    BY <2>1, <2>2
  <2> QED BY <2>1, <2>3, GateUntouched
<1>17. CASE UNCHANGED vars
  <2>1. UNCHANGED <<box, verdicts, plans, coordinator, roster>>
    BY <1>17 DEF vars, history
  <2>2. \A m \in DOMAIN roster' : m \in Members /\ AsBefore(roster[m], roster'[m])
    BY <2>1 DEF AsBefore, Members
  <2> QED BY <2>1, <2>2, GateUntouched
<1>18. ASSUME NEW n \in Names, ReadFails(n) PROVE GateInv'
  <2>1. n \in Members /\ Leave(n) /\ UNCHANGED <<verdicts, plans, coordinator>>
        /\ box[n] \in Seq(Mail)
    BY <1>18 DEF ReadFails, At, history, MailTyped
  <2>2. box' = [box EXCEPT ![n] = box'[n]] /\ box'[n] \in {box[n], TextsOf(box[n])}
    BY <1>18 DEF ReadFails, MailTyped
  <2>3. \A k \in DOMAIN box'[n] : \E i \in DOMAIN box[n] : box'[n][k] = box[n][i]
    BY <2>1, <2>2, PartsOfMail
  <2> QED BY <2>1, <2>2, <2>3, GateLeaves
<1>19. CASE Requeue
  <2> DEFINE n == reader
  <2>1. n \in Names /\ n \in Members /\ Leave(n) /\ UNCHANGED <<verdicts, plans, coordinator>>
        /\ box[n] = <<>> /\ held \in Seq(Mail)
    BY <1>19 DEF Requeue, Typed, ReaderThere, At, HeldHere, MailTyped
  <2>2. box' = [box EXCEPT ![n] = box'[n]] /\ box'[n] \in {box[n], box[n] \o held}
    BY <1>19, <2>1 DEF Requeue, MailTyped
  <2>3. box'[n] \in {<<>>, held}
    BY <2>1, <2>2
  <2>4. \A k \in DOMAIN box'[n] : KnownAnswer(box'[n][k], verdicts)
    BY <2>3 DEF HeldKnown
  <2> HIDE DEF n
  <2> QED BY <2>1, <2>2, <2>4, GateLeaves
<1> QED
  BY <1>1, <1>2, <1>4, <1>5, <1>6, <1>7, <1>8, <1>9, <1>10, <1>11, <1>12, <1>14, <1>15,
     <1>16, <1>17, <1>18, <1>19, GateAnswers
  DEF Next, Turn

(* What is in hand was in the mailbox.                                      *)
LEMMA HeldKnownStep ==
  ASSUME Typed, MailTyped, HeldHere, HeldKnown, GateInv, [Next]_vars
  PROVE  HeldKnown'
<1>1. CASE Turn /\ reader = Nobody
  <2>1. ASSUME NEW n \in Names, Poll(n) PROVE HeldKnown'
    <3>1. UNCHANGED <<plans, verdicts>> /\ box[n] \in Seq(Mail)
      BY <2>1 DEF Poll, MailTyped
    <3>2. held' \in {held, LeftByShutdown(box[n])}
      BY <2>1 DEF Poll, reading
    <3>3. \A k \in DOMAIN LeftByShutdown(box[n]) :
            KnownAnswer(LeftByShutdown(box[n])[k], verdicts)
      BY <3>1, PartsOfMail DEF GateInv, AnswersKnown
    <3>4. \A k \in DOMAIN held' : KnownAnswer(held'[k], verdicts)
      BY <3>2, <3>3 DEF HeldKnown
    <3> QED BY <3>1, <3>4 DEF HeldKnown, KnownAnswer
  <2>2. CASE UNCHANGED reading
    BY <1>1, <2>2 DEF HeldHere, reading, HeldKnown
  <2>3. UNCHANGED reading \/ \E n \in Names : Poll(n)
    BY <1>1 DEF Turn, Reserve, Abandon, SendMessage, SendShutdown, Accept, Stop, Spawn,
                RespondToPlan, Assign, Claim, Complete, SubmitPlan, RunEnds, RunFails, Review,
                ReadFails, Finish, StopAll, Delete, Deleted, StopThese
  <2> QED BY <2>1, <2>2, <2>3
<1>2. CASE Requeue \/ Restart
  BY <1>2 DEF Requeue, Restart, HeldKnown
<1>3. CASE UNCHANGED vars
  BY <1>3 DEF vars, reading, history, HeldKnown, KnownAnswer
<1> QED BY <1>1, <1>2, <1>3 DEF Next
-----------------------------------------------------------------------------
(* The order has each member once.                                          *)
Listed ==
  /\ order \in Seq(Names) /\ ToSet(order) = Members
  /\ \A i, j \in DOMAIN order : order[i] = order[j] => i = j
EndedIn(table) == {n \in Members : table[n].at = "ended"}
FewEnded == Cardinality(EndedIn(roster)) <= MaxRetained

LEMMA Counting ==
  ASSUME NEW n \in Nat
  PROVE  /\ IsFiniteSet(1..n) /\ Cardinality(1..n) = n
         /\ IsFiniteSet(0..(n - 1)) /\ Cardinality(0..(n - 1)) = n
<1>1. IsFiniteSet(1..n) /\ Cardinality(1..n) = n
  BY FS_Interval
<1>2. IsFiniteSet(0..(n - 1))
  BY FS_Interval
<1>3. Cardinality(0..(n - 1)) = n
  <2>1. CASE n = 0
    <3>1. 0..(n - 1) = {}
      BY <2>1
    <3> QED BY <2>1, <3>1, FS_EmptySet
  <2>2. CASE n # 0
    BY <2>2, FS_Interval
  <2> QED BY <2>1, <2>2
<1> QED BY <1>1, <1>2, <1>3

(* Then there are finitely many members, as many as the order is long.      *)
LEMMA MembersCounted ==
  ASSUME Listed
  PROVE  /\ IsFiniteSet(Members) /\ Cardinality(Members) = Len(order)
         /\ \A table : IsFiniteSet(EndedIn(table))
<1>1. DOMAIN order = 1..Len(order) /\ Len(order) \in Nat
  BY DEF Listed
<1>2. \A n : n \in Members <=> \E i \in 1..Len(order) : order[i] = n
  BY <1>1 DEF Listed, ToSet
<1>3. order \in [1..Len(order) -> Members]
  BY <1>1, <1>2 DEF Listed
<1>4. order \in Bijection(1..Len(order), Members)
  BY <1>1, <1>2, <1>3 DEF Listed, Bijection, Injection, IsInjective, Surjection
<1>5. IsFiniteSet(1..Len(order)) /\ Cardinality(1..Len(order)) = Len(order)
  BY <1>1, Counting
<1>6. IsFiniteSet(Members) /\ Cardinality(Members) = Len(order)
  BY <1>4, <1>5, FS_Bijection DEF ExistsBijection
<1>7. ASSUME NEW table PROVE IsFiniteSet(EndedIn(table))
  <2>1. EndedIn(table) \in SUBSET Members
    BY DEF EndedIn
  <2> QED BY <1>6, <2>1, FS_Subset
<1> QED BY <1>6, <1>7

(* Names that go leave the others in their order.                           *)
LEMMA OthersListed ==
  ASSUME Listed, NEW names
  PROVE  /\ Without(names) \in Seq(Names)
         /\ \A n : n \in ToSet(Without(names)) <=> n \in Members \ names
         /\ \A i, j \in DOMAIN Without(names) : Without(names)[i] = Without(names)[j] => i = j
<1> DEFINE P == {i \in DOMAIN order : order[i] \notin names}
           t == Without(names)
<1>1. P \in SUBSET DOMAIN order /\ order \in Seq(Names) /\ t = Selected(order, P)
  BY DEF Listed, Without
<1> HIDE DEF P, t
<1>2. /\ t \in Seq(Names) /\ DOMAIN t = 1..Cardinality(P)
      /\ \A k \in 1..Cardinality(P) : Nth(P, k) \in P /\ t[k] = order[Nth(P, k)]
      /\ \A i \in P : \E k \in 1..Cardinality(P) : Nth(P, k) = i
  BY <1>1, Chosen
<1>3. \A k, l \in 1..Cardinality(P) : k < l => Nth(P, k) < Nth(P, l)
  BY <1>1, Positions, NthGrows
<1>4. ASSUME NEW n PROVE n \in ToSet(t) <=> n \in Members \ names
  <2>1. ASSUME NEW k \in DOMAIN t PROVE t[k] \in Members \ names
    <3>1. Nth(P, k) \in DOMAIN order /\ order[Nth(P, k)] \notin names /\ t[k] = order[Nth(P, k)]
      BY <1>2 DEF P
    <3> QED BY <3>1 DEF Listed, ToSet
  <2>2. ASSUME n \in Members \ names PROVE \E k \in DOMAIN t : t[k] = n
    <3>1. PICK i \in DOMAIN order : order[i] = n
      BY <2>2 DEF Listed, ToSet
    <3>2. i \in P
      BY <2>2, <3>1 DEF P
    <3> QED BY <1>2, <3>1, <3>2
  <2> QED BY <2>1, <2>2 DEF ToSet
<1>5. ASSUME NEW i \in DOMAIN t, NEW j \in DOMAIN t, t[i] = t[j] PROVE i = j
  <2>1. Nth(P, i) = Nth(P, j)
    BY <1>2, <1>5 DEF Listed, P
  <2>2. Nth(P, i) \in Nat /\ Nth(P, j) \in Nat /\ i \in Nat /\ j \in Nat
    BY <1>1, <1>2
  <2>3. ~(i < j) /\ ~(j < i)
    BY <1>2, <1>3, <2>1, <2>2
  <2> QED BY <2>2, <2>3
<1> QED BY <1>2, <1>4, <1>5 DEF t

(* Pruning leaves no more members that have ended than are kept.            *)
LEMMA FewLeft ==
  ASSUME Listed, NEW table
  PROVE  /\ IsFiniteSet(EndedIn(table) \ Old(table))
         /\ Cardinality(EndedIn(table) \ Old(table)) <= MaxRetained
<1> DEFINE kept == EndedIn(table) \ Old(table)
           upTo(i) == {j \in 1..i : table[order[j]].at = "ended"}
           count(i) == Cardinality(upTo(i))
           total == count(Len(order))
           place(n) == CHOOSE i \in DOMAIN order : order[i] = n
           back == [n \in kept |-> total - count(place(n))]
<1>1. DOMAIN order = 1..Len(order) /\ Len(order) \in Nat /\ MaxRetained \in Nat
  BY BoundsAssumption DEF Listed
<1>2. \A i \in 0..Len(order) : IsFiniteSet(upTo(i)) /\ count(i) \in Nat
  <2> SUFFICES ASSUME NEW i \in 0..Len(order) PROVE IsFiniteSet(upTo(i)) /\ count(i) \in Nat
    OBVIOUS
  <2>1. IsFiniteSet(1..i) /\ upTo(i) \in SUBSET (1..i)
    BY <1>1, Counting
  <2>2. IsFiniteSet(upTo(i))
    BY <2>1, FS_Subset
  <2> QED BY <2>2, FS_CardinalityType
<1>3. \A i, k \in 0..Len(order) : i <= k => count(i) <= count(k)
  <2> SUFFICES ASSUME NEW i \in 0..Len(order), NEW k \in 0..Len(order), i <= k
               PROVE  count(i) <= count(k)
    OBVIOUS
  <2>1. upTo(i) \in SUBSET upTo(k) /\ IsFiniteSet(upTo(k))
    BY <1>2
  <2> HIDE DEF upTo
  <2> QED BY <2>1, FS_Subset
<1>4. \A i, k \in 1..Len(order) : i < k /\ table[order[k]].at = "ended" => count(i) < count(k)
  <2> SUFFICES ASSUME NEW i \in 1..Len(order), NEW k \in 1..Len(order), i < k,
                      table[order[k]].at = "ended"
               PROVE  count(i) < count(k)
    OBVIOUS
  <2>1. i \in 0..Len(order) /\ k \in 0..Len(order)
    BY <1>1
  <2>2. upTo(i) \in SUBSET upTo(k) /\ k \in upTo(k) /\ k \notin upTo(i)
    OBVIOUS
  <2>3. IsFiniteSet(upTo(k)) /\ count(i) \in Nat /\ count(k) \in Nat
    BY <1>2, <2>1
  <2> HIDE DEF upTo
  <2>4. count(i) <= count(k) /\ count(i) # count(k)
    BY <2>2, <2>3, FS_Subset
  <2> HIDE DEF count
  <2> QED BY <2>3, <2>4
<1>5. \A n \in kept : /\ place(n) \in 1..Len(order) /\ order[place(n)] = n
                      /\ table[n].at = "ended" /\ n \notin Old(table) /\ n \in Members
  <2> SUFFICES ASSUME NEW n \in kept
               PROVE  /\ place(n) \in 1..Len(order) /\ order[place(n)] = n
                      /\ table[n].at = "ended" /\ n \notin Old(table) /\ n \in Members
    OBVIOUS
  <2>1. n \in Members /\ table[n].at = "ended" /\ n \notin Old(table)
    BY DEF EndedIn
  <2>2. \E i \in DOMAIN order : order[i] = n
    BY <2>1 DEF Listed, ToSet
  <2> QED BY <1>1, <2>1, <2>2
<1>6. ASSUME NEW n \in kept PROVE back[n] \in 0..(MaxRetained - 1)
  <2> DEFINE i == place(n)
  <2>1. i \in 1..Len(order) /\ order[i] = n /\ table[n].at = "ended" /\ n \notin Old(table)
        /\ n \in Members
    BY <1>5
  <2>2. ~(count(i) + MaxRetained <= total)
    BY <1>1, <2>1 DEF Old
  <2>3. i \in 0..Len(order) /\ Len(order) \in 0..Len(order) /\ i <= Len(order)
    BY <1>1, <2>1
  <2>4. back[n] = total - count(i)
    OBVIOUS
  <2> HIDE DEF i, count, back, kept
  <2>5. count(i) \in Nat /\ total \in Nat /\ count(i) <= total
    BY <1>2, <1>3, <2>3
  <2> HIDE DEF total
  <2> QED BY <1>1, <2>2, <2>4, <2>5
<1>7. ASSUME NEW n \in kept, NEW m \in kept, back[n] = back[m] PROVE n = m
  <2>1. /\ place(n) \in 1..Len(order) /\ order[place(n)] = n /\ table[n].at = "ended"
        /\ place(m) \in 1..Len(order) /\ order[place(m)] = m /\ table[m].at = "ended"
    BY <1>5
  <2>2. back[n] = total - count(place(n)) /\ back[m] = total - count(place(m))
    OBVIOUS
  <2>3. /\ place(n) \in 0..Len(order) /\ place(m) \in 0..Len(order)
        /\ Len(order) \in 0..Len(order)
    BY <1>1, <2>1
  <2> HIDE DEF place, count, back, kept
  <2>4. count(place(n)) \in Nat /\ count(place(m)) \in Nat /\ total \in Nat
    BY <1>2, <2>3
  <2>5. count(place(n)) = count(place(m))
    <3> HIDE DEF total
    <3>1. total - count(place(n)) = total - count(place(m))
      BY <1>7, <2>2
    <3> QED BY <2>4, <3>1
  <2>6. ~(place(n) < place(m)) /\ ~(place(m) < place(n))
    BY <1>4, <2>1, <2>4, <2>5
  <2>7. place(n) = place(m)
    BY <2>1, <2>6
  <2> QED BY <2>1, <2>7
<1>8. IsFiniteSet(kept)
  <2>1. IsFiniteSet(EndedIn(table))
    BY MembersCounted
  <2> QED BY <2>1, FS_Subset
<1>9. back \in Injection(kept, 0..(MaxRetained - 1))
  <2> HIDE DEF kept
  <2>1. back \in [kept -> 0..(MaxRetained - 1)]
    BY <1>6
  <2> HIDE DEF back
  <2> QED BY <1>7, <2>1 DEF Injection, IsInjective
<1>10. IsFiniteSet(0..(MaxRetained - 1)) /\ Cardinality(0..(MaxRetained - 1)) = MaxRetained
  BY <1>1, Counting
<1>11. Cardinality(kept) <= MaxRetained
  <2> HIDE DEF kept, back
  <2> QED BY <1>9, <1>10, FS_Injection
<1> QED BY <1>8, <1>11

(* Members stay, and none has ended that had not.                           *)
LEMMA OrderUntouched ==
  ASSUME Listed, FewEnded, UNCHANGED order, DOMAIN roster' = Members,
         \A n \in Members : roster'[n].at = "ended" => roster[n].at = "ended"
  PROVE  Listed' /\ FewEnded'
<1>1. Listed'
  BY DEF Listed, Members
<1> DEFINE before == EndedIn(roster)
           after == {n \in DOMAIN roster' : roster'[n].at = "ended"}
<1>2. IsFiniteSet(before) /\ after \in SUBSET before
  BY MembersCounted DEF EndedIn, Members
<1>3. Cardinality(before) \in Nat /\ Cardinality(after) \in Nat
      /\ Cardinality(after) <= Cardinality(before)
  <2> HIDE DEF before, after
  <2> QED BY <1>2, FS_Subset, FS_CardinalityType
<1>4. Cardinality(after) <= MaxRetained
  <2>1. Cardinality(before) <= MaxRetained /\ MaxRetained \in Nat
    BY BoundsAssumption DEF FewEnded
  <2> HIDE DEF before, after
  <2> QED BY <1>3, <2>1
<1> QED BY <1>1, <1>4 DEF FewEnded, EndedIn, Members

(* What a teammate does for itself does not end it.                         *)
LEMMA OwnEnds ==
  ASSUME Typed, NEW n \in Names,
         \/ RunEnds(n) \/ RunFails(n) \/ Poll(n) \/ Review(n) \/ SubmitPlan(n)
         \/ ReadFails(n) \/ (n = reader /\ Requeue)
         \/ \E mode \in {"plan", "exec"}, approval \in BOOLEAN : Spawn(n, mode, approval)
         \/ \E yes \in BOOLEAN : RespondToPlan(n, yes)
  PROVE  /\ DOMAIN roster' = Members /\ \A m \in Members \ {n} : roster'[m] = roster[m]
         /\ roster'[n].at \in Running \/ roster'[n].at = roster[n].at
<1>1. n \in Members /\ roster[n] \in Member
  BY OwnChange
<1>2. CASE UNCHANGED roster
  BY <1>2 DEF Members
<1>3. CASE Leave(n)
  <2> DEFINE left ==
        [[[roster[n] EXCEPT !.at = "leaving"] EXCEPT !.active = FALSE] EXCEPT !.pending = 0]
  <2>1. roster' = [roster EXCEPT ![n] = left]
    BY <1>1, <1>3 DEF Leave, Members
  <2>2. left.at \in Running
    BY <1>1 DEF Member, Running
  <2> HIDE DEF left
  <2> QED BY <1>1, <2>1, <2>2 DEF Members
<1>4. ASSUME NEW member, roster' = [roster EXCEPT ![n] = member],
             member.at \in Running \/ member.at = roster[n].at
      PROVE  /\ DOMAIN roster' = Members /\ \A m \in Members \ {n} : roster'[m] = roster[m]
             /\ roster'[n].at \in Running \/ roster'[n].at = roster[n].at
  BY <1>1, <1>4 DEF Members
<1> QED BY <1>2, <1>3, <1>4, OwnChange

(* Those that ended long ago go.                                            *)
LEMMA OrderPruned ==
  ASSUME Listed, NEW table, Prune(table)
  PROVE  Listed' /\ FewEnded'
<1>1. DOMAIN roster' = Members \ Old(table)
      /\ \A n \in Members \ Old(table) : roster'[n] = table[n]
  BY DEF Prune
<1>2. order' = Without(Old(table))
  BY DEF Prune
<1>3. /\ order' \in Seq(Names)
      /\ \A n : n \in ToSet(order') <=> n \in Members \ Old(table)
      /\ \A i, j \in DOMAIN order' : order'[i] = order'[j] => i = j
  BY <1>2, OthersListed
<1>4. ToSet(order') = DOMAIN roster'
  BY <1>1, <1>3
<1>5. Listed'
  BY <1>3, <1>4 DEF Listed, Members, ToSet
<1> DEFINE after == {n \in DOMAIN roster' : roster'[n].at = "ended"}
<1>6. after = EndedIn(table) \ Old(table)
  BY <1>1 DEF EndedIn
<1>7. Cardinality(after) <= MaxRetained
  BY <1>6, FewLeft
<1> QED BY <1>5, <1>7 DEF FewEnded, EndedIn, Members

(* Only a member that runs changes its state itself.                        *)
LEMMA OwnStays ==
  ASSUME Typed, NEW n \in Names,
         \/ RunEnds(n) \/ RunFails(n) \/ Poll(n) \/ Review(n) \/ SubmitPlan(n)
         \/ ReadFails(n) \/ (n = reader /\ Requeue)
         \/ \E yes \in BOOLEAN : RespondToPlan(n, yes)
  PROVE  roster[n].at \in Running \/ roster'[n].at = roster[n].at
<1>1. CASE \/ RunEnds(n) \/ RunFails(n) \/ Poll(n) \/ Review(n) \/ SubmitPlan(n)
           \/ ReadFails(n) \/ (n = reader /\ Requeue)
  BY <1>1 DEF RunEnds, RunFails, Poll, Review, SubmitPlan, ReadFails, Requeue, ReaderThere, Typed,
              At, Running
<1>2. ASSUME NEW yes \in BOOLEAN, RespondToPlan(n, yes) PROVE roster'[n].at = roster[n].at
  <2>1. n \in Members /\ roster[n] \in Member
        /\ roster' = [roster EXCEPT ![n] = [roster[n] EXCEPT !.responded = TRUE]]
    BY <1>2 DEF RespondToPlan, Typed, Types, MemberTypes
  <2>2. roster'[n] = [roster[n] EXCEPT !.responded = TRUE]
    BY <2>1 DEF Members
  <2> QED BY <2>1, <2>2 DEF Member
<1> QED BY <1>1, <1>2

(* No step breaks the order, or keeps more than it should of those that     *)
(* have ended.                                                              *)
LEMMA OrderStep ==
  ASSUME Typed, Listed, FewEnded, [Next]_vars
  PROVE  Listed' /\ FewEnded'
<1> \A n \in Members : roster[n] \in Member /\ n \in Names
  BY DEF Typed, Types, MemberTypes
<1>1. ASSUME NEW n \in Names, Reserve(n) PROVE Listed' /\ FewEnded'
  <2>1. n \notin Members /\ order' = Append(order, n)
        /\ roster' = [m \in Members \cup {n} |-> IF m = n THEN Reserved ELSE roster[m]]
    BY <1>1 DEF Reserve
  <2>2. DOMAIN order = 1..Len(order) /\ Len(order) \in Nat /\ order \in Seq(Names)
    BY DEF Listed
  <2>3. /\ DOMAIN order' = 1..(Len(order) + 1) /\ order' \in Seq(Names)
        /\ \A i \in 1..Len(order) : order'[i] = order[i]
        /\ order'[Len(order) + 1] = n
    BY <2>1, <2>2
  <2>4. \A m : m \in ToSet(order) <=> \E i \in 1..Len(order) : order[i] = m
    BY <2>2 DEF ToSet
  <2>5. \A m : m \in ToSet(order') <=> m \in Members \cup {n}
    <3>1. \A m : m \in ToSet(order') <=> \E i \in 1..(Len(order) + 1) : order'[i] = m
      BY <2>3 DEF ToSet
    <3>2. \A i \in 1..(Len(order) + 1) : i \in 1..Len(order) \/ i = Len(order) + 1
      BY <2>2
    <3>3. \A i \in 1..Len(order) : i \in 1..(Len(order) + 1)
      BY <2>2
    <3>4. Len(order) + 1 \in 1..(Len(order) + 1)
      BY <2>2
    <3>5. ToSet(order) = Members
      BY DEF Listed
    <3> QED BY <2>3, <2>4, <3>1, <3>2, <3>3, <3>4, <3>5
  <2>6. ToSet(order') = DOMAIN roster'
    BY <2>1, <2>5
  <2>7. \A i, j \in 1..(Len(order) + 1) : order'[i] = order'[j] => i = j
    <3>1. \A i \in 1..Len(order) : order[i] # n
      BY <2>1, <2>4 DEF Listed
    <3>2. \A i \in 1..(Len(order) + 1) : i \in 1..Len(order) \/ i = Len(order) + 1
      BY <2>2
    <3>3. \A i, j \in 1..Len(order) : order[i] = order[j] => i = j
      BY <2>2 DEF Listed
    <3> QED BY <2>3, <3>1, <3>2, <3>3
  <2>8. Listed'
    BY <2>3, <2>6, <2>7 DEF Listed, Members, ToSet
  <2>9. {m \in DOMAIN roster' : roster'[m].at = "ended"} = EndedIn(roster)
    BY <2>1 DEF EndedIn, Reserved
  <2> QED BY <2>8, <2>9 DEF FewEnded, EndedIn, Members
<1>2. ASSUME NEW n \in Names, Abandon(n) PROVE Listed' /\ FewEnded'
  <2>1. DOMAIN roster' = Members \ {n}
        /\ \A m \in Members \ {n} : roster'[m] = roster[m]
    BY <1>2 DEF Abandon
  <2>2. order' = Without({n})
    BY <1>2 DEF Abandon
  <2>3. /\ order' \in Seq(Names)
        /\ \A m : m \in ToSet(order') <=> m \in Members \ {n}
        /\ \A i, j \in DOMAIN order' : order'[i] = order'[j] => i = j
    <3> DEFINE gone == {n}
    <3> HIDE DEF gone
    <3>1. order' = Without(gone)
      BY <2>2 DEF gone
    <3>2. /\ order' \in Seq(Names)
          /\ \A m : m \in ToSet(order') <=> m \in Members \ gone
          /\ \A i, j \in DOMAIN order' : order'[i] = order'[j] => i = j
      BY <3>1, OthersListed
    <3> QED BY <3>2 DEF gone
  <2>4. ToSet(order') = DOMAIN roster'
    BY <2>1, <2>3
  <2>5. Listed'
    BY <2>3, <2>4 DEF Listed, Members, ToSet
  <2>6. roster[n].at # "ended"
    BY <1>2 DEF Abandon, At
  <2>7. {m \in DOMAIN roster' : roster'[m].at = "ended"} = EndedIn(roster)
    BY <2>1, <2>6 DEF EndedIn
  <2> QED BY <2>5, <2>7 DEF FewEnded, EndedIn, Members
<1>3. ASSUME NEW n \in Names,
             \/ SendMessage(n) \/ SendShutdown(n)
             \/ \E t \in Tasks : Assign(t, n) \/ Claim(n, t) \/ Complete(n, t)
      PROVE  UNCHANGED <<order, roster>>
  BY <1>3 DEF SendMessage, SendShutdown, Assign, Claim, Complete, Accept
<1>4. ASSUME UNCHANGED <<order, roster>> PROVE Listed' /\ FewEnded'
  BY <1>4 DEF Listed, FewEnded, EndedIn, Members
<1>5. ASSUME NEW n \in Names,
             \/ RunEnds(n) \/ RunFails(n) \/ Poll(n) \/ Review(n) \/ SubmitPlan(n)
             \/ ReadFails(n) \/ (n = reader /\ Requeue)
             \/ \E mode \in {"plan", "exec"}, approval \in BOOLEAN : Spawn(n, mode, approval)
             \/ \E yes \in BOOLEAN : RespondToPlan(n, yes)
      PROVE  Listed' /\ FewEnded'
  <2>1. UNCHANGED order /\ n \in Members
    BY <1>5, OwnChange DEF RunEnds, RunFails, Poll, Review, SubmitPlan, ReadFails, Requeue, Spawn,
                           RespondToPlan
  <2>2. /\ DOMAIN roster' = Members /\ \A m \in Members \ {n} : roster'[m] = roster[m]
        /\ roster'[n].at \in Running \/ roster'[n].at = roster[n].at
    BY <1>5, OwnEnds
  <2>3. \A place \in Running : place # "ended"
    BY DEF Running
  <2>4. DOMAIN roster' = Members
        /\ \A m \in Members : roster'[m].at = "ended" => roster[m].at = "ended"
    BY <2>1, <2>2, <2>3
  <2> QED BY <2>1, <2>2, <2>4, OrderUntouched
<1>6. ASSUME NEW n \in Names, Finish(n) PROVE Listed' /\ FewEnded'
  BY <1>6, OrderPruned DEF Finish
<1>7. ASSUME NEW names, StopThese(names) PROVE Listed' /\ FewEnded'
  <2>1. UNCHANGED order /\ DOMAIN roster' = Members
        /\ \A m \in Members : roster'[m] \in {roster[m], Stopped(roster[m])}
    BY <1>7 DEF StopThese, Members
  <2>2. \A m \in Members : Stopped(roster[m]).at = roster[m].at
    BY DEF Stopped, Member
  <2> QED BY <2>1, <2>2, OrderUntouched
<1>8. CASE Deleted
  <2>1. order' = <<>> /\ DOMAIN roster' = {}
    BY <1>8 DEF Deleted
  <2>2. {m \in DOMAIN roster' : roster'[m].at = "ended"} = {}
    BY <2>1
  <2>3. Cardinality({}) <= MaxRetained
    BY FS_EmptySet, BoundsAssumption
  <2>4. ToSet(order') = {} /\ order' \in Seq(Names)
    BY <2>1 DEF ToSet
  <2> QED BY <2>1, <2>2, <2>3, <2>4 DEF Listed, FewEnded, EndedIn, Members, ToSet
<1>9. CASE Restart
  BY <1>9, OrderPruned DEF Restart
<1>10. CASE UNCHANGED vars
  BY <1>4, <1>10 DEF vars
<1>11. CASE Requeue
  BY <1>5, <1>11 DEF Requeue, Typed, ReaderThere
<1> QED
  BY <1>1, <1>2, <1>3, <1>4, <1>5, <1>6, <1>7, <1>8, <1>9, <1>10, <1>11
  DEF Next, Turn, Stop, StopAll, Delete
-----------------------------------------------------------------------------
LivesInv ==
  /\ lives \in [Names -> [started : Nat, reported : Nat, dead : Nat]]
  /\ ToldOnce

(* Nobody begins or ends.                                                   *)
LEMMA LivesUntouched ==
  ASSUME LivesInv, UNCHANGED lives, \A n \in Names : Live(n)' <=> Live(n)
  PROVE  LivesInv'
BY DEF LivesInv, ToldOnce

(* A runtime begins, or ends and is reported, or ends with the process.     *)
LEMMA LivesCounted ==
  ASSUME LivesInv, DOMAIN lives' = Names,
         \A n \in Names :
           /\ lives'[n] \in [started : Nat, reported : Nat, dead : Nat]
           /\ lives'[n].started + (lives[n].reported + lives[n].dead + IF Live(n) THEN 1 ELSE 0)
                = lives[n].started
                  + (lives'[n].reported + lives'[n].dead + IF Live(n)' THEN 1 ELSE 0),
         lives' = [n \in Names |-> lives'[n]]
  PROVE  LivesInv'
<1>1. ASSUME NEW n \in Names
      PROVE  lives'[n].started = lives'[n].reported + lives'[n].dead
                                 + IF Live(n)' THEN 1 ELSE 0
  <2> DEFINE before == IF Live(n) THEN 1 ELSE 0
             after == IF Live(n)' THEN 1 ELSE 0
  <2>1. before \in Nat /\ after \in Nat
    OBVIOUS
  <2>2. /\ lives[n].started \in Nat /\ lives[n].reported \in Nat /\ lives[n].dead \in Nat
        /\ lives'[n].started \in Nat /\ lives'[n].reported \in Nat /\ lives'[n].dead \in Nat
    BY DEF LivesInv
  <2>3. lives[n].started = lives[n].reported + lives[n].dead + before
    BY DEF LivesInv, ToldOnce
  <2>4. lives'[n].started + (lives[n].reported + lives[n].dead + before)
          = lives[n].started + (lives'[n].reported + lives'[n].dead + after)
    OBVIOUS
  <2> HIDE DEF before, after
  <2>5. lives'[n].started = lives'[n].reported + lives'[n].dead + after
    BY <2>1, <2>2, <2>3, <2>4
  <2> QED BY <2>5 DEF after
<1>2. lives' \in [Names -> [started : Nat, reported : Nat, dead : Nat]]
  OBVIOUS
<1> QED BY <1>1, <1>2 DEF LivesInv, ToldOnce

LEMMA LivesStep ==
  ASSUME Typed, LivesInv, [Next]_vars
  PROVE  LivesInv'
<1> USE DEF LivesInv
<1> \A n \in Members : roster[n] \in Member /\ n \in Names
  BY DEF Typed, Types, MemberTypes
<1>1. ASSUME NEW n \in Names, Reserve(n) \/ Abandon(n) PROVE LivesInv'
  <2>1. UNCHANGED lives
    BY <1>1 DEF Reserve, Abandon
  <2>2. \A m \in Names : Live(m)' <=> Live(m)
    BY <1>1 DEF Reserve, Abandon, Reserved, Live, At, Members
  <2> QED BY <2>1, <2>2, LivesUntouched
<1>2. ASSUME NEW n \in Names,
             \/ SendMessage(n) \/ SendShutdown(n)
             \/ \E t \in Tasks : Assign(t, n) \/ Claim(n, t) \/ Complete(n, t)
      PROVE  LivesInv'
  <2>1. UNCHANGED <<lives, roster>>
    BY <1>2 DEF SendMessage, SendShutdown, Assign, Claim, Complete, Accept, history
  <2>2. \A m \in Names : Live(m)' <=> Live(m)
    BY <2>1 DEF Live, At, Members
  <2> QED BY <2>1, <2>2, LivesUntouched
<1>3. ASSUME NEW n \in Names, NEW mode \in {"plan", "exec"}, NEW approval \in BOOLEAN,
             Spawn(n, mode, approval)
      PROVE  LivesInv'
  <2>1. roster[n].at = "reserved" /\ n \in Members
        /\ lives' = [lives EXCEPT ![n].started = @ + 1]
    BY <1>3 DEF Spawn, At
  <2>2. DOMAIN roster' = Members /\ \A m \in Members \ {n} : roster'[m] = roster[m]
    BY <1>3 DEF Spawn, Members
  <2>3. roster'[n].at = "working"
    BY <1>3, <2>1 DEF Spawn, Reserved, Members
  <2>4. ~Live(n) /\ Live(n)' /\ \A m \in Names \ {n} : Live(m)' <=> Live(m)
    BY <2>1, <2>2, <2>3 DEF Live, At, Members
  <2>5. /\ lives'[n] = [lives[n] EXCEPT !.started = @ + 1]
        /\ \A m \in Names \ {n} : lives'[m] = lives[m]
        /\ lives' = [m \in Names |-> lives'[m]]
    BY <2>1
  <2>6. /\ lives'[n] \in [started : Nat, reported : Nat, dead : Nat]
        /\ lives'[n].started = lives[n].started + 1
        /\ lives'[n].reported = lives[n].reported /\ lives'[n].dead = lives[n].dead
    BY <2>5
  <2>7. \A m \in Names : /\ lives[m].started \in Nat /\ lives[m].reported \in Nat
                         /\ lives[m].dead \in Nat
    OBVIOUS
  <2>8. \A m \in Names :
           /\ lives'[m] \in [started : Nat, reported : Nat, dead : Nat]
           /\ lives'[m].started + (lives[m].reported + lives[m].dead + IF Live(m) THEN 1 ELSE 0)
                = lives[m].started
                  + (lives'[m].reported + lives'[m].dead + IF Live(m)' THEN 1 ELSE 0)
    BY <2>4, <2>5, <2>6, <2>7
  <2> QED BY <2>5, <2>8, LivesCounted
<1>4. ASSUME NEW n \in Names,
             \/ RunEnds(n) \/ RunFails(n) \/ Poll(n) \/ Review(n) \/ SubmitPlan(n)
             \/ ReadFails(n) \/ (n = reader /\ Requeue)
             \/ \E yes \in BOOLEAN : RespondToPlan(n, yes)
      PROVE  LivesInv'
  <2>1. UNCHANGED lives
    BY <1>4 DEF RunEnds, RunFails, Poll, Review, SubmitPlan, ReadFails, Requeue, RespondToPlan,
                history
  <2>2. /\ DOMAIN roster' = Members /\ \A m \in Members \ {n} : roster'[m] = roster[m]
        /\ (roster'[n].at \in Running \/ roster'[n].at = roster[n].at) /\ n \in Members
    BY <1>4, OwnEnds, OwnChange
  <2>3. roster[n].at \in Running \/ roster'[n].at = roster[n].at
    BY <1>4, OwnStays
  <2>4. \A m \in Names : Live(m)' <=> Live(m)
    BY <2>2, <2>3 DEF Live, At, Members, Running
  <2> QED BY <2>1, <2>4, LivesUntouched
<1>5. ASSUME NEW n \in Names, Finish(n) PROVE LivesInv'
  <2> DEFINE table == [roster EXCEPT ![n] = Hydrated]
  <2>1. /\ roster[n].at = "leaving" /\ n \in Members
        /\ lives' = [lives EXCEPT ![n].reported = @ + 1]
        /\ roster' = [m \in Members \ Old(table) |-> table[m]]
    BY <1>5 DEF Finish, Prune, At
  <2>2. \A m \in Old(table) : table[m].at = "ended"
    BY OldEnded
  <2>3. table[n].at = "ended" /\ \A m \in Members \ {n} : table[m] = roster[m]
    BY <2>1 DEF Members, Hydrated, Reserved
  <2> HIDE DEF table
  <2>4. Live(n) /\ ~Live(n)' /\ \A m \in Names \ {n} : Live(m)' <=> Live(m)
    BY <2>1, <2>2, <2>3 DEF Live, At, Members
  <2>5. /\ lives'[n] = [lives[n] EXCEPT !.reported = @ + 1]
        /\ \A m \in Names \ {n} : lives'[m] = lives[m]
        /\ lives' = [m \in Names |-> lives'[m]]
    BY <2>1
  <2>6. /\ lives'[n] \in [started : Nat, reported : Nat, dead : Nat]
        /\ lives'[n].reported = lives[n].reported + 1
        /\ lives'[n].started = lives[n].started /\ lives'[n].dead = lives[n].dead
    BY <2>5
  <2>7. \A m \in Names : /\ lives[m].started \in Nat /\ lives[m].reported \in Nat
                         /\ lives[m].dead \in Nat
    OBVIOUS
  <2>8. \A m \in Names :
           /\ lives'[m] \in [started : Nat, reported : Nat, dead : Nat]
           /\ lives'[m].started + (lives[m].reported + lives[m].dead + IF Live(m) THEN 1 ELSE 0)
                = lives[m].started
                  + (lives'[m].reported + lives'[m].dead + IF Live(m)' THEN 1 ELSE 0)
    BY <2>4, <2>5, <2>6, <2>7
  <2> QED BY <2>5, <2>8, LivesCounted
<1>6. ASSUME NEW names, StopThese(names), UNCHANGED lives PROVE LivesInv'
  <2>1. DOMAIN roster' = Members
        /\ \A m \in Members : roster'[m] \in {roster[m], Stopped(roster[m])}
    BY <1>6 DEF StopThese, Members
  <2>2. \A m \in Members : Stopped(roster[m]).at = roster[m].at
    BY DEF Stopped, Member
  <2>3. \A m \in Names : Live(m)' <=> Live(m)
    BY <2>1, <2>2 DEF Live, At, Members
  <2> QED BY <1>6, <2>3, LivesUntouched
<1>7. CASE StopAll \/ Delete \/ \E n \in Names : Stop(n)
  BY <1>6, <1>7 DEF Stop, StopAll, Delete, StopThese, history
<1>8. CASE Deleted
  <2>1. lives' = NoLives /\ DOMAIN roster' = {}
    BY <1>8 DEF Deleted
  <2>2. \A m \in Names : ~Live(m)'
    BY <2>1 DEF Live, At, Members
  <2> QED BY <2>1, <2>2 DEF ToldOnce, NoLives
<1>9. CASE Restart
  <2>1. /\ lives' = [n \in Names |-> IF Live(n) THEN [lives[n] EXCEPT !.dead = @ + 1] ELSE lives[n]]
        /\ \A m \in DOMAIN roster' : roster'[m] = Hydrated
    BY <1>9 DEF Restart, Prune
  <2>2. \A m \in Names : ~Live(m)'
    BY <2>1 DEF Live, At, Members, Hydrated, Reserved
  <2>3. \A m \in Names : /\ lives[m].started \in Nat /\ lives[m].reported \in Nat
                         /\ lives[m].dead \in Nat
                         /\ lives[m] \in [started : Nat, reported : Nat, dead : Nat]
    OBVIOUS
  <2>4. ASSUME NEW m \in Names, Live(m)
        PROVE  /\ lives'[m] \in [started : Nat, reported : Nat, dead : Nat]
               /\ lives'[m].reported = lives[m].reported
               /\ lives'[m].started = lives[m].started /\ lives'[m].dead = lives[m].dead + 1
    BY <2>1, <2>3, <2>4
  <2>5. ASSUME NEW m \in Names, ~Live(m) PROVE lives'[m] = lives[m]
    BY <2>1, <2>5
  <2>6. \A m \in Names :
           /\ lives'[m] \in [started : Nat, reported : Nat, dead : Nat]
           /\ lives'[m].started + (lives[m].reported + lives[m].dead + IF Live(m) THEN 1 ELSE 0)
                = lives[m].started
                  + (lives'[m].reported + lives'[m].dead + IF Live(m)' THEN 1 ELSE 0)
    BY <2>2, <2>3, <2>4, <2>5
  <2>7. lives' = [m \in Names |-> lives'[m]]
    BY <2>1
  <2> QED BY <2>6, <2>7, LivesCounted
<1>10. CASE UNCHANGED vars
  <2>1. UNCHANGED <<lives, roster>>
    BY <1>10 DEF vars, history
  <2>2. \A m \in Names : Live(m)' <=> Live(m)
    BY <2>1 DEF Live, At, Members
  <2> QED BY <2>1, <2>2, LivesUntouched
<1>11. CASE Requeue
  BY <1>4, <1>11 DEF Requeue, Typed, ReaderThere
<1> QED BY <1>1, <1>2, <1>3, <1>4, <1>5, <1>7, <1>8, <1>9, <1>10, <1>11 DEF Next, Turn
-----------------------------------------------------------------------------
Bounded == events \in 0..MaxEvents /\ deleting \in BOOLEAN

LEMMA BoundedStep ==
  ASSUME Bounded, [Next]_vars
  PROVE  Bounded'
<1>1. events' = events \/ Event
  BY DEF Next, Turn, Reserve, Abandon, SendMessage, SendShutdown, Accept, Stop, Spawn, RespondToPlan,
         Assign, Claim, Complete, SubmitPlan, RunEnds, RunFails, Poll, Review, ReadFails, Finish,
         StopAll, Delete, Deleted, Requeue, Restart, StopThese, vars
<1>2. deleting' = deleting \/ deleting' \in BOOLEAN
  BY DEF Next, Turn, Reserve, Abandon, SendMessage, SendShutdown, Accept, Stop, Spawn, RespondToPlan,
         Assign, Claim, Complete, SubmitPlan, RunEnds, RunFails, Poll, Review, ReadFails, Finish,
         StopAll, Delete, Deleted, Requeue, Restart, StopThese, vars
<1> QED BY <1>1, <1>2, BoundsAssumption DEF Bounded, Event

TeamInv ==
  /\ Typed /\ MailTyped /\ AllHeard /\ HeldHere /\ HeldKnown /\ GateInv
  /\ Listed /\ FewEnded /\ LivesInv /\ Bounded

LEMMA TeamInvStep ==
  ASSUME TeamInv, [Next]_vars
  PROVE  TeamInv'
BY TypedKept, MailStep, HeldStep, HeldKnownStep, GateStep, OrderStep, LivesStep, BoundedStep
DEF TeamInv

LEMMA TeamInvInit ==
  ASSUME Init
  PROVE  TeamInv
<1>1. Typed
  BY BoundsAssumption DEF Init, Typed, Types, ReaderThere, MemberTypes, BoardTypes, Members
<1>2. MailTyped
  BY DEF Init, MailTyped, Empty, NothingLost
<1>3. AllHeard
  <2>1. <<>> \in Seq(Mail)
    OBVIOUS
  <2>2. Texts(<<>>) = <<>>
    BY <2>1, TextsOfParts, TextNumbers
  <2>3. ASSUME NEW n \in Names PROVE Tally(Accounted(n), sent[n], lost[n])
    <3>1. box[n] = <<>> /\ heard[n] = <<>> /\ sent[n] = 0 /\ lost[n] = {} /\ held = <<>>
      BY DEF Init, Empty, NothingLost
    <3>2. Accounted(n) = <<>>
      BY <2>2, <3>1 DEF Accounted, InHand
    <3> QED BY <3>1, <3>2, TallyNone
  <2> QED BY <2>3 DEF AllHeard
<1>4. GateInv
  BY DEF Init, GateInv, PlansBelow, AnswersKnown, GateHeld, DecisionHeld, Members, Empty
<1>5. Listed
  BY DEF Init, Listed, ToSet, Members
<1>6. FewEnded
  <2>1. EndedIn(roster) = {}
    BY DEF Init, EndedIn, Members
  <2> QED BY <2>1, FS_EmptySet, BoundsAssumption DEF FewEnded
<1>7. LivesInv
  BY DEF Init, LivesInv, NoLives, ToldOnce, Live, At, Members
<1>8. Bounded
  <2>1. 0 \in 0..MaxEvents
    BY BoundsAssumption
  <2>2. events = 0 /\ deleting = FALSE
    BY DEF Init
  <2> QED BY <2>1, <2>2 DEF Bounded
<1>9. HeldHere /\ HeldKnown
  BY DEF Init, HeldHere, HeldKnown
<1> QED BY <1>1, <1>2, <1>3, <1>4, <1>5, <1>6, <1>7, <1>8, <1>9 DEF TeamInv

LEMMA AlwaysTeamInv == Spec => []TeamInv
<1> QED BY TeamInvInit, TeamInvStep, PTL DEF Spec

(* For any number of teammates, plans and answers: what a teammate whose     *)
(* plans are reviewed executes is the plan it submitted last, approved by    *)
(* the leader, and no answer to a plan that waits is lost.                  *)
THEOREM PlansAreApproved == Spec => []GateHeld
<1>1. TeamInv => GateHeld
  BY DEF TeamInv, GateInv
<1> QED BY <1>1, AlwaysTeamInv, PTL

(* For any number of teammates and messages, and whatever ends a teammate:   *)
(* each message accepted for it was read by it once and in order, or is      *)
(* unread, or was read with a shutdown request and could not be put back;    *)
(* and each end was reported once.                                          *)
THEOREM NothingIsLost == Spec => []Conserved
<1>1. TeamInv => Conserved
  <2> SUFFICES ASSUME TeamInv PROVE Conserved
    OBVIOUS
  <2>1. ToSet(order) = Members /\ Len(order) = Cardinality(Members)
    BY MembersCounted DEF TeamInv, Listed
  <2>2. Cardinality({n \in Members : roster[n].at = "ended"}) <= MaxRetained
    BY DEF TeamInv, FewEnded, EndedIn
  <2>3. \A n \in Names : \A i \in DOMAIN box[n] :
          box[n][i] \in [kind : {"text", "shutdown"} \cup Answers, id : Nat]
    <3>1. \A n \in Names : \A i \in DOMAIN box[n] : box[n][i] \in Mail
      BY DEF TeamInv, MailTyped
    <3> QED BY <3>1 DEF Mail
  <2>4. TypeOK
    BY <2>1, <2>2, <2>3 DEF TeamInv, Typed, Types, ReaderThere, Bounded, TypeOK
  <2> QED BY <2>4 DEF TeamInv, LivesInv, AllHeard, Tally, Conserved
<1> QED BY <1>1, AlwaysTeamInv, PTL
=============================================================================
