--------------------------- MODULE FileLockProofs ---------------------------
(***************************************************************************)
(* The bakery of FileLock is correct for any finite number of contenders  *)
(* and processes, with crashes, failing file operations and reclaim: proved*)
(* with TLAPS.                                                             *)
(***************************************************************************)
EXTENDS FileLock, TLAPS

(* Both entries of a contender are entries. *)
LEMMA EntryOf ==
  ASSUME NEW c \in Contenders
  PROVE  <<"choosing", c>> \in Entries /\ <<"ticket", c>> \in Entries
BY DEF Entries

(* Removing entries from the directory keeps it a directory of entries. *)
LEMMA UnlinkType ==
  ASSUME TypeOK, NEW gone, Unlink(gone)
  PROVE  /\ choosing' \subseteq choosing
         /\ choosing' \subseteq Contenders
         /\ ticket' \in [Contenders -> Nat]
         /\ blank' \subseteq Entries
         /\ old' \subseteq Entries
BY DEF TypeOK, Unlink

(* A half-written entry is an entry of the contender that was writing it. *)
LEMMA HalfWrittenType ==
  ASSUME TypeOK, NEW c \in Contenders, HalfWritten(c)
  PROVE  /\ blank' \subseteq Entries
         /\ choosing' \subseteq Contenders
         /\ ticket' \in [Contenders -> Nat]
<1>1. blank' \subseteq blank \cup {<<"choosing", c>>, <<"ticket", c>>}
  BY DEF HalfWritten
<1>2. blank' \subseteq Entries
  BY <1>1, EntryOf DEF TypeOK
<1> QED
  BY <1>2 DEF HalfWritten, TypeOK

(* Where each contender goes on when it cannot remove an entry. *)
LEMMA RemovalGoesOn ==
  /\ DOMAIN AfterRemoval = {"undoChoosing", "undoTicket", "giveUp", "giveUpAgain", "held"}
  /\ AfterRemoval["undoChoosing"] = "undoTicket"
  /\ AfterRemoval["undoTicket"] = "rejected"
  /\ AfterRemoval["giveUp"] = "giveUpAgain"
  /\ AfterRemoval["giveUpAgain"] = "rejected"
  /\ AfterRemoval["held"] = "unreleased"
BY DEF AfterRemoval

(* The type invariant of FileLock holds in every reachable state. *)
THEOREM TypeCorrect == Spec => []TypeOK
<1> USE ProcsAssumption
<1>1. Init => TypeOK
  <2> SUFFICES ASSUME Init PROVE TypeOK
    OBVIOUS
  <2>1. pc \in [Contenders -> PCs]
    BY DEF Init, PCs
  <2> QED
    BY <2>1 DEF Init, TypeOK
<1>2. TypeOK /\ [Next]_vars => TypeOK'
  <2> SUFFICES ASSUME TypeOK, [Next]_vars PROVE TypeOK'
    OBVIOUS
  <2> USE DEF PCs, Active, Returned, dirVars, procVars, locals, At, Goto
  <2>1. ASSUME NEW c \in Contenders, Call(c) PROVE TypeOK'
    BY <2>1 DEF Call, TypeOK
  <2>2. ASSUME NEW c \in Contenders, Mkdir(c) \/ Announce(c) \/ WriteTicket(c)
        PROVE TypeOK'
    <3>1. CASE Mkdir(c)
      BY <3>1 DEF Mkdir, TypeOK
    <3>2. CASE Announce(c)
      BY <3>2 DEF Announce, TypeOK
    <3>3. CASE WriteTicket(c)
      BY <3>3 DEF WriteTicket, TypeOK
    <3> QED
      BY <2>2, <3>1, <3>2, <3>3
  <2>3. ASSUME NEW c \in Contenders, ReadNumber(c) PROVE TypeOK'
    <3> PICK n \in {0} \cup {ticket[d] : d \in Contenders} :
             nextNumber' = [nextNumber EXCEPT ![c] = n + 1]
      BY <2>3 DEF ReadNumber
    <3>1. n + 1 \in Nat
      BY DEF TypeOK
    <3> QED
      BY <2>3, <3>1 DEF ReadNumber, TypeOK
  <2>4. ASSUME NEW c \in Contenders,
               \/ Retract(c) \/ UndoChoosing(c) \/ UndoTicket(c) \/ GiveUp(c)
               \/ GiveUpAgain(c) \/ Release(c)
        PROVE TypeOK'
    <3>1. PICK gone : Unlink(gone)
      BY <2>4 DEF Retract, UndoChoosing, UndoTicket, GiveUp, GiveUpAgain, Release
    <3> QED
      BY <2>4, <3>1, UnlinkType
      DEF Retract, UndoChoosing, UndoTicket, GiveUp, GiveUpAgain, Release, TypeOK
  <2>5. ASSUME NEW c \in Contenders, List(c) PROVE TypeOK'
    BY <2>5 DEF List, TypeOK
  <2>6. ASSUME NEW c \in Contenders, Examine(c) PROVE TypeOK'
    <3>1. PICK e : /\ pending' = [pending EXCEPT ![c] = @ \ {e}]
                   /\ \/ Unlink({e})
                      \/ UNCHANGED <<choosing, ticket, blank, old>>
      BY <2>6 DEF Examine
    <3>2. pending' \in [Contenders -> SUBSET Entries]
      BY <3>1 DEF TypeOK
    <3> QED
      BY <2>6, <3>1, <3>2, UnlinkType DEF Examine, TypeOK
  <2>7. ASSUME NEW c \in Contenders, SweepDone(c) \/ Grant(c) \/ Blocked(c) PROVE TypeOK'
    BY <2>7 DEF SweepDone, Grant, Blocked, TypeOK
  <2>8. ASSUME NEW c \in Contenders, GiveUpDir(c) \/ GiveUpAgainDir(c) PROVE TypeOK'
    BY <2>8 DEF GiveUpDir, GiveUpAgainDir, Rmdir, TypeOK
  <2>9. ASSUME NEW c \in Contenders, Close(c) PROVE TypeOK'
    BY <2>9 DEF Close, Rmdir, TypeOK
  <2>10. ASSUME NEW c \in Contenders,
                \/ Deadline(c) \/ AnnounceFails(c) \/ CreateFails(c) \/ ScanFails(c)
                \/ RemoveFails(c)
         PROVE TypeOK'
    <3>1. CASE Deadline(c) \/ ScanFails(c)
      BY <3>1 DEF Deadline, ScanFails, TypeOK
    <3>2. CASE AnnounceFails(c) \/ CreateFails(c)
      BY <3>2, HalfWrittenType, EntryOf DEF AnnounceFails, CreateFails, TypeOK
    <3>3. CASE RemoveFails(c)
      BY <3>3, EntryOf, RemovalGoesOn DEF RemoveFails, TypeOK
    <3> QED
      BY <2>10, <3>1, <3>2, <3>3
  <2>11. ASSUME NEW c \in Contenders, ReleaseAgain(c) PROVE TypeOK'
    BY <2>11 DEF ReleaseAgain, vars, TypeOK
  <2>12. ASSUME NEW p \in Procs, Crash(p) PROVE TypeOK'
    BY <2>12, HalfWrittenType DEF Crash, TypeOK
  <2>13. ASSUME NEW p \in Procs, RecyclePid(p) PROVE TypeOK'
    BY <2>13 DEF RecyclePid, TypeOK
  <2>14. ASSUME NEW e \in Entries, Age(e) PROVE TypeOK'
    BY <2>14 DEF Age, TypeOK
  <2>15. CASE UNCHANGED vars
    BY <2>15 DEF vars, TypeOK
  <2> QED
    BY <2>1, <2>2, <2>3, <2>4, <2>5, <2>6, <2>7, <2>8, <2>9, <2>10, <2>11,
       <2>12, <2>13, <2>14, <2>15 DEF Next, Step
<1> QED
  BY <1>1, <1>2, PTL DEF Spec
-----------------------------------------------------------------------------
(* A contender has no ticket before it writes one; its choosing entry      *)
(* stands until the ticket is written, and the ticket until it is given up.*)
Registered ==
  \A c \in Contenders : ~Dead(c) =>
    /\ pc[c] \in {"idle", "mkdir", "announce", "number", "ticket"} => ticket[c] = 0
    /\ pc[c] \in {"number", "ticket", "retract"} => c \in choosing
    /\ pc[c] = "ticket" => nextNumber[c] > 0
    /\ pc[c] \in {"retract", "list", "sweep", "snapshot", "held", "unreleased"} => ticket[c] # 0

(* Every other ticket, written or computed, comes after the owner's. *)
OwnerFirst ==
  \A c, d \in Contenders : Owns(c) /\ c # d =>
    /\ ticket[d] # 0 => Precedes(c, d)
    /\ pc[d] = "ticket" /\ ~Dead(d) => nextNumber[d] > ticket[c]

(* A ticket that stood when a contender announced itself belongs to        *)
(* another contender, is not written again, and is smaller than its own.   *)
AheadSmaller ==
  \A c \in Contenders : \A d \in ahead[c] :
    /\ c # d
    /\ Dead(d) \/ pc[d] \notin {"idle", "mkdir", "announce", "number", "ticket"}
    /\ ticket[d] # 0 => /\ pc[c] = "ticket" => nextNumber[c] > ticket[d]
                        /\ ticket[c] # 0 => ticket[c] > ticket[d]

Safety == Registered /\ OwnerFirst /\ AheadSmaller

(* What unlinking the entries of one contender does to the directory. *)
LEMMA UnlinkOwn ==
  ASSUME TypeOK, NEW c \in Contenders
  PROVE  /\ Unlink({<<"ticket", c>>}) =>
              choosing' = choosing /\ ticket' = [ticket EXCEPT ![c] = 0]
         /\ Unlink({<<"choosing", c>>}) =>
              choosing' = choosing \ {c} /\ ticket' = ticket
BY DEF TypeOK, Unlink

(* Reclaiming an entry of a dead owner touches nobody who is alive. *)
LEMMA Reclaimed ==
  ASSUME TypeOK, NEW e \in Entries, Unlink({e})
  PROVE  \A c \in Contenders : \/ c = e[2]
                               \/ (c \in choosing' <=> c \in choosing) /\ ticket'[c] = ticket[c]
BY DEF TypeOK, Unlink, Entries

(* The state a contender that did not move and lost no entry relies on. *)
LEMMA SafetyStep ==
  ASSUME TypeOK, Safety, [Next]_vars
  PROVE  Safety'
<1> USE ContendersAssumption, ProcsAssumption DEF At, Goto, Dead, dirVars, procVars, locals
<1>1. ASSUME NEW c \in Contenders,
             \/ Call(c) \/ Mkdir(c) \/ List(c) \/ SweepDone(c) \/ Blocked(c)
             \/ GiveUpDir(c) \/ GiveUpAgainDir(c) \/ Close(c)
             \/ ScanFails(c) \/ RemoveFails(c) \/ Deadline(c)
      PROVE  Safety'
  <2>1. /\ UNCHANGED <<choosing, ticket, nextNumber, ahead, dead>>
        /\ pc' \in [Contenders -> PCs]
        /\ \A d \in Contenders \ {c} : pc'[d] = pc[d]
        /\ \/ pc'[c] = pc[c]
           \/ pc[c] \in {"idle", "mkdir"} /\ pc'[c] \in {"mkdir", "announce", "busy", "rejected"}
           \/ /\ pc[c] \in {"list", "sweep", "snapshot"}
              /\ pc'[c] \in {"list", "sweep", "snapshot", "giveUp", "giveUpAgain"}
           \/ /\ pc[c] \in {"giveUpDir", "giveUpAgainDir", "closing", "undoChoosing",
                              "undoTicket", "giveUp", "giveUpAgain"}
              /\ pc'[c] \in {"giveUpAgain", "busy", "rejected", "released", "undoTicket"}
           \/ pc[c] = "held" /\ pc'[c] = "unreleased"
    BY <1>1, RemovalGoesOn
    DEF Call, Mkdir, List, SweepDone, Blocked, GiveUpDir, GiveUpAgainDir, Close, ScanFails,
        RemoveFails, Deadline, TypeOK, PCs, Active, Returned
  <2>2. Registered'
    BY <2>1 DEF Safety, Registered
  <2>3. OwnerFirst'
    BY <2>1 DEF Safety, OwnerFirst, Owns, Precedes
  <2>4. AheadSmaller'
    BY <2>1 DEF Safety, AheadSmaller, TypeOK
  <2> QED
    BY <2>2, <2>3, <2>4 DEF Safety
<1>2. ASSUME NEW c \in Contenders, Announce(c) PROVE Safety'
  <2>1. Registered'
    BY <1>2 DEF Announce, Safety, Registered, TypeOK
  <2>2. OwnerFirst'
    BY <1>2 DEF Announce, Safety, OwnerFirst, Owns, Precedes, TypeOK
  <2>3. AheadSmaller'
    <3>1. CASE ~dirExists
      BY <1>2, <3>1 DEF Announce, Safety, AheadSmaller, TypeOK
    <3>2. CASE dirExists
      <4>1. /\ UNCHANGED <<ticket, nextNumber, dead>>
            /\ pc[c] = "announce" /\ pc' = [pc EXCEPT ![c] = "number"]
            /\ ahead' = [ahead EXCEPT ![c] = {d \in Contenders : ticket[d] # 0}]
        BY <1>2, <3>2 DEF Announce
      <4>2. ticket[c] = 0
        BY <1>2 DEF Announce, Safety, Registered
      <4>3. \A d \in ahead'[c] : /\ d \in Contenders /\ ticket[d] # 0
                                 /\ c # d
                                 /\ Dead(d) \/ pc[d] \notin {"idle", "mkdir", "announce", "number", "ticket"}
        BY <4>1, <4>2 DEF Safety, Registered, TypeOK
      <4>4. \A b \in Contenders \ {c} : ahead'[b] = ahead[b] /\ ahead[b] \subseteq Contenders
        BY <4>1 DEF TypeOK
      <4> QED
        BY <4>1, <4>2, <4>3, <4>4 DEF Safety, AheadSmaller, TypeOK
    <3> QED
      BY <3>1, <3>2
  <2> QED
    BY <2>1, <2>2, <2>3 DEF Safety
<1>3. ASSUME NEW c \in Contenders, ReadNumber(c) PROVE Safety'
  <2>1. \A d \in Contenders : ticket[d] < nextNumber'[c]
    <3>1. PICK n \in {0} \cup {ticket[d] : d \in Contenders} :
             /\ \A d \in Contenders : ticket[d] <= n
             /\ nextNumber' = [nextNumber EXCEPT ![c] = n + 1]
      BY <1>3 DEF ReadNumber
    <3>2. n \in Nat /\ nextNumber'[c] = n + 1
      BY <3>1 DEF TypeOK
    <3> QED
      BY <3>1, <3>2 DEF TypeOK
  <2>2. /\ UNCHANGED <<choosing, ticket, ahead, dead>>
        /\ pc[c] = "number" /\ pc' = [pc EXCEPT ![c] = "ticket"]
        /\ nextNumber'[c] > 0
        /\ \A d \in Contenders \ {c} : nextNumber'[d] = nextNumber[d]
    BY <1>3, <2>1 DEF ReadNumber, TypeOK
  <2>3. Registered'
    BY <2>2 DEF Safety, Registered, TypeOK
  <2>4. OwnerFirst'
    BY <2>1, <2>2 DEF Safety, OwnerFirst, Owns, Precedes, TypeOK
  <2>5. AheadSmaller'
    BY <2>1, <2>2 DEF Safety, AheadSmaller, Registered, TypeOK
  <2> QED
    BY <2>3, <2>4, <2>5 DEF Safety
<1>4. ASSUME NEW c \in Contenders, WriteTicket(c) \/ CreateFails(c) PROVE Safety'
  <2>1. /\ UNCHANGED <<nextNumber, ahead, dead>>
        /\ choosing' = choosing
        /\ ~Dead(c)
        /\ pc[c] \in {"number", "ticket", "retract"}
        /\ pc' = [pc EXCEPT ![c] = IF WriteTicket(c) THEN "retract" ELSE "undoChoosing"]
        /\ \/ pc[c] = "ticket" /\ ticket' = [ticket EXCEPT ![c] = nextNumber[c]]
           \/ ~WriteTicket(c) /\ ticket' = ticket
    BY <1>4 DEF WriteTicket, CreateFails, HalfWritten, TypeOK
  <2>2. Registered'
    BY <2>1 DEF Safety, Registered, TypeOK
  <2>3. OwnerFirst'
    BY <2>1 DEF Safety, OwnerFirst, Owns, Precedes, TypeOK
  <2>4. AheadSmaller'
    BY <2>1 DEF Safety, AheadSmaller, Registered, TypeOK
  <2> QED
    BY <2>2, <2>3, <2>4 DEF Safety
<1>10. ASSUME NEW c \in Contenders, AnnounceFails(c) PROVE Safety'
  <2>1. /\ UNCHANGED <<ticket, nextNumber, ahead, dead>>
        /\ choosing \subseteq choosing'
        /\ pc[c] \in {"mkdir", "announce"} /\ pc' = [pc EXCEPT ![c] = "rejected"]
    BY <1>10 DEF AnnounceFails, HalfWritten
  <2>2. Registered'
    BY <2>1 DEF Safety, Registered, TypeOK
  <2>3. OwnerFirst'
    BY <2>1 DEF Safety, OwnerFirst, Owns, Precedes, TypeOK
  <2>4. AheadSmaller'
    BY <2>1 DEF Safety, AheadSmaller, TypeOK
  <2> QED
    BY <2>2, <2>3, <2>4 DEF Safety
<1>5. ASSUME NEW c \in Contenders,
             \/ Retract(c) \/ UndoChoosing(c) \/ UndoTicket(c) \/ GiveUp(c)
             \/ GiveUpAgain(c) \/ Release(c)
      PROVE  Safety'
  <2>1. /\ UNCHANGED <<nextNumber, ahead, dead>>
        /\ \/ /\ pc[c] = "retract" /\ pc' = [pc EXCEPT ![c] = "list"]
              /\ choosing' = choosing \ {c} /\ ticket' = ticket
           \/ /\ pc[c] = "undoChoosing" /\ pc' = [pc EXCEPT ![c] = "undoTicket"]
              /\ choosing' = choosing \ {c} /\ ticket' = ticket
           \/ /\ pc[c] \in {"undoTicket", "giveUp", "giveUpAgain", "held"}
              /\ pc' = [pc EXCEPT ![c] = IF pc[c] = "undoTicket" THEN "rejected"
                                         ELSE IF pc[c] = "giveUp" THEN "giveUpDir"
                                         ELSE IF pc[c] = "giveUpAgain" THEN "giveUpAgainDir"
                                         ELSE "closing"]
              /\ choosing' = choosing /\ ticket' = [ticket EXCEPT ![c] = 0]
    BY <1>5, UnlinkOwn DEF Retract, UndoChoosing, UndoTicket, GiveUp, GiveUpAgain, Release
  <2>2. Registered'
    BY <2>1 DEF Safety, Registered, TypeOK
  <2>3. OwnerFirst'
    BY <2>1 DEF Safety, OwnerFirst, Owns, Precedes, TypeOK
  <2>4. AheadSmaller'
    BY <2>1 DEF Safety, AheadSmaller, TypeOK
  <2> QED
    BY <2>2, <2>3, <2>4 DEF Safety
<1>6. ASSUME NEW c \in Contenders, Examine(c) PROVE Safety'
  <2>1. PICK e \in Entries :
          \/ Dead(e[2]) /\ Unlink({e})
          \/ UNCHANGED <<choosing, ticket>>
    <3>1. pending[c] \subseteq Entries
      BY DEF TypeOK
    <3> QED
      BY <1>6, <3>1 DEF Examine, OwnerDead
  <2>2. /\ UNCHANGED <<pc, nextNumber, ahead, dead>>
        /\ ticket' \in [Contenders -> Nat]
    BY <1>6, <2>1, UnlinkType DEF Examine, TypeOK
  <2>3. \A d \in Contenders : /\ ticket'[d] = ticket[d] \/ (Dead(d) /\ ticket'[d] = 0)
                              /\ ~Dead(d) => (d \in choosing' <=> d \in choosing)
    <3>1. CASE UNCHANGED <<choosing, ticket>>
      BY <3>1
    <3>2. CASE Dead(e[2]) /\ Unlink({e})
      <4>1. \A d \in Contenders : ticket'[d] \in {0, ticket[d]}
        BY <3>2 DEF Unlink
      <4> QED
        BY <3>2, <4>1, Reclaimed
    <3> QED
      BY <2>1, <3>1, <3>2
  <2>4. Registered'
    BY <2>2, <2>3 DEF Safety, Registered, TypeOK
  <2>5. OwnerFirst'
    BY <2>2, <2>3 DEF Safety, OwnerFirst, Owns, Precedes, TypeOK
  <2>6. AheadSmaller'
    BY <2>2, <2>3 DEF Safety, AheadSmaller, TypeOK
  <2> QED
    BY <2>4, <2>5, <2>6 DEF Safety
<1>7. ASSUME NEW c \in Contenders, Grant(c) PROVE Safety'
  <2>1. /\ UNCHANGED <<choosing, ticket, nextNumber, ahead, dead>>
        /\ pc[c] = "snapshot" /\ pc' = [pc EXCEPT ![c] = "held"]
        /\ choosing = {} /\ IsFirst(c)
    BY <1>7 DEF Grant, Granted
  <2>2. Registered'
    BY <2>1 DEF Safety, Registered, TypeOK
  <2>3. OwnerFirst'
    BY <2>1 DEF Safety, OwnerFirst, Registered, Owns, Precedes, IsFirst, TypeOK
  <2>4. AheadSmaller'
    BY <2>1 DEF Safety, AheadSmaller, TypeOK
  <2> QED
    BY <2>2, <2>3, <2>4 DEF Safety
<1>8. ASSUME NEW p \in Procs, Crash(p) PROVE Safety'
  <2>1. /\ UNCHANGED <<pc, nextNumber, ahead>>
        /\ p \notin dead /\ dead' = dead \cup {p}
        /\ choosing \subseteq choosing'
    BY <1>8 DEF Crash, HalfWritten
  <2>2. \/ ticket' = ticket
        \/ \E c \in Contenders : /\ ProcOf[c] = p /\ pc[c] = "ticket"
                                 /\ ticket' = [ticket EXCEPT ![c] = nextNumber[c]]
    BY <1>8 DEF Crash, HalfWritten
  <2>3. Registered'
    BY <2>1, <2>2 DEF Safety, Registered, TypeOK
  <2>4. OwnerFirst'
    BY <2>1, <2>2 DEF Safety, Registered, OwnerFirst, Owns, Precedes, TypeOK
  <2>5. AheadSmaller'
    BY <2>1, <2>2 DEF Safety, Registered, AheadSmaller, TypeOK
  <2> QED
    BY <2>3, <2>4, <2>5 DEF Safety
<1>9. ASSUME \/ \E p \in Procs : RecyclePid(p)
             \/ \E e \in Entries : Age(e)
             \/ \E c \in Contenders : ReleaseAgain(c)
             \/ UNCHANGED vars
      PROVE  Safety'
  <2>1. UNCHANGED <<pc, choosing, ticket, nextNumber, ahead, dead>>
    BY <1>9 DEF RecyclePid, Age, ReleaseAgain, vars
  <2> QED
    BY <2>1 DEF Safety, Registered, OwnerFirst, AheadSmaller, Owns, Precedes
<1> QED
  BY <1>1, <1>2, <1>3, <1>4, <1>5, <1>6, <1>7, <1>8, <1>9, <1>10 DEF Next, Step

(* Registration, the order of owners and the order of arrivals are         *)
(* invariants of the lock: the strengthening the theorems below rest on.   *)
THEOREM SafetyCorrect == Spec => []Safety
<1>1. Init => Safety
  BY DEF Init, Safety, Registered, OwnerFirst, AheadSmaller, Owns
<1> QED
  BY <1>1, SafetyStep, TypeCorrect, PTL DEF Spec
-----------------------------------------------------------------------------
(* Two owners would each come first. *)
LEMMA AtMostOneOwner ==
  ASSUME TypeOK, Safety
  PROVE  MutualExclusion
<1> SUFFICES ASSUME NEW c \in Contenders, NEW d \in Contenders, Owns(c), Owns(d), c # d
             PROVE  FALSE
  BY DEF MutualExclusion
<1>1. ticket[c] # 0 /\ ticket[d] # 0
  BY DEF Safety, Registered, Owns
<1>2. Precedes(c, d) /\ Precedes(d, c)
  BY <1>1 DEF Safety, OwnerFirst
<1> QED
  BY <1>2, ContendersAssumption DEF Precedes, TypeOK

(* acquireLock never grants the lock to two contenders at once, for every  *)
(* number of processes and calls, whatever crashes or is reclaimed.        *)
THEOREM LockExclusive == Spec => []MutualExclusion
BY AtMostOneOwner, SafetyCorrect, TypeCorrect, PTL

(* A contender is granted the lock only after everyone who had a ticket    *)
(* when it announced itself is gone from the directory.                    *)
THEOREM LockFair == Spec => []FirstComeFirstServed
<1>1. TypeOK /\ Safety => FirstComeFirstServed
  <2> SUFFICES ASSUME TypeOK, Safety, NEW c \in Contenders, Owns(c),
                      NEW d \in ahead[c], ticket[d] # 0
               PROVE  FALSE
    BY DEF FirstComeFirstServed
  <2>1. d \in Contenders /\ c # d
    BY DEF TypeOK, Safety, AheadSmaller
  <2>2. ticket[c] # 0
    BY DEF Safety, Registered, Owns
  <2>3. Precedes(c, d)
    BY <2>1 DEF Safety, OwnerFirst
  <2>4. ticket[c] > ticket[d]
    BY <2>2 DEF Safety, AheadSmaller
  <2> QED
    BY <2>1, <2>3, <2>4 DEF Precedes, TypeOK
<1> QED
  BY <1>1, SafetyCorrect, TypeCorrect, PTL
-----------------------------------------------------------------------------
(* The contenders that own the lock: what FileMutex calls its owners. *)
Owners == {c \in Contenders : Owns(c)}

(* A granted contender is the only owner afterwards, and there was none. *)
LEMMA GrantStep ==
  ASSUME TypeOK, Safety, Safety', TypeOK', NEW c \in Contenders, Grant(c)
  PROVE  Owners = {} /\ Owners' = {c} /\ ~Dead(c) /\ UNCHANGED dead
<1>1. /\ UNCHANGED <<ticket, dead>>
      /\ pc[c] = "snapshot" /\ pc' = [pc EXCEPT ![c] = "held"]
      /\ ~Dead(c)
  BY DEF Grant, Goto, At, dirVars
<1>2. c \in Owners'
  BY <1>1 DEF Owners, Owns, Dead, TypeOK
<1>3. MutualExclusion'
  BY AtMostOneOwner, PTL
<1>4. \A d \in Contenders : Owns(d) => d \in Owners' /\ d # c
  BY <1>1 DEF Owners, Owns, Dead, TypeOK
<1> QED
  BY <1>1, <1>2, <1>3, <1>4 DEF Owners, MutualExclusion

(* The directory of entries, with its scans, retries, failures and         *)
(* reclaim, implements the lock that FileMutex specifies.                  *)
THEOREM LockRefines == Spec => ImplementsMutex
<1>1. Init => Mutex!Init
  BY DEF Init, Mutex!Init, Owns
<1>2. TypeOK /\ Safety /\ TypeOK' /\ Safety' /\ [Next]_vars
        => [Mutex!Next]_<<Owners, dead>>
  <2> SUFFICES ASSUME TypeOK, Safety, TypeOK', Safety', [Next]_vars
               PROVE  [Mutex!Next]_<<Owners, dead>>
    OBVIOUS
  <2> USE DEF At, Goto, Dead, dirVars, procVars, locals
  <2>1. ASSUME NEW c \in Contenders,
               \/ Call(c) \/ Mkdir(c) \/ Announce(c) \/ ReadNumber(c) \/ List(c)
               \/ SweepDone(c) \/ Blocked(c) \/ GiveUpDir(c) \/ GiveUpAgainDir(c)
               \/ Close(c) \/ AnnounceFails(c) \/ ScanFails(c) \/ RemoveFails(c)
               \/ Deadline(c) \/ ReleaseAgain(c)
        PROVE  UNCHANGED <<Owners, dead>>
    <3>1. /\ UNCHANGED <<ticket, dead>>
          /\ \A d \in Contenders : (pc'[d] \in {"held", "unreleased"})
                                    = (pc[d] \in {"held", "unreleased"})
      BY <2>1, RemovalGoesOn
      DEF Call, Mkdir, Announce, ReadNumber, List, SweepDone, Blocked, GiveUpDir,
          GiveUpAgainDir, Close, AnnounceFails, HalfWritten, ScanFails, RemoveFails, Deadline,
          ReleaseAgain, vars, TypeOK
    <3> QED
      BY <3>1 DEF Owners, Owns
  <2>2. ASSUME NEW c \in Contenders,
               \/ WriteTicket(c) \/ CreateFails(c)
               \/ Retract(c) \/ UndoChoosing(c) \/ UndoTicket(c) \/ GiveUp(c)
               \/ GiveUpAgain(c)
        PROVE  UNCHANGED <<Owners, dead>>
    <3>1. /\ UNCHANGED dead
          /\ pc[c] \notin {"held", "unreleased"} /\ pc'[c] \notin {"held", "unreleased"}
          /\ \A d \in Contenders \ {c} : pc'[d] = pc[d] /\ ticket'[d] = ticket[d]
      BY <2>2, UnlinkOwn
      DEF WriteTicket, CreateFails, HalfWritten, Retract, UndoChoosing, UndoTicket, GiveUp,
          GiveUpAgain, TypeOK
    <3> QED
      BY <3>1 DEF Owners, Owns
  <2>3. ASSUME NEW c \in Contenders, Grant(c) PROVE Mutex!Acquire(c)
    BY <2>3, GrantStep DEF Mutex!Acquire, Owners
  <2>4. ASSUME NEW c \in Contenders, Release(c) PROVE Mutex!Release(c)
    <3>1. /\ UNCHANGED dead /\ ~Dead(c)
          /\ pc[c] = "held" /\ pc'[c] = "closing"
          /\ \A d \in Contenders \ {c} : pc'[d] = pc[d] /\ ticket'[d] = ticket[d]
      BY <2>4, UnlinkOwn DEF Release, TypeOK
    <3>2. Owns(c) /\ MutualExclusion
      BY <3>1, AtMostOneOwner DEF Owns
    <3>3. Owners = {c} /\ Owners' = {}
      BY <3>1, <3>2 DEF Owners, Owns, MutualExclusion
    <3> QED
      BY <3>1, <3>3 DEF Mutex!Release, Owners
  <2>5. ASSUME NEW c \in Contenders, Examine(c)
        PROVE  UNCHANGED <<Owners, dead>> \/ \E d \in Contenders : Mutex!Reclaim(d)
    <3>1. PICK e \in Entries : (Dead(e[2]) /\ Unlink({e})) \/ UNCHANGED ticket
      <4>1. pending[c] \subseteq Entries
        BY DEF TypeOK
      <4> QED
        BY <2>5, <4>1 DEF Examine, OwnerDead
    <3>2. UNCHANGED <<pc, dead>>
      BY <2>5 DEF Examine
    <3>3. CASE UNCHANGED ticket
      BY <3>2, <3>3 DEF Owners, Owns
    <3>4. CASE Dead(e[2]) /\ Unlink({e})
      <4> DEFINE d == e[2]
      <4>1. d \in Contenders
        BY DEF Entries
      <4>2. \A b \in Contenders \ {d} : ticket'[b] = ticket[b]
        BY <3>4, Reclaimed
      <4>3. \A b \in Contenders \ {d} : Owns(b)' <=> Owns(b)
        BY <3>2, <4>2 DEF Owns
      <4>4. ticket'[d] \in {0, ticket[d]}
        BY <3>4, <4>1 DEF Unlink
      <4>5. CASE Owns(d)' <=> Owns(d)
        BY <3>2, <4>3, <4>5 DEF Owners
      <4>6. CASE Owns(d) /\ ~Owns(d)'
        <5>1. Owners = {d}
          BY <4>1, <4>6, AtMostOneOwner DEF Owners, MutualExclusion
        <5>2. Owners' = {}
          BY <4>3, <4>6, <5>1 DEF Owners
        <5> QED
          BY <3>2, <3>4, <4>1, <5>1, <5>2 DEF Mutex!Reclaim, Owners
      <4>7. Owns(d)' => Owns(d)
        BY <3>2, <4>4 DEF Owns
      <4> QED
        BY <4>5, <4>6, <4>7
    <3> QED
      BY <3>1, <3>3, <3>4
  <2>6. ASSUME NEW p \in Procs, Crash(p) PROVE Mutex!Die(p)
    <3>1. UNCHANGED pc /\ p \notin dead /\ dead' = dead \cup {p}
      BY <2>6 DEF Crash
    <3>2. \A d \in Contenders : pc[d] \in {"held", "unreleased"} => ticket'[d] = ticket[d]
      BY <2>6 DEF Crash, HalfWritten, TypeOK
    <3>3. \A d \in Contenders : Owns(d)' <=> Owns(d)
      BY <3>1, <3>2 DEF Owns, Safety, Registered
    <3> QED
      BY <3>1, <3>3 DEF Mutex!Die, Owners
  <2>7. ASSUME \/ \E p \in Procs : RecyclePid(p)
               \/ \E e \in Entries : Age(e)
               \/ UNCHANGED vars
        PROVE  UNCHANGED <<Owners, dead>>
    <3>1. UNCHANGED <<pc, ticket, dead>>
      BY <2>7 DEF RecyclePid, Age, vars
    <3> QED
      BY <3>1 DEF Owners, Owns
  <2> QED
    BY <2>1, <2>2, <2>3, <2>4, <2>5, <2>6, <2>7 DEF Next, Step, Mutex!Next
<1> QED
  BY <1>1, <1>2, TypeCorrect, SafetyCorrect, PTL DEF Spec, ImplementsMutex, Mutex!Spec, Owners
-----------------------------------------------------------------------------
(* acquireLock runs to its return before another call of its process, and  *)
(* not while the process holds the lock: at most one call of a live process*)
(* is running, holding or releasing.                                       *)
OneAtATime ==
  \A c, d \in Contenders :
    /\ ProcOf[c] = ProcOf[d] /\ ~Dead(c)
    /\ pc[c] \in Active \cup {"held", "unreleased"} /\ pc[d] \in Active \cup {"held", "unreleased"}
    => c = d

(* A process cannot forget a lock while another of its calls owns it. *)
HeldInv == HeldLocksExact /\ OneAtATime

(* A step of a call that is neither its grant nor its release. *)
LEMMA HeldQuietly ==
  ASSUME TypeOK, HeldInv, NEW c \in Contenders, UNCHANGED <<held, dead>>,
         pc[c] \in Active \ {"closing"},
         NEW to \in Active \cup Returned, to # "closing", pc' = [pc EXCEPT ![c] = to]
  PROVE  HeldInv'
<1> USE DEF Active, Returned
<1>1. \A d \in Contenders : pc'[d] = IF d = c THEN to ELSE pc[d]
  BY DEF TypeOK
<1>2. \A d \in Contenders : pc'[d] \in {"held", "unreleased", "closing"} <=> pc[d] \in {"held", "unreleased", "closing"}
  BY <1>1
<1>3. HeldLocksExact'
  BY <1>2 DEF HeldInv, HeldLocksExact
<1>4. \A d \in Contenders : pc'[d] \in Active \cup {"held", "unreleased"} => pc[d] \in Active \cup {"held", "unreleased"}
  BY <1>1
<1>5. OneAtATime'
  BY <1>4 DEF HeldInv, OneAtATime, Dead
<1> QED
  BY <1>3, <1>5 DEF HeldInv

(* Every step keeps heldLocks exact. *)
LEMMA HeldStep == TypeOK /\ HeldInv /\ [Next]_vars => HeldInv'
<1> SUFFICES ASSUME TypeOK, HeldInv, [Next]_vars PROVE HeldInv'
  OBVIOUS
<1> USE ProcsAssumption DEF At, Goto, dirVars, procVars, locals
<1>1. ASSUME NEW c \in Contenders, Call(c) PROVE HeldInv'
  <2>1. /\ pc[c] = "idle" /\ ~Dead(c) /\ UNCHANGED <<held, dead>>
        /\ \A d \in Contenders : ProcOf[d] = ProcOf[c] => pc[d] \notin Active
    BY <1>1 DEF Call
  <2>2. PICK to \in {"mkdir", "busy", "rejected"} :
          /\ pc' = [pc EXCEPT ![c] = to]
          /\ to = "mkdir" => ProcOf[c] \notin held
    BY <1>1 DEF Call
  <2>3. \A d \in Contenders : pc'[d] = IF d = c THEN to ELSE pc[d]
    BY <2>2 DEF TypeOK
  <2>4. HeldLocksExact'
    BY <2>1, <2>3 DEF HeldInv, HeldLocksExact
  <2>5. to = "mkdir" => \A d \in Contenders : ProcOf[d] = ProcOf[c] =>
                          pc[d] \notin Active \cup {"held", "unreleased"}
    BY <2>1, <2>2 DEF HeldInv, HeldLocksExact, Dead
  <2>6. OneAtATime'
    BY <2>1, <2>3, <2>5 DEF HeldInv, OneAtATime, Dead, Active
  <2> QED
    BY <2>4, <2>6 DEF HeldInv
<1>2. ASSUME NEW c \in Contenders,
             \/ Mkdir(c) \/ Announce(c) \/ ReadNumber(c) \/ WriteTicket(c) \/ Retract(c)
             \/ AnnounceFails(c) \/ CreateFails(c) \/ UndoChoosing(c) \/ UndoTicket(c)
             \/ List(c) \/ SweepDone(c) \/ Blocked(c) \/ ScanFails(c)
             \/ GiveUp(c) \/ GiveUpDir(c) \/ GiveUpAgain(c) \/ GiveUpAgainDir(c)
             \/ RemoveFails(c) /\ pc[c] # "held"
      PROVE  HeldInv'
  <2>1. UNCHANGED <<held, dead>> /\ pc[c] \in Active \ {"closing"}
    BY <1>2, RemovalGoesOn
    DEF Mkdir, Announce, ReadNumber, WriteTicket, Retract, AnnounceFails, CreateFails,
        UndoChoosing, UndoTicket, List, SweepDone, Blocked, ScanFails, GiveUp, GiveUpDir,
        GiveUpAgain, GiveUpAgainDir, RemoveFails, Active
  <2>2. \E to \in (Active \cup Returned) \ {"closing"} : pc' = [pc EXCEPT ![c] = to]
    BY <1>2, RemovalGoesOn
    DEF Mkdir, Announce, ReadNumber, WriteTicket, Retract, AnnounceFails, CreateFails,
        UndoChoosing, UndoTicket, List, SweepDone, Blocked, ScanFails, GiveUp, GiveUpDir,
        GiveUpAgain, GiveUpAgainDir, RemoveFails, Active, Returned
  <2> QED
    BY <2>1, <2>2, HeldQuietly
<1>3. ASSUME NEW c \in Contenders, Grant(c) PROVE HeldInv'
  <2>1. /\ pc[c] = "snapshot" /\ ~Dead(c) /\ UNCHANGED dead
        /\ held' = held \cup {ProcOf[c]} /\ pc' = [pc EXCEPT ![c] = "held"]
    BY <1>3 DEF Grant
  <2>2. \A d \in Contenders : pc'[d] = IF d = c THEN "held" ELSE pc[d]
    BY <2>1 DEF TypeOK
  <2>3. HeldLocksExact'
    BY <2>1, <2>2 DEF HeldInv, HeldLocksExact
  <2>4. OneAtATime'
    BY <2>1, <2>2 DEF HeldInv, OneAtATime, Dead, Active
  <2> QED
    BY <2>3, <2>4 DEF HeldInv
<1>4. ASSUME NEW c \in Contenders, Release(c) PROVE HeldInv'
  <2>1. /\ pc[c] = "held" /\ UNCHANGED <<held, dead>>
        /\ pc' = [pc EXCEPT ![c] = "closing"]
    BY <1>4 DEF Release
  <2>2. \A d \in Contenders : pc'[d] = IF d = c THEN "closing" ELSE pc[d]
    BY <2>1 DEF TypeOK
  <2>3. HeldLocksExact'
    BY <2>1, <2>2 DEF HeldInv, HeldLocksExact
  <2>4. OneAtATime'
    BY <2>1, <2>2 DEF HeldInv, OneAtATime, Dead, Active
  <2> QED
    BY <2>3, <2>4 DEF HeldInv
<1>8. ASSUME NEW c \in Contenders, RemoveFails(c), pc[c] = "held" PROVE HeldInv'
  <2>1. UNCHANGED <<held, dead>> /\ pc' = [pc EXCEPT ![c] = "unreleased"]
    BY <1>8, RemovalGoesOn DEF RemoveFails
  <2>2. \A d \in Contenders : pc'[d] = IF d = c THEN "unreleased" ELSE pc[d]
    BY <2>1 DEF TypeOK
  <2>3. HeldLocksExact'
    BY <1>8, <2>1, <2>2 DEF HeldInv, HeldLocksExact
  <2>4. OneAtATime'
    BY <1>8, <2>1, <2>2 DEF HeldInv, OneAtATime, Dead, Active
  <2> QED
    BY <2>3, <2>4 DEF HeldInv
<1>5. ASSUME NEW c \in Contenders, Close(c) PROVE HeldInv'
  <2>1. /\ pc[c] = "closing" /\ ~Dead(c) /\ UNCHANGED dead
        /\ held' = held \ {ProcOf[c]} /\ pc' = [pc EXCEPT ![c] = "released"]
    BY <1>5 DEF Close
  <2>2. \A d \in Contenders : pc'[d] = IF d = c THEN "released" ELSE pc[d]
    BY <2>1 DEF TypeOK
  <2>3. \A d \in Contenders \ {c} : ProcOf[d] = ProcOf[c] => pc[d] \notin {"held", "unreleased", "closing"}
    BY <2>1 DEF HeldInv, OneAtATime, Active
  <2>4. HeldLocksExact'
    BY <2>1, <2>2, <2>3 DEF HeldInv, HeldLocksExact
  <2>5. OneAtATime'
    BY <2>1, <2>2 DEF HeldInv, OneAtATime, Dead, Active
  <2> QED
    BY <2>4, <2>5 DEF HeldInv
<1>6. ASSUME NEW p \in Procs, Crash(p) PROVE HeldInv'
  <2>1. UNCHANGED <<pc, held>> /\ dead' = dead \cup {p}
    BY <1>6 DEF Crash
  <2> QED
    BY <2>1 DEF HeldInv, HeldLocksExact, OneAtATime, Dead
<1>7. ASSUME \/ \E c \in Contenders : Examine(c) \/ Deadline(c) \/ ReleaseAgain(c)
             \/ \E p \in Procs : RecyclePid(p)
             \/ \E e \in Entries : Age(e)
             \/ UNCHANGED vars
      PROVE  HeldInv'
  <2>1. UNCHANGED <<pc, held, dead>>
    BY <1>7 DEF Examine, Deadline, ReleaseAgain, RecyclePid, Age, vars
  <2> QED
    BY <2>1 DEF HeldInv, HeldLocksExact, OneAtATime, Dead
<1> QED
  BY <1>1, <1>2, <1>3, <1>4, <1>5, <1>6, <1>7, <1>8 DEF Next, Step

(* No step makes an entry of a live contender disappear but its own. *)
LEMMA EntriesStep ==
  TypeOK /\ Safety /\ [Next]_vars => \A e \in Entries : EntryKept(e)
<1> SUFFICES ASSUME TypeOK, Safety, [Next]_vars,
                    NEW e \in Entries, Present(e), ~Present(e)', ~Dead(e[2]), pc'[e[2]] = pc[e[2]]
             PROVE  FALSE
  BY DEF EntryKept
<1> DEFINE owner == e[2]
<1>1. /\ owner \in Contenders
      /\ \/ e = <<"choosing", owner>> /\ owner \in choosing /\ owner \notin choosing'
         \/ e = <<"ticket", owner>> /\ ticket[owner] # 0 /\ ticket'[owner] = 0
  BY DEF Entries, Present
<1> HIDE DEF owner
<1>2. ~Dead(owner) /\ pc'[owner] = pc[owner]
  BY DEF owner
<1> USE DEF At, Goto, dirVars, procVars, locals
<1>3. ASSUME NEW c \in Contenders,
             \/ Call(c) \/ Mkdir(c) \/ ReadNumber(c) \/ List(c) \/ SweepDone(c) \/ Grant(c)
             \/ Blocked(c) \/ GiveUpDir(c) \/ GiveUpAgainDir(c) \/ Close(c) \/ ScanFails(c)
             \/ RemoveFails(c) \/ Deadline(c) \/ ReleaseAgain(c)
             \/ Announce(c) \/ AnnounceFails(c)
      PROVE  FALSE
  <2>1. UNCHANGED ticket /\ choosing \subseteq choosing'
    BY <1>3 DEF Call, Mkdir, ReadNumber, List, SweepDone, Grant, Blocked, GiveUpDir,
                GiveUpAgainDir, Close, ScanFails, RemoveFails, Deadline, ReleaseAgain,
                Announce, AnnounceFails, HalfWritten, vars
  <2> QED
    BY <2>1, <1>1
<1>4. ASSUME NEW c \in Contenders,
             \/ WriteTicket(c) \/ CreateFails(c) \/ Retract(c) \/ UndoChoosing(c)
             \/ UndoTicket(c) \/ GiveUp(c) \/ GiveUpAgain(c) \/ Release(c)
      PROVE  FALSE
  <2>1. /\ pc'[c] # pc[c]
        /\ \A d \in Contenders \ {c} : ticket'[d] = ticket[d] /\ (d \in choosing' <=> d \in choosing)
    BY <1>4, UnlinkOwn
    DEF WriteTicket, CreateFails, HalfWritten, Retract, UndoChoosing, UndoTicket, GiveUp,
        GiveUpAgain, Release, TypeOK
  <2> QED
    BY <2>1, <1>1, <1>2
<1>5. ASSUME NEW c \in Contenders, Examine(c) PROVE FALSE
  <2>1. PICK x \in Entries : \/ Dead(x[2]) /\ Unlink({x})
                             \/ UNCHANGED <<choosing, ticket>>
    <3>1. pending[c] \subseteq Entries
      BY DEF TypeOK
    <3> QED
      BY <1>5, <3>1 DEF Examine, OwnerDead
  <2>2. CASE UNCHANGED <<choosing, ticket>>
    BY <2>2, <1>1
  <2>3. CASE Dead(x[2]) /\ Unlink({x})
    <3>1. x # e
      BY <2>3
    <3>2. owner \in choosing /\ <<"choosing", owner>> # x => owner \in choosing'
      BY <2>3 DEF Unlink
    <3>3. <<"ticket", owner>> # x => ticket'[owner] = ticket[owner]
      BY <2>3, <1>1 DEF Unlink
    <3> QED
      BY <1>1, <3>1, <3>2, <3>3
  <2> QED
    BY <2>1, <2>2, <2>3
<1>6. ASSUME NEW p \in Procs, Crash(p) PROVE FALSE
  <2>1. choosing \subseteq choosing'
    BY <1>6 DEF Crash, HalfWritten
  <2>2. \/ ticket' = ticket
        \/ \E c \in Contenders : /\ ProcOf[c] = p /\ pc[c] = "ticket"
                                 /\ ticket' = [ticket EXCEPT ![c] = nextNumber[c]]
    BY <1>6 DEF Crash, HalfWritten
  <2>3. p \notin dead
    BY <1>6 DEF Crash
  <2> QED
    BY <1>1, <2>1, <2>2, <2>3 DEF Safety, Registered, Dead, TypeOK
<1>7. ASSUME \/ \E p \in Procs : RecyclePid(p)
             \/ \E x \in Entries : Age(x)
             \/ UNCHANGED vars
      PROVE  FALSE
  <2>1. UNCHANGED <<choosing, ticket>>
    BY <1>7 DEF RecyclePid, Age, vars
  <2> QED
    BY <2>1, <1>1
<1> QED
  BY <1>3, <1>4, <1>5, <1>6, <1>7 DEF Next, Step

(* What a process believes to hold stays held, through crashes, failures,  *)
(* reclaim and repeated releases: heldLocks is exact after every step, and *)
(* no step removes an entry of a live contender but one of its own.        *)
THEOREM HeldLocksStay == Spec => HeldLocksKept
<1>1. Init => HeldInv
  BY DEF Init, HeldInv, HeldLocksExact, OneAtATime, Active
<1>2. HeldInv' => HeldLocksExact'
  BY DEF HeldInv
<1> QED
  BY <1>1, <1>2, HeldStep, EntriesStep, TypeCorrect, SafetyCorrect, PTL DEF Spec, HeldLocksKept
=============================================================================
