------------------------------ MODULE FileLock ------------------------------
(***************************************************************************)
(* The lock that guards every file shared by several yukino processes     *)
(* (teams/file-lock.ts): Lamport's bakery with directory entries for the   *)
(* registers.  A call of acquireLock is a contender: it creates            *)
(* `choosing-<id>', reads the largest ticket, creates `ticket-<n>-<id>',   *)
(* removes its choosing entry, and owns the lock when a listing shows no   *)
(* choosing entry and its own ticket first.  The lock directory is made by *)
(* whoever needs it and removed by whoever finds it empty.  An owner that  *)
(* dies leaves its entries behind; a later scan removes them once they are *)
(* older than LOCK_STALE_MS and their owner is known to be dead.           *)
(*                                                                         *)
(* One action is one call to the file system; between two of them every    *)
(* other process may run.  A listing (readdir) is one atomic step.         *)
(***************************************************************************)
EXTENDS Integers, FiniteSets

CONSTANTS
  Contenders,   \* calls of acquireLock; the order of their ids breaks ties
  Procs,        \* processes of one machine
  ProcOf,       \* the process a contender runs in
  Waits,        \* contenders of withFileSyncLock; the others only try
  Impatient,    \* waiting contenders whose 5 s deadline may pass
  Faulty,       \* contenders whose file operations may fail
  Mortal,       \* processes that may be killed
  Aging,        \* contenders whose entries may get older than LOCK_STALE_MS
  StartTicks    \* whether /proc gives the start tick of a pid (Linux)

ASSUME ContendersAssumption == Contenders \subseteq Nat /\ IsFiniteSet(Contenders)
ASSUME ProcsAssumption == ProcOf \in [Contenders -> Procs]
ASSUME KindsAssumption == /\ Waits \subseteq Contenders
                          /\ Impatient \subseteq Waits
                          /\ Faulty \subseteq Contenders
                          /\ Mortal \subseteq Procs
                          /\ Aging \subseteq Contenders
                          /\ StartTicks \in BOOLEAN

VARIABLES
  pc,         \* where each contender is in acquireLock and its release
  dirExists,  \* the lock directory exists
  choosing,   \* contenders whose choosing entry exists
  ticket,     \* the number of each contender's ticket entry, 0 for none
  nextNumber, \* the number a contender has computed and not yet written
  pending,    \* entries of its first listing a contender has still to stat
  expired,    \* contenders whose deadline has passed
  held,       \* processes whose heldLocks contains the directory
  dead,       \* processes that were killed
  recycled,   \* dead processes whose pid now names another live process
  blank,      \* entries created whose owner's identity was never written
  old,        \* entries whose mtime is more than LOCK_STALE_MS ago
  stuck,      \* history: entries a failing write or unlink left to themselves
  ahead       \* history: tickets that existed when a contender announced itself

dirVars  == <<dirExists, choosing, ticket, blank, old, stuck>>
procVars == <<held, dead, recycled>>
locals   == <<nextNumber, pending, expired, ahead>>
vars == <<pc, dirVars, procVars, locals>>

Active == {"mkdir", "announce", "number", "ticket", "retract", "list", "sweep",
           "snapshot", "undoChoosing", "undoTicket", "giveUp", "giveUpDir",
           "giveUpAgain", "giveUpAgainDir", "closing"}
Returned == {"busy", "rejected", "released"}
PCs == Active \cup Returned \cup {"idle", "held", "unreleased"}

Entries == {"choosing", "ticket"} \X Contenders
Present(e) == IF e[1] = "choosing" THEN e[2] \in choosing ELSE ticket[e[2]] # 0
Empty == choosing = {} /\ \A c \in Contenders : ticket[c] = 0
Dead(c) == ProcOf[c] \in dead

(* Mutant: sorting the entries by id alone. *)
Precedes_ById(c, d) == c < d

(* Tickets sort by number, then by the id in their name. *)
Precedes(c, d) == \/ ticket[c] < ticket[d]
                  \/ ticket[c] = ticket[d] /\ c < d
IsFirst(c) == \A d \in Contenders \ {c} : ticket[d] # 0 => Precedes(c, d)

(* Mutant: an entry is reclaimed by its age, whoever owns it. *)
OwnerDead_AgeOnly(e) == e \in Entries

(* kill(pid, 0) fails, or succeeds on a process with another start tick. *)
OwnerDead(e) == /\ Dead(e[2])
                /\ ProcOf[e[2]] \in recycled => StartTicks /\ e \notin blank

TypeOK ==
  /\ pc \in [Contenders -> PCs]
  /\ dirExists \in BOOLEAN
  /\ choosing \subseteq Contenders
  /\ ticket \in [Contenders -> Nat]
  /\ nextNumber \in [Contenders -> Nat]
  /\ pending \in [Contenders -> SUBSET Entries]
  /\ expired \subseteq Contenders
  /\ held \subseteq Procs
  /\ dead \subseteq Procs
  /\ recycled \subseteq dead
  /\ blank \subseteq Entries
  /\ old \subseteq Entries
  /\ stuck \subseteq Entries
  /\ ahead \in [Contenders -> SUBSET Contenders]

Init ==
  /\ pc = [c \in Contenders |-> "idle"]
  /\ dirExists = FALSE
  /\ choosing = {}
  /\ ticket = [c \in Contenders |-> 0]
  /\ nextNumber = [c \in Contenders |-> 0]
  /\ pending = [c \in Contenders |-> {}]
  /\ expired = {}
  /\ held = {}
  /\ dead = {}
  /\ recycled = {}
  /\ blank = {}
  /\ old = {}
  /\ stuck = {}
  /\ ahead = [c \in Contenders |-> {}]
-----------------------------------------------------------------------------
At(c, label) == pc[c] = label /\ ~Dead(c)
Goto(c, label) == pc' = [pc EXCEPT ![c] = label]

(* Removing the entries in gone from the directory. *)
Unlink(gone) ==
  /\ choosing' = {c \in choosing : <<"choosing", c>> \notin gone}
  /\ ticket' = [c \in Contenders |->
                  IF <<"ticket", c>> \in gone THEN 0 ELSE ticket[c]]
  /\ blank' = blank \ gone
  /\ old' = old \ gone

(* rmdirSync succeeds on an empty directory; its failure is ignored. *)
Rmdir(c) == \/ dirExists' = (dirExists /\ ~Empty)
            \/ c \in Faulty /\ UNCHANGED dirExists

(* acquireLock runs to its return before anything else of its process.  A *)
(* directory the process already holds is refused.                         *)
Call(c) ==
  /\ At(c, "idle")
  /\ \A d \in Contenders : ProcOf[d] = ProcOf[c] => pc[d] \notin Active
  /\ IF ProcOf[c] \in held
       THEN Goto(c, IF c \in Waits THEN "rejected" ELSE "busy")
       ELSE Goto(c, "mkdir")
  /\ UNCHANGED <<dirVars, procVars, locals>>

Mkdir(c) ==
  /\ At(c, "mkdir")
  /\ dirExists' = TRUE
  /\ Goto(c, "announce")
  /\ UNCHANGED <<choosing, ticket, blank, old, stuck, procVars, locals>>

(* A directory removed since mkdir gives ENOENT, and the loop starts over. *)
Announce(c) ==
  /\ At(c, "announce")
  /\ IF dirExists
       THEN /\ choosing' = choosing \cup {c}
            /\ ahead' = [ahead EXCEPT ![c] = {d \in Contenders : ticket[d] # 0}]
            /\ Goto(c, "number")
       ELSE /\ Goto(c, "mkdir")
            /\ UNCHANGED <<choosing, ahead>>
  /\ UNCHANGED <<dirExists, ticket, blank, old, stuck, procVars,
                 nextNumber, pending, expired>>

(* What a write that did not come to its end leaves: the entry created,    *)
(* with the identity of its owner or without.                              *)
HalfWritten(c) ==
  \/ /\ pc[c] = "announce" /\ dirExists
     /\ choosing' = choosing \cup {c}
     /\ blank' \in {blank, blank \cup {<<"choosing", c>>}}
     /\ UNCHANGED ticket
  \/ /\ pc[c] = "ticket"
     /\ ticket' = [ticket EXCEPT ![c] = nextNumber[c]]
     /\ blank' \in {blank, blank \cup {<<"ticket", c>>}}
     /\ UNCHANGED choosing

(* An error of mkdir or of the first write other than ENOENT is rethrown,  *)
(* and nobody removes the choosing entry the write may have created.       *)
AnnounceFails(c) ==
  /\ c \in Faulty /\ pc[c] \in {"mkdir", "announce"} /\ ~Dead(c)
  /\ \/ UNCHANGED <<choosing, ticket, blank, stuck>>
     \/ /\ pc[c] = "announce" /\ HalfWritten(c)
        /\ stuck' = stuck \cup {<<"choosing", c>>}
  /\ Goto(c, "rejected")
  /\ UNCHANGED <<dirExists, old, procVars, locals>>

ReadNumber(c) ==
  /\ At(c, "number")
  /\ \E n \in {0} \cup {ticket[d] : d \in Contenders} :
       /\ \A d \in Contenders : ticket[d] <= n
       /\ nextNumber' = [nextNumber EXCEPT ![c] = n + 1]
  /\ Goto(c, "ticket")
  /\ UNCHANGED <<dirVars, procVars, pending, expired, ahead>>

WriteTicket(c) ==
  /\ At(c, "ticket")
  /\ ticket' = [ticket EXCEPT ![c] = nextNumber[c]]
  /\ Goto(c, "retract")
  /\ UNCHANGED <<dirExists, choosing, blank, old, stuck, procVars, locals>>

Retract(c) ==
  /\ At(c, "retract")
  /\ Unlink({<<"choosing", c>>})
  /\ Goto(c, "list")
  /\ UNCHANGED <<dirExists, stuck, procVars, locals>>

(* A failed readdir, write or unlink of createContender removes what the   *)
(* contender made so far; the ticket may have been created all the same.   *)
CreateFails(c) ==
  /\ c \in Faulty /\ pc[c] \in {"number", "ticket", "retract"} /\ ~Dead(c)
  /\ UNCHANGED <<choosing, ticket, blank>> \/ HalfWritten(c)
  /\ Goto(c, "undoChoosing")
  /\ UNCHANGED <<dirExists, old, stuck, procVars, locals>>

UndoChoosing(c) ==
  /\ At(c, "undoChoosing")
  /\ Unlink({<<"choosing", c>>})
  /\ Goto(c, "undoTicket")
  /\ UNCHANGED <<dirExists, stuck, procVars, locals>>

UndoTicket(c) ==
  /\ At(c, "undoTicket")
  /\ Unlink({<<"ticket", c>>})
  /\ Goto(c, "rejected")
  /\ UNCHANGED <<dirExists, stuck, procVars, locals>>
-----------------------------------------------------------------------------
(* liveLockEntries: list, examine every entry of others, list again. *)
List(c) ==
  /\ At(c, "list")
  /\ pending' = [pending EXCEPT ![c] = {e \in Entries : Present(e) /\ e[2] # c}]
  /\ Goto(c, "sweep")
  /\ UNCHANGED <<dirVars, procVars, nextNumber, expired, ahead>>

(* Mutant: only choosing entries are ever reclaimed. *)
Examine_ChoosingOnly(c) ==
  /\ At(c, "sweep")
  /\ \E e \in pending[c] :
       /\ pending' = [pending EXCEPT ![c] = @ \ {e}]
       /\ IF e[1] = "choosing" /\ Present(e) /\ e \in old /\ OwnerDead(e)
            THEN Unlink({e})
            ELSE UNCHANGED <<choosing, ticket, blank, old>>
  /\ UNCHANGED <<pc, dirExists, stuck, procVars, nextNumber, expired, ahead>>

Examine(c) ==
  /\ At(c, "sweep")
  /\ \E e \in pending[c] :
       /\ pending' = [pending EXCEPT ![c] = @ \ {e}]
       /\ IF Present(e) /\ e \in old /\ OwnerDead(e)
            THEN Unlink({e})
            ELSE UNCHANGED <<choosing, ticket, blank, old>>
  /\ UNCHANGED <<pc, dirExists, stuck, procVars, nextNumber, expired, ahead>>

SweepDone(c) ==
  /\ At(c, "sweep")
  /\ pending[c] = {}
  /\ Goto(c, "snapshot")
  /\ UNCHANGED <<dirVars, procVars, locals>>

(* Mutant: a contender does not wait for those still choosing. *)
Granted_IgnoresChoosing(c) == IsFirst(c)

Granted(c) == choosing = {} /\ IsFirst(c)

Grant(c) ==
  /\ At(c, "snapshot")
  /\ Granted(c)
  /\ held' = held \cup {ProcOf[c]}
  /\ Goto(c, "held")
  /\ UNCHANGED <<dirVars, dead, recycled, locals>>

Blocked(c) ==
  /\ At(c, "snapshot")
  /\ ~Granted(c)
  /\ Goto(c, IF c \notin Waits \/ c \in expired THEN "giveUp" ELSE "list")
  /\ UNCHANGED <<dirVars, procVars, locals>>

(* An error of a listing: the catch of acquireLock releases the ticket. *)
ScanFails(c) ==
  /\ c \in Faulty /\ pc[c] \in {"list", "snapshot"} /\ ~Dead(c)
  /\ Goto(c, "giveUpAgain")
  /\ UNCHANGED <<dirVars, procVars, locals>>

Deadline(c) ==
  /\ c \in Impatient \ expired /\ pc[c] \in {"list", "sweep", "snapshot"} /\ ~Dead(c)
  /\ expired' = expired \cup {c}
  /\ UNCHANGED <<pc, dirVars, procVars, nextNumber, pending, ahead>>

(* releaseTicket of a contender that was not granted.  The timeout error   *)
(* is thrown inside the try block, so its catch releases a second time.    *)
GiveUp(c) ==
  /\ At(c, "giveUp")
  /\ Unlink({<<"ticket", c>>})
  /\ Goto(c, "giveUpDir")
  /\ UNCHANGED <<dirExists, stuck, procVars, locals>>

GiveUpDir(c) ==
  /\ At(c, "giveUpDir")
  /\ Rmdir(c)
  /\ Goto(c, IF c \in Waits THEN "giveUpAgain" ELSE "busy")
  /\ UNCHANGED <<choosing, ticket, blank, old, stuck, procVars, locals>>

GiveUpAgain(c) ==
  /\ At(c, "giveUpAgain")
  /\ Unlink({<<"ticket", c>>})
  /\ Goto(c, "giveUpAgainDir")
  /\ UNCHANGED <<dirExists, stuck, procVars, locals>>

GiveUpAgainDir(c) ==
  /\ At(c, "giveUpAgainDir")
  /\ Rmdir(c)
  /\ Goto(c, "rejected")
  /\ UNCHANGED <<choosing, ticket, blank, old, stuck, procVars, locals>>

(* Where a contender goes on when the entry it removes cannot be removed:  *)
(* createContender ignores it, releaseTicket throws into the catch of      *)
(* acquireLock, which ignores it, or out of the release closure, before    *)
(* the closure has cleared heldLocks.                                      *)
AfterRemoval ==
  [undoChoosing |-> "undoTicket", undoTicket |-> "rejected", giveUp |-> "giveUpAgain",
   giveUpAgain |-> "rejected", held |-> "unreleased"]

(* The entry stays, and its owner is alive: no scan reclaims it. *)
RemoveFails(c) ==
  /\ c \in Faulty /\ pc[c] \in DOMAIN AfterRemoval /\ ~Dead(c)
  /\ stuck' = stuck \cup {<<IF pc[c] = "undoChoosing" THEN "choosing" ELSE "ticket", c>>}
  /\ Goto(c, AfterRemoval[pc[c]])
  /\ UNCHANGED <<dirExists, choosing, ticket, blank, old, procVars, locals>>
-----------------------------------------------------------------------------
(* The release closure: the ticket, the directory, then heldLocks.  It may *)
(* be called again, which its `released' flag turns into nothing.          *)
Release(c) ==
  /\ At(c, "held")
  /\ Unlink({<<"ticket", c>>})
  /\ Goto(c, "closing")
  /\ UNCHANGED <<dirExists, stuck, procVars, locals>>

Close(c) ==
  /\ At(c, "closing")
  /\ Rmdir(c)
  /\ held' = held \ {ProcOf[c]}
  /\ Goto(c, "released")
  /\ UNCHANGED <<choosing, ticket, blank, old, stuck, dead, recycled, locals>>

(* Mutant: the closure runs its body at every call. *)
ReleaseAgain_Unguarded(c) ==
  /\ At(c, "released")
  /\ Rmdir(c)
  /\ held' = held \ {ProcOf[c]}
  /\ UNCHANGED <<pc, choosing, ticket, blank, old, stuck, dead, recycled, locals>>

ReleaseAgain(c) == At(c, "released") /\ UNCHANGED vars
-----------------------------------------------------------------------------
Crash(p) ==
  /\ p \in Mortal \ dead
  /\ dead' = dead \cup {p}
  /\ \/ UNCHANGED <<choosing, ticket, blank>>
     \/ \E c \in Contenders : ProcOf[c] = p /\ HalfWritten(c)
  /\ UNCHANGED <<pc, dirExists, old, stuck, held, recycled, locals>>

RecyclePid(p) ==
  /\ p \in dead \ recycled
  /\ recycled' = recycled \cup {p}
  /\ UNCHANGED <<pc, dirVars, held, dead, locals>>

Age(e) ==
  /\ e[2] \in Aging /\ Present(e) /\ e \notin old
  /\ old' = old \cup {e}
  /\ UNCHANGED <<pc, dirExists, choosing, ticket, blank, stuck, procVars, locals>>

Step(c) ==
  \/ Mkdir(c) \/ Announce(c) \/ ReadNumber(c) \/ WriteTicket(c) \/ Retract(c)
  \/ UndoChoosing(c) \/ UndoTicket(c)
  \/ List(c) \/ Examine(c) \/ SweepDone(c) \/ Grant(c) \/ Blocked(c)
  \/ GiveUp(c) \/ GiveUpDir(c) \/ GiveUpAgain(c) \/ GiveUpAgainDir(c)
  \/ Release(c) \/ Close(c)

Next ==
  \/ \E c \in Contenders : \/ Call(c) \/ Step(c) \/ Deadline(c)
                           \/ AnnounceFails(c) \/ CreateFails(c)
                           \/ ScanFails(c) \/ RemoveFails(c) \/ ReleaseAgain(c)
  \/ \E p \in Procs : Crash(p) \/ RecyclePid(p)
  \/ \E e \in Entries : Age(e)

(* A running call goes on, the code under the lock ends, time passes. *)
Fairness ==
  /\ \A c \in Contenders : WF_vars(Step(c)) /\ WF_vars(Deadline(c))
  /\ \A e \in Entries : WF_vars(Age(e))

Spec == Init /\ [][Next]_vars
FairSpec == Spec /\ Fairness
-----------------------------------------------------------------------------
(* The code guarded by the lock runs, or its release has thrown, or it     *)
(* died in between and its ticket still stands.                            *)
Owns(c) == pc[c] \in {"held", "unreleased"} /\ (Dead(c) => ticket[c] # 0)

(* At most one contender owns the lock, across processes and through the   *)
(* reclaim of what dead processes left: acquireLock never grants while the *)
(* ticket of a crashed owner is in the directory.                          *)
MutualExclusion ==
  \A c, d \in Contenders : Owns(c) /\ Owns(d) => c = d

(* Bakery order: whoever had a ticket before a contender announced itself  *)
(* is served, gone or reclaimed before that contender is granted.          *)
FirstComeFirstServed ==
  \A c \in Contenders : Owns(c) => \A d \in ahead[c] : ticket[d] = 0

(* heldLocks, which refuses recursive acquisition, names exactly the locks *)
(* the process owns or is just closing, however often a release closure is *)
(* called.                                                                 *)
HeldLocksExact ==
  \A p \in Procs \ dead :
    p \in held <=> \E c \in Contenders : ProcOf[c] = p /\ pc[c] \in {"held", "unreleased", "closing"}

(* liveLockEntries reclaims only what dead owners left: an entry of a live *)
(* contender disappears by that contender's own step and no other.         *)
EntryKept(e) ==
  Present(e) /\ ~Present(e)' => Dead(e[2]) \/ pc'[e[2]] # pc[e[2]]

(* What a process believes to hold stays held: through failures, reclaim   *)
(* and repeated releases its heldLocks are exact and its entries are kept. *)
HeldLocksKept ==
  [][HeldLocksExact' /\ \A e \in Entries : EntryKept(e)]_vars

(* An entry whose dead owner cannot be told from the process that has its  *)
(* pid now: no start tick to compare, or none was written.                 *)
Undetectable(e) == Present(e) /\ Dead(e[2]) /\ ~OwnerDead(e)

(* An entry that a failing write or unlink left in the name of a process   *)
(* that runs on: it blocks the lock until that process dies.               *)
Abandoned(e) == Present(e) /\ e \in stuck /\ ~Dead(e[2])

(* Every call of acquireLock comes to an end in its own process, granted,  *)
(* refused or timed out; one whose deadline does not pass is granted once  *)
(* dead owners are reclaimed, unless an undetectable entry blocks it or one *)
(* whose own removal failed: whatever else fails is taken back.            *)
CallsReturn ==
  \A c \in Contenders :
    pc[c] \in Active ~>
      \/ pc[c] \in Returned \cup {"held", "unreleased"} \/ Dead(c)
      \/ c \notin Impatient /\ \E e \in Entries : Undetectable(e) \/ Abandoned(e)
-----------------------------------------------------------------------------
Mutex == INSTANCE FileMutex WITH owners <- {c \in Contenders : Owns(c)}

(* The directory of entries implements a lock with crash reclaim. *)
ImplementsMutex == Mutex!Spec
=============================================================================
