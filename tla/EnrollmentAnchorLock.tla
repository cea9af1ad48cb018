------------------------ MODULE EnrollmentAnchorLock ------------------------
(***************************************************************************)
(* The lock file of the relay client (acquireEnrollmentAnchorLock in       *)
(* packages/relay-client/src/enrollmentAnchorLock.ts), which the signing   *)
(* control and the enrollment anchor are guarded by.                       *)
(*                                                                         *)
(* A caller writes its process id to a candidate file of its own and       *)
(* publishes it by hard links: first as the recovery mutex, then, under    *)
(* that mutex, as the lock.  A lock whose process is gone is moved aside   *)
(* under the mutex; a mutex whose process is gone is left to support.      *)
(* Several callers live in one process, processes die at any point, and    *)
(* their process ids and the inodes of their files are used again.         *)
(***************************************************************************)
EXTENDS Integers, FiniteSets

CONSTANTS
    Callers,     \* calls of acquireEnrollmentAnchorLock under way at a time
    Processes,   \* relay and command processes
    ProcessOf,   \* the process each caller runs in
    Pids,        \* process ids
    Files,       \* inodes
    None,        \* no process id, no file
    MaxCrashes   \* bound on the processes that die without cleaning up

ASSUME LockAssumption ==
    /\ ProcessOf \in [Callers -> Processes]
    /\ None \notin Pids \cup Files
    /\ MaxCrashes \in Nat

VARIABLES
    pid,        \* the process id of each running process
    pc,         \* where each caller is
    then,       \* where a caller goes after it leaves the mutex
    own,        \* the file a caller has written its process id to
    seenFile, seenPid,  \* what a caller last read of a lock or a mutex
    text,       \* the process id each file holds, None for anything else
    lock,       \* the file published as the lock
    recovery,   \* the file published as the recovery mutex
    candidate,  \* the file under each caller's candidate name
    dead,       \* the file under each caller's quarantine name
    litter,     \* files whose candidate or quarantine name nobody cleans up
    crashes

vars == <<pid, pc, then, own, seenFile, seenPid, text, lock, recovery, candidate, dead,
          litter, crashes>>

Positions == {"out", "look", "lookProbe", "take", "blocked", "blockedProbe",
              "mutex", "tidy", "inspect", "inspectRead", "inspectProbe", "quarantine",
              "discard", "leave", "leaveUnlink", "held", "release", "releaseUnlink", "undo", "required"}

-----------------------------------------------------------------------------
Running(x) == \E r \in Processes : pid[r] = x /\ x # None

\* Mutant: contents that are not a process id count as a live owner.
JunkIsAlive(x) == x = None \/ Running(x)

\* process.kill(pid, 0); contents that are not a process id have no owner.
Alive(x) == x # None /\ Running(x)

Linked(f) == \/ f \in {lock, recovery} \cup litter
             \/ \E c \in Callers : f \in {candidate[c], dead[c]}

GoTo(c, p) == pc' = [pc EXCEPT ![c] = p]
See(c, f, x) ==
    /\ seenFile' = [seenFile EXCEPT ![c] = f]
    /\ seenPid' = [seenPid EXCEPT ![c] = x]

TextOf(f) == IF f = None THEN None ELSE text[f]

processes == <<pid, litter, crashes>>
seen == <<seenFile, seenPid>>
names == <<lock, recovery, candidate, dead>>

Forget(c) == See(c, None, None)

\* The call returns, or goes on at p.
Return(c, p) ==
    /\ GoTo(c, p)
    /\ own' = [own EXCEPT ![c] = IF p = "out" THEN None ELSE @]

\* The caller leaves the mutex and goes on at p.
LeaveFor(c, p) == GoTo(c, "leave") /\ then' = [then EXCEPT ![c] = p]

Init ==
    /\ pid = [r \in Processes |-> None]
    /\ pc = [c \in Callers |-> "out"]
    /\ then = [c \in Callers |-> "look"]
    /\ own = [c \in Callers |-> None]
    /\ seenFile = [c \in Callers |-> None] /\ seenPid = [c \in Callers |-> None]
    /\ text = [f \in Files |-> None]
    /\ lock \in Files \cup {None}     \* contents that are not a process id
    /\ recovery = None
    /\ candidate = [c \in Callers |-> None] /\ dead = [c \in Callers |-> None]
    /\ litter = {} /\ crashes = 0

-----------------------------------------------------------------------------
(* Acquisition *)

\* prepare: write and flush the candidate file, under a name of its own.
Prepare(c) ==
    /\ pc[c] = "out"
    /\ pid[ProcessOf[c]] # None
    /\ \E f \in Files :
         /\ ~Linked(f)
         /\ text' = [text EXCEPT ![f] = pid[ProcessOf[c]]]
         /\ own' = [own EXCEPT ![c] = f]
         /\ candidate' = [candidate EXCEPT ![c] = f]
    /\ GoTo(c, "look")
    /\ UNCHANGED <<then, seen, lock, recovery, dead, processes>>

\* The read-only inspection at the head of the loop: read the lock, ...
Look(c) ==
    /\ pc[c] = "look"
    /\ GoTo(c, IF lock = None THEN "take" ELSE "lookProbe")
    /\ See(c, lock, TextOf(lock))
    /\ UNCHANGED <<then, own, text, names, processes>>

\* ... then ask for its process, and pause while that is alive.
LookProbe(c) ==
    /\ pc[c] = "lookProbe"
    /\ GoTo(c, IF Alive(seenPid[c]) THEN "look" ELSE "take")
    /\ Forget(c)
    /\ UNCHANGED <<then, own, text, names, processes>>

\* The deadline has passed at the head of the loop: connection_anchor_busy.
Busy(c) ==
    /\ pc[c] = "look"
    /\ GoTo(c, "undo")
    /\ UNCHANGED <<then, own, seen, text, names, processes>>

\* Mutant: the candidate is renamed over the recovery mutex.
TakesOver(c) ==
    /\ pc[c] = "take"
    /\ recovery' = candidate[c]
    /\ GoTo(c, "mutex")
    /\ UNCHANGED <<then, own, seen, text, lock, candidate, dead, processes>>

\* Publish the candidate as the recovery mutex.
Take(c) ==
    /\ pc[c] = "take"
    /\ \/ /\ recovery = None
          /\ recovery' = candidate[c]
          /\ GoTo(c, "mutex")
       \/ /\ recovery # None
          /\ GoTo(c, "blocked")
          /\ UNCHANGED recovery
    /\ UNCHANGED <<then, own, seen, text, lock, candidate, dead, processes>>

\* The mutex is taken: inspect its owner.
Blocked(c) ==
    /\ pc[c] = "blocked"
    /\ GoTo(c, IF recovery = None THEN "look" ELSE "blockedProbe")
    /\ See(c, recovery, TextOf(recovery))
    /\ UNCHANGED <<then, own, text, names, processes>>

\* Mutant: a mutex whose process is gone is reclaimed.
Reclaims(c) ==
    /\ pc[c] = "blockedProbe"
    /\ GoTo(c, "look")
    /\ recovery' = IF Alive(seenPid[c]) THEN recovery ELSE None
    /\ Forget(c)
    /\ UNCHANGED <<then, own, text, lock, candidate, dead, processes>>

\* connection_anchor_recovery_required when that process is gone.
BlockedProbe(c) ==
    /\ pc[c] = "blockedProbe"
    /\ GoTo(c, IF Alive(seenPid[c]) THEN "look" ELSE "required")
    /\ Forget(c)
    /\ UNCHANGED <<then, own, text, names, processes>>

\* Under the mutex: publish the candidate as the lock.
Publish(c) ==
    /\ pc[c] = "mutex"
    /\ \/ /\ lock = None
          /\ lock' = candidate[c]
          /\ GoTo(c, "tidy")
       \/ /\ lock # None
          /\ GoTo(c, "inspect")
          /\ UNCHANGED lock
    /\ UNCHANGED <<then, own, seen, text, recovery, candidate, dead, processes>>

\* Remove the candidate name; the file stays, as lock and as mutex.
Tidy(c) ==
    /\ pc[c] = "tidy"
    /\ candidate' = [candidate EXCEPT ![c] = None]
    /\ LeaveFor(c, "held")
    /\ UNCHANGED <<own, seen, text, lock, recovery, dead, processes>>

\* Under the mutex: which file is the lock, ...
Inspect(c) ==
    /\ pc[c] = "inspect"
    /\ \/ /\ lock = None
          /\ LeaveFor(c, "look")
          /\ UNCHANGED seen
       \/ /\ lock # None
          /\ GoTo(c, "inspectRead")
          /\ See(c, lock, None)
          /\ UNCHANGED then
    /\ UNCHANGED <<own, text, names, processes>>

\* ... what does it hold, ...
InspectRead(c) ==
    /\ pc[c] = "inspectRead"
    /\ \/ /\ lock = None
          /\ LeaveFor(c, "look")
          /\ UNCHANGED seen
       \/ /\ lock # None
          /\ GoTo(c, "inspectProbe")
          /\ See(c, seenFile[c], TextOf(lock))
          /\ UNCHANGED then
    /\ UNCHANGED <<own, text, names, processes>>

\* Mutant: the mutex is left before the dead lock is moved aside.
LeavesBeforeQuarantine(c) ==
    /\ pc[c] = "inspectProbe"
    /\ \/ Alive(seenPid[c]) /\ LeaveFor(c, "look") /\ UNCHANGED recovery
       \/ ~Alive(seenPid[c]) /\ GoTo(c, "quarantine") /\ recovery' = None /\ UNCHANGED then
    /\ UNCHANGED <<own, seen, text, lock, candidate, dead, processes>>

\* ... and is that process alive?
InspectProbe(c) ==
    /\ pc[c] = "inspectProbe"
    /\ \/ Alive(seenPid[c]) /\ LeaveFor(c, "look")
       \/ ~Alive(seenPid[c]) /\ GoTo(c, "quarantine") /\ UNCHANGED then
    /\ UNCHANGED <<own, seen, text, names, processes>>

\* Move the dead lock aside.
Quarantine(c) ==
    /\ pc[c] = "quarantine"
    /\ lock' = None
    /\ dead' = [dead EXCEPT ![c] = lock]
    /\ IF lock = None THEN LeaveFor(c, "look") ELSE GoTo(c, "discard") /\ UNCHANGED then
    /\ UNCHANGED <<own, seen, text, recovery, candidate, processes>>

\* Remove the file moved aside if it is the one that was inspected.
Discard(c) ==
    /\ pc[c] = "discard"
    /\ dead' = [dead EXCEPT ![c] = IF @ = seenFile[c] THEN None ELSE @]
    /\ LeaveFor(c, IF dead[c] = seenFile[c] THEN "look" ELSE "undo")
    /\ UNCHANGED <<own, seen, text, lock, recovery, candidate, processes>>

\* Leave the mutex: cleanup finds it is still the caller's own file, ...
Leave(c) ==
    /\ pc[c] = "leave"
    /\ GoTo(c, IF recovery = own[c] THEN "leaveUnlink" ELSE "undo")
    /\ UNCHANGED <<then, own, seen, text, names, processes>>

\* ... and removes the name.
LeaveUnlink(c) ==
    /\ pc[c] = "leaveUnlink"
    /\ recovery' = None
    /\ GoTo(c, then[c])
    /\ then' = [then EXCEPT ![c] = "look"]
    /\ IF then[c] = "look" THEN Forget(c) ELSE UNCHANGED seen
    /\ UNCHANGED <<own, text, lock, candidate, dead, processes>>

\* The holder releases the lock.
Release(c) ==
    /\ pc[c] = "held"
    /\ GoTo(c, "release")
    /\ UNCHANGED <<then, own, seen, text, names, processes>>

\* cleanup of the lock: only while it is still the caller's own file.
ReleaseCheck(c) ==
    /\ pc[c] = "release"
    /\ Return(c, IF lock = own[c] THEN "releaseUnlink" ELSE "out")
    /\ UNCHANGED <<then, seen, text, names, processes>>

ReleaseUnlink(c) ==
    /\ pc[c] = "releaseUnlink"
    /\ lock' = None
    /\ Return(c, "out")
    /\ UNCHANGED <<then, seen, text, recovery, candidate, dead, processes>>

\* The host withdraws the operation: the fence throws before or after a step.
UnderMutex == {"mutex", "tidy", "inspect", "inspectRead", "inspectProbe", "quarantine", "discard"}
Fenced == {"look", "lookProbe", "take", "blocked", "blockedProbe"} \cup UnderMutex

Withdraw(c) ==
    /\ pc[c] \in Fenced
    /\ IF pc[c] \in UnderMutex THEN LeaveFor(c, "undo") ELSE GoTo(c, "undo") /\ UNCHANGED then
    /\ UNCHANGED <<own, seen, text, names, processes>>

\* Mutant: a call that fails forgets the lock it has just published.
UndoKeepsLock(c) ==
    /\ pc[c] \in {"undo", "required"}
    /\ candidate' = [candidate EXCEPT ![c] = None]
    /\ dead' = [dead EXCEPT ![c] = IF @ = seenFile[c] THEN None ELSE @]
    /\ Return(c, "out")
    /\ Forget(c)
    /\ UNCHANGED <<then, text, lock, recovery, processes>>

\* The call fails: remove every name it still has.
Undo(c) ==
    /\ pc[c] \in {"undo", "required"}
    /\ candidate' = [candidate EXCEPT ![c] = None]
    /\ dead' = [dead EXCEPT ![c] = IF @ = seenFile[c] THEN None ELSE @]
    /\ Return(c, IF lock = own[c] THEN "releaseUnlink" ELSE "out")
    /\ Forget(c)
    /\ UNCHANGED <<then, text, lock, recovery, processes>>

-----------------------------------------------------------------------------
(* Processes, external *)

Start(r) ==
    /\ pid[r] = None
    /\ \E x \in Pids : ~Running(x) /\ pid' = [pid EXCEPT ![r] = x]
    /\ UNCHANGED <<pc, then, own, seen, text, names, litter, crashes>>

Inside(r) == {c \in Callers : ProcessOf[c] = r}

\* A process ends when it has no call under way and no lock.
Exit(r) ==
    /\ pid[r] # None
    /\ \A c \in Inside(r) : pc[c] = "out"
    /\ pid' = [pid EXCEPT ![r] = None]
    /\ UNCHANGED <<pc, then, own, seen, text, names, litter, crashes>>

\* A process dies at any point: nobody removes its names.
Crash(r) ==
    /\ pid[r] # None
    /\ crashes < MaxCrashes
    /\ crashes' = crashes + 1
    /\ pid' = [pid EXCEPT ![r] = None]
    /\ LET Without(f, x) == [c \in Callers |-> IF ProcessOf[c] = r THEN x ELSE f[c]] IN
       /\ pc' = Without(pc, "out")
       /\ then' = Without(then, "look")
       /\ own' = Without(own, None)
       /\ seenFile' = Without(seenFile, None)
       /\ seenPid' = Without(seenPid, None)
       /\ candidate' = Without(candidate, None)
       /\ dead' = Without(dead, None)
    /\ litter' = (litter \cup {candidate[c] : c \in Inside(r)} \cup {dead[c] : c \in Inside(r)}) \ {None}
    /\ UNCHANGED <<text, lock, recovery>>

-----------------------------------------------------------------------------
Step(c) ==
    \/ Look(c) \/ LookProbe(c) \/ Take(c) \/ Blocked(c) \/ BlockedProbe(c)
    \/ Publish(c) \/ Tidy(c) \/ Inspect(c) \/ InspectRead(c) \/ InspectProbe(c)
    \/ Quarantine(c) \/ Discard(c) \/ Leave(c) \/ LeaveUnlink(c)
    \/ ReleaseCheck(c) \/ ReleaseUnlink(c) \/ Undo(c)

Next ==
    \/ \E c \in Callers : Prepare(c) \/ Busy(c) \/ Step(c) \/ Release(c) \/ Withdraw(c)
    \/ \E r \in Processes : Start(r) \/ Exit(r) \/ Crash(r)

Spec == Init /\ [][Next]_vars

\* A call under way runs on; deadlines, hosts and holders owe nothing.
FairSpec == Spec /\ \A c \in Callers : WF_vars(Step(c))

-----------------------------------------------------------------------------
(* Properties *)

TypeOK ==
    /\ pid \in [Processes -> Pids \cup {None}]
    /\ pc \in [Callers -> Positions]
    /\ then \in [Callers -> {"held", "look", "undo"}]
    /\ {own, seenFile, candidate, dead} \subseteq [Callers -> Files \cup {None}]
    /\ seenPid \in [Callers -> Pids \cup {None}]
    /\ text \in [Files -> Pids \cup {None}]
    /\ {lock, recovery} \subseteq Files \cup {None}
    /\ litter \subseteq Files
    /\ crashes \in Nat

\* A caller that has published the lock, and has not begun to release it.
HasLock(c) == \/ pc[c] \in {"tidy", "held"}
              \/ pc[c] \in {"leave", "leaveUnlink"} /\ then[c] = "held"

HasMutex(c) == pc[c] \in UnderMutex \cup {"leave", "leaveUnlink"}

\* At most one caller has the lock, and the file that is published as the
\* lock is its own: whatever callers inspect, move aside or remove meanwhile,
\* and whosever process id or inode is used again.
Exclusive ==
    \A c \in Callers : HasLock(c) =>
        /\ lock = own[c]
        /\ \A d \in Callers \ {c} : ~HasLock(d)

\* The file that is moved aside is the one that was inspected, and nobody
\* who is alive owns it.
QuarantinesTheDead ==
    \A c \in Callers : pc[c] = "discard" =>
        /\ dead[c] = seenFile[c]
        /\ \A d \in Callers : HasLock(d) => own[d] # dead[c]

\* Without a crash no path through a call, its errors and a withdrawn host
\* included, leaves a mutex or a lock behind.
NothingLeftBehind ==
    crashes = 0 =>
        /\ recovery # None => \E c \in Callers : HasMutex(c) /\ own[c] = recovery
        /\ lock # None => \/ text[lock] = None
                          \/ \E c \in Callers : pc[c] # "out" /\ own[c] = lock

\* A mutex whose owner died is preserved: nobody removes or replaces it.
Abandoned == recovery # None /\ \A c \in Callers : ~(HasMutex(c) /\ own[c] = recovery)

AbandonedMutexPreserved == [][Abandoned => recovery' = recovery]_vars

\* A lock whose process is gone does not stay while somebody tries to get it,
\* unless the mutex is abandoned or the process id is used again.  Callers
\* that give up one after the other may keep it: suppose they stop doing so.
Trying(c) == pc[c] \notin {"out", "held", "release", "releaseUnlink", "undo", "required"}

NobodyGivesUp == \A c \in Callers : pc'[c] \in {"undo", "required"} => pc'[c] = pc[c]

LockIsDead == lock # None /\ ~Running(text[lock])

DeadLockRecovered ==
    <>[][NobodyGivesUp]_vars =>
        (LockIsDead ~> \/ ~LockIsDead \/ Abandoned
                       \/ \A c \in Callers : ~Trying(c))

-----------------------------------------------------------------------------
(* The inductive invariant behind them. *)

Calling(c) == pc[c] # "out"

\* A call has a file of its own, which holds the process id of its process
\* and does not lose its last name during the call.
OwnFile(c) ==
    /\ own[c] \in Files
    /\ pid[ProcessOf[c]] # None
    /\ text[own[c]] = pid[ProcessOf[c]]

Releasing(c) == pc[c] \in {"release", "releaseUnlink"}

FilesOwned ==
    /\ \A c \in Callers : Calling(c) => OwnFile(c)
    /\ \A c, d \in Callers : Calling(c) /\ Calling(d) /\ c # d => own[c] # own[d]
    /\ \A c \in Callers : Calling(c) => candidate[c] = own[c] \/ HasLock(c) \/ Releasing(c)

\* Who works under the mutex has published it, and who has the lock too.
Published ==
    /\ \A c \in Callers : HasMutex(c) => recovery = own[c]
    /\ \A c \in Callers : HasLock(c) \/ Releasing(c) => lock = own[c]
    /\ \A c \in Callers : pc[c] \in UnderMutex \cup {"take"} => candidate[c] = own[c]

\* What was seen of the lock under the mutex is still true of it, or it has
\* been released since.
StillAsSeen ==
    \A c \in Callers :
        /\ pc[c] \in {"inspectRead", "inspectProbe", "quarantine"} =>
               lock \in {None, seenFile[c]}
        /\ pc[c] = "inspectProbe" => lock = None \/ text[lock] = seenPid[c]
        /\ pc[c] = "quarantine" => \A d \in Callers : Calling(d) => lock # own[d]
        /\ pc[c] = "discard" =>
               /\ dead[c] = seenFile[c]
               /\ \A d \in Callers : Calling(d) => dead[c] # own[d]

LockInv == TypeOK /\ FilesOwned /\ Published /\ StillAsSeen /\ NothingLeftBehind

\* What holds of every state of the lock: one owner, only the dead are moved
\* aside, and calls clean up behind themselves.
LockSafe == LockInv /\ Exclusive /\ QuarantinesTheDead

=============================================================================
