----------------------------- MODULE RelayLease -----------------------------
(***************************************************************************)
(* One relay per device: acquirePidLock and acquireRelayProcessLease of    *)
(* packages/cli/src/index.ts, whose lock also guards the evidence ledger,  *)
(* policies, workspaces and enrollment between the relay and the commands. *)
(*                                                                         *)
(* A lock is a file that holds the process id of its owner.  Whoever finds *)
(* it takes a recovery directory, asks for that process and moves the lock *)
(* aside when it is gone.  All files are reached by their names: what was  *)
(* read of a lock may be another lock when it is moved or removed.         *)
(*                                                                         *)
(* Each process calls once.  Its candidate and quarantine names are its    *)
(* own and left out.  Calls under a host scope, which compare inodes, and  *)
(* the errors of Windows are not modelled.                                 *)
(***************************************************************************)
EXTENDS Integers

CONSTANTS
    Callers,    \* processes that start a relay
    Ghost,      \* a process that has left its files behind
    None,
    Ownerless,     \* the owner of a recovery directory without its file
    Leftovers,  \* what an earlier process may have left of the recovery directory
    MaxCrashes  \* bound on processes that end without a release

LeaseAssumption ==
    /\ MaxCrashes \in Nat
    /\ Ghost \notin Callers
    /\ None # Ownerless
    /\ {None, Ownerless} \cap (Callers \cup {Ghost}) = {}
    /\ Leftovers \subseteq {None, Ownerless, Ghost}

Processes == Callers \cup {Ghost}

VARIABLES
    lock,      \* relay.pid.lock: the process it names
    recovery,  \* relay.pid.lock.recovery: the process its owner file names
    pidFile,   \* relay.pid
    alive,     \* which process ids are in use
    pc, seen,  \* of each caller: its step, and the process it has read of
    crashes

files == <<lock, recovery, pidFile>>
vars == <<files, alive, pc, seen, crashes>>

Recovering == {"read", "probe", "move", "leave", "rmdir"}
Contending == {"link", "mutex", "owner", "probeOwner", "moveMutex", "wait"}
Holding == {"check", "verify", "write", "relay", "readBack", "remove"}
Ended == {"out", "gone"}

\* An earlier process may have ended at any point, and its process id may be
\* in use again.
Init ==
    /\ lock \in {None, Ghost}
    /\ recovery \in Leftovers
    /\ pidFile \in {None, Ghost}
    /\ alive \in {[p \in Processes |-> p # Ghost], [p \in Processes |-> TRUE]}
    /\ pc = [c \in Callers |-> "link"]
    /\ seen = [c \in Callers |-> None]
    /\ crashes = 0

-----------------------------------------------------------------------------
GoTo(c, p) == pc' = [pc EXCEPT ![c] = p]
See(c, p) == seen' = [seen EXCEPT ![c] = p]
Forget(c) == See(c, None)

Goes(c, p) == GoTo(c, p) /\ UNCHANGED <<files, alive, seen, crashes>>

\* process.kill(pid, 0); a text that is no process id is of nobody.
IsAlive(p) == p \in Processes /\ alive[p]

\* A process id is asked for: where the caller goes if it is in use, or not.
Probe(c, at, running, stopped) ==
    /\ pc[c] = at
    /\ Goes(c, IF IsAlive(seen[c]) THEN running ELSE stopped)

-----------------------------------------------------------------------------
(* acquirePidLock.                                                         *)

\* Mutant: the candidate is renamed, not linked.
Overwrites(c) ==
    /\ pc[c] = "link"
    /\ lock' = c
    /\ GoTo(c, "check")
    /\ UNCHANGED <<recovery, pidFile, alive, seen, crashes>>

Link(c) ==
    /\ pc[c] = "link"
    /\ IF lock = None
       THEN lock' = c /\ GoTo(c, "check")
       ELSE UNCHANGED lock /\ GoTo(c, "mutex")
    /\ UNCHANGED <<recovery, pidFile, alive, seen, crashes>>

\* Mutant: the recovery directory is not respected.
TakesAnyMutex(c) ==
    /\ pc[c] = "mutex"
    /\ recovery' = c
    /\ GoTo(c, "read")
    /\ UNCHANGED <<lock, pidFile, alive, seen, crashes>>

\* A prepared directory replaces none, or one that has lost its file.
TakeMutex(c) ==
    /\ pc[c] = "mutex"
    /\ IF recovery \in {None, Ownerless}
       THEN recovery' = c /\ GoTo(c, "read")
       ELSE UNCHANGED recovery /\ GoTo(c, "owner")
    /\ UNCHANGED <<lock, pidFile, alive, seen, crashes>>

ReadLock(c) ==
    /\ pc[c] = "read"
    /\ See(c, lock)
    /\ GoTo(c, IF lock = None THEN "leave" ELSE "probe")
    /\ UNCHANGED <<files, alive, crashes>>

ProbeLock(c) == Probe(c, "probe", "leave", "move")

\* Mutant: a lock whose process is gone stays.
KeepsDeadLock(c) == pc[c] = "move" /\ Goes(c, "leave")

\* The lock that is there by now is moved aside and removed.  Who has seen none,
\* or moved one, tries again at once.
MoveLock(c) ==
    /\ pc[c] = "move"
    /\ lock' = None
    /\ IF lock = None THEN UNCHANGED seen ELSE Forget(c)
    /\ GoTo(c, "leave")
    /\ UNCHANGED <<recovery, pidFile, alive, crashes>>

\* The recovery directory is removed: first the file in it, then itself,
\* which fails when another directory was published in between.
LeaveMutex(c) ==
    /\ pc[c] = "leave"
    /\ recovery' = IF recovery = None THEN None ELSE Ownerless
    /\ GoTo(c, "rmdir")
    /\ UNCHANGED <<lock, pidFile, alive, seen, crashes>>

RemoveMutex(c) ==
    /\ pc[c] = "rmdir"
    /\ IF recovery \in {None, Ownerless}
       THEN recovery' = None /\ GoTo(c, IF seen[c] = None THEN "link" ELSE "wait")
       ELSE UNCHANGED recovery /\ GoTo(c, "owner")
    /\ Forget(c)
    /\ UNCHANGED <<lock, pidFile, alive, crashes>>

ReadOwner(c) ==
    /\ pc[c] = "owner"
    /\ See(c, recovery)
    /\ GoTo(c, "probeOwner")
    /\ UNCHANGED <<files, alive, crashes>>

ProbeOwner(c) == Probe(c, "probeOwner", "wait", "moveMutex")

\* The recovery directory that is there by now is moved aside and removed.
MoveMutex(c) ==
    /\ pc[c] = "moveMutex"
    /\ recovery' = None
    /\ GoTo(c, "wait")
    /\ Forget(c)
    /\ UNCHANGED <<lock, pidFile, alive, crashes>>

Retry(c) == pc[c] = "wait" /\ Goes(c, "link")

TimeOut(c) == pc[c] = "wait" /\ Goes(c, "out")

-----------------------------------------------------------------------------
(* acquireRelayProcessLease: the process id in relay.pid is asked for too, *)
(* as stop and status commands go by that file.                            *)
Check(c) ==
    /\ pc[c] = "check"
    /\ See(c, pidFile)
    /\ GoTo(c, IF pidFile = None THEN "write" ELSE "verify")
    /\ UNCHANGED <<files, alive, crashes>>

\* A second relay is refused: its lock is released.
Verify(c) == Probe(c, "verify", "unlock", "write")

\* Mutant: the file is created and not yet written.
WritesEmpty(c) ==
    /\ pc[c] = "write"
    /\ pidFile' = Ownerless
    /\ GoTo(c, "relay")
    /\ Forget(c)
    /\ UNCHANGED <<lock, recovery, alive, crashes>>

WritePid(c) ==
    /\ pc[c] = "write"
    /\ pidFile' = c
    /\ GoTo(c, "relay")
    /\ Forget(c)
    /\ UNCHANGED <<lock, recovery, alive, crashes>>

\* The relay ends and gives back its lease.
Stop(c) == pc[c] = "relay" /\ Goes(c, "readBack")

ReadBack(c) == pc[c] = "readBack" /\ Goes(c, IF pidFile = c THEN "remove" ELSE "unlock")

RemovePid(c) ==
    /\ pc[c] = "remove"
    /\ pidFile' = None
    /\ GoTo(c, "unlock")
    /\ UNCHANGED <<lock, recovery, alive, seen, crashes>>

\* The lock is removed by its name.
Unlock(c) ==
    /\ pc[c] = "unlock"
    /\ lock' = None
    /\ GoTo(c, "out")
    /\ UNCHANGED <<recovery, pidFile, alive, seen, crashes>>

-----------------------------------------------------------------------------
Ends(c) ==
    /\ GoTo(c, "gone")
    /\ Forget(c)
    /\ alive' = [alive EXCEPT ![c] = FALSE]
    /\ UNCHANGED files

\* A process that has nothing left to do ends.
Exit(c) == pc[c] = "out" /\ Ends(c) /\ UNCHANGED crashes

Crash(c) ==
    /\ pc[c] \notin Ended
    /\ crashes < MaxCrashes
    /\ crashes' = crashes + 1
    /\ Ends(c)

Step(c) ==
    \/ Link(c) \/ TakeMutex(c) \/ ReadLock(c) \/ ProbeLock(c) \/ MoveLock(c)
    \/ LeaveMutex(c) \/ RemoveMutex(c) \/ ReadOwner(c) \/ ProbeOwner(c) \/ MoveMutex(c)
    \/ Retry(c) \/ Check(c) \/ Verify(c) \/ WritePid(c) \/ ReadBack(c) \/ RemovePid(c) \/ Unlock(c)

Next == \E c \in Callers : Step(c) \/ TimeOut(c) \/ Stop(c) \/ Exit(c) \/ Crash(c)

Spec == Init /\ [][Next]_vars

\* A call under way runs on; relays and deadlines owe nothing.
FairSpec == Spec /\ \A c \in Callers : WF_vars(Step(c))

-----------------------------------------------------------------------------
(* Properties.                                                             *)
TypeOK ==
    /\ lock \in Processes \cup {None}
    /\ recovery \in Processes \cup {None, Ownerless}
    /\ pidFile \in Processes \cup {None}
    /\ alive \in [Processes -> BOOLEAN]
    /\ pc \in [Callers -> Recovering \cup Contending \cup Holding \cup Ended \cup {"unlock"}]
    /\ seen \in [Callers -> Processes \cup {None, Ownerless}]
    /\ crashes \in 0..MaxCrashes

\* At most one relay runs on a device ("Another relay process is already
\* running for this device."), whatever calls, releases and ends meanwhile.
OneRelay == \A c, d \in Callers : pc[c] = "relay" /\ pc[d] = "relay" => c = d

\* Nobody takes the lease from a process that holds it: until it releases the
\* lock, the lock names it, and relay.pid names a running relay.
LeaseKept ==
    \A c \in Callers :
        /\ pc[c] \in Holding => lock = c
        /\ pc[c] = "relay" => pidFile = c

\* What holds of every state: the types, one relay, and leases that are kept.
LeaseSafe == TypeOK /\ OneRelay /\ LeaseKept

\* The lock of an ended process does not stay while somebody goes on trying,
\* unless its process id, or that of the recovery's owner, is in use.
LeftLocked == \E p \in Processes : lock = p /\ ~alive[p]
FreedOrGivenUp ==
    \/ ~LeftLocked
    \/ recovery = Ghost /\ alive[Ghost]
    \/ \A c \in Callers : pc[c] \notin Contending \cup Recovering
DeadLeaseRecovered == LeftLocked ~> FreedOrGivenUp

=============================================================================
