---------------------------- MODULE ContainerRelay ----------------------------
(***************************************************************************)
(* The start-up of a relay in a container (cli/src/containerRelayLifecycle *)
(* .ts): the entrypoint that keeps the relay running as its files say, and *)
(* the commands that write these files (cli/src/relayAutostart.ts), which  *)
(* run beside it and beside each other.                                    *)
(*                                                                         *)
(* A container goes down with all its processes; its files stay.  Process  *)
(* identities are those of /proc: the first process is known by the boot   *)
(* that started it, a child by the number of its spawn.  The program of    *)
(* the entrypoint may be run again by hand beside the first process.       *)
(***************************************************************************)
EXTENDS Integers, FiniteSets

CONSTANTS
    Regs,        \* registrations of the start-up: a launcher, a workspace, a version
    Fit,         \* those of the version that the entrypoint runs
    Cmds,        \* commands that may run beside each other
    MaxBoots, MaxCmds, MaxSpawns, MaxOthers   \* bounds

ContainerAssumption == Fit \subseteq Regs /\ {MaxBoots, MaxCmds, MaxSpawns, MaxOthers} \subseteq Nat

Entries == {"main", "other"}     \* the first process, and a second one by hand

VARIABLES
    boot,     \* the container: up, and the number of this boot
    files,    \* lock, marker, heartbeat, registration, control
    entry,    \* the two entrypoints: where they are, and what they have read
    child,    \* the relay that each has spawned
    cmd,      \* the commands
    hist      \* history, for the properties and the bounds

vars == <<boot, files, entry, child, cmd, hist>>

NoConf == [reg |-> "none", running |-> FALSE]
NoBeat == [is |-> "none", boot |-> 0, reg |-> "none", id |-> 0, fresh |-> FALSE]
NoChild == [id |-> 0, reg |-> "none", alive |-> FALSE]
Off == [at |-> "off", old |-> 0, reg |-> "none", conf |-> NoConf, ready |-> FALSE]
Idle == [op |-> "none", at |-> "none", reg |-> "none", on |-> FALSE, quiet |-> FALSE]

Starting == [Off EXCEPT !.at = "begin"]

Init ==
    /\ boot = [up |-> TRUE, n |-> 1]
    /\ files = [lock |-> 0, marker |-> 0, beat |-> NoBeat, reg |-> "none", ctl |-> NoConf]
    /\ entry = [e \in Entries |-> IF e = "main" THEN Starting ELSE Off]
    /\ child = [e \in Entries |-> NoChild]
    /\ cmd = [c \in Cmds |-> Idle]
    /\ hist = [told |-> FALSE, exact |-> FALSE, asked |-> {}, usurped |-> FALSE, lied |-> FALSE, spawns |-> 0, cmds |-> 0, others |-> 0]

\* liveMarker: a marker of the process that is the first one now.
Available == files.marker = boot.n

AnyBeat(running) == files.beat.is = "none" \/ (files.beat.boot = files.marker /\ files.beat.fresh)

\* readContainerHeartbeat, for a control that says running or not.
BeatHolds(running) ==
    \/ files.beat.is = "none"
    \/ /\ files.beat.boot = files.marker /\ files.beat.fresh
       /\ files.beat.is = "running" => running /\ child["main"].alive /\ child["main"].id = files.beat.id

\* ownsContainerStartup.
Owned(r) == Available /\ r # "none" /\ files.ctl.reg = r

-----------------------------------------------------------------------------
\* The container.

Goes(at) == [e \in Entries |-> Off]

\* It goes down: because its first process has ended, or by itself.
Down ==
    /\ boot.up
    /\ boot' = [boot EXCEPT !.up = FALSE]
    /\ entry' = Goes("off") /\ child' = [e \in Entries |-> NoChild] /\ cmd' = [c \in Cmds |-> Idle]
    /\ UNCHANGED <<files, hist>>

Boot ==
    /\ ~ boot.up /\ boot.n < MaxBoots
    /\ boot' = [up |-> TRUE, n |-> boot.n + 1]
    /\ entry' = [entry EXCEPT !["main"] = Starting]
    /\ UNCHANGED <<files, child, cmd, hist>>

\* By hand: a second entrypoint finds the identity of the first process to be its own.
Second ==
    /\ boot.up /\ entry["other"].at = "off" /\ hist.others < MaxOthers
    /\ entry' = [entry EXCEPT !["other"] = Starting]
    /\ hist' = [hist EXCEPT !.others = @ + 1]
    /\ UNCHANGED <<boot, files, child, cmd>>

\* A relay ends by itself.
Dies(e) ==
    /\ child[e].alive /\ child' = [child EXCEPT ![e].alive = FALSE]
    /\ UNCHANGED <<boot, files, entry, cmd, hist>>

\* Ten seconds without a new heartbeat.
Ages ==
    /\ files.beat.fresh /\ files' = [files EXCEPT !.beat.fresh = FALSE]
    /\ UNCHANGED <<boot, entry, child, cmd, hist>>

-----------------------------------------------------------------------------
\* The entrypoint takes its lock.

At(e, at) == entry[e].at = at
To(e, at) == entry' = [entry EXCEPT ![e].at = at]
Ended(e) == IF e = "main" THEN To(e, "ended") ELSE entry' = [entry EXCEPT ![e] = Off]

AlwaysOld == files.lock # 0

\* A lock of an earlier boot is an old one.
OldLock == files.lock \notin {0, boot.n}

ReadLock(e) ==
    /\ At(e, "begin")
    /\ \/ OldLock /\ entry' = [entry EXCEPT ![e].at = "remove", ![e].old = files.lock]
       \/ files.lock = 0 /\ To(e, "take")
       \/ files.lock # 0 /\ ~ OldLock /\ Ended(e)
    /\ UNCHANGED <<boot, files, child, cmd, hist>>

\* What is removed is the lock by its path, whoever has written it by now.
RemoveLock(e) ==
    /\ At(e, "remove")
    /\ files' = [files EXCEPT !.lock = 0]
    /\ IF files.lock = 0 THEN Ended(e) ELSE entry' = [entry EXCEPT ![e].at = "take", ![e].old = 0]
    /\ hist' = [hist EXCEPT !.usurped = @ \/ (files.lock = boot.n /\ entry[e].old # boot.n)]
    /\ UNCHANGED <<boot, child, cmd>>

TakeLock(e) ==
    /\ At(e, "take")
    /\ IF files.lock = 0 THEN To(e, "mark") /\ files' = [files EXCEPT !.lock = boot.n]
                         ELSE Ended(e) /\ UNCHANGED files
    /\ UNCHANGED <<boot, child, cmd, hist>>

Mark(e) ==
    /\ At(e, "mark")
    /\ files' = [files EXCEPT !.marker = boot.n] /\ To(e, "read")
    /\ UNCHANGED <<boot, child, cmd, hist>>

-----------------------------------------------------------------------------
\* One round of its loop.

ReadRegistration(e) ==
    /\ At(e, "read")
    /\ entry' = [entry EXCEPT ![e].at = IF Available THEN "control" ELSE "fails", ![e].reg = files.reg]
    /\ UNCHANGED <<boot, files, child, cmd, hist>>

AnyControl(e) == [reg |-> entry[e].reg, running |-> files.ctl.running]

\* readConfiguration: a control that is not the one of the registration configures nothing.
Configuration(e) ==
    IF entry[e].reg # "none" /\ files.ctl.reg = entry[e].reg THEN files.ctl ELSE NoConf

ReadControl(e) ==
    /\ At(e, "control")
    /\ entry' = [entry EXCEPT ![e].at = "store", ![e].reg = "none", ![e].conf = Configuration(e)]
    /\ UNCHANGED <<boot, files, child, cmd, hist>>

\* The store of credentials is unlocked or not.
ReadStore(e) == \E unlocked \in BOOLEAN :
    /\ At(e, "store")
    /\ entry' = [entry EXCEPT ![e].at = "drop",
                              ![e].ready = unlocked /\ entry[e].conf.running /\ entry[e].conf.reg \in Fit]
    /\ UNCHANGED <<boot, files, child, cmd, hist>>

KeepsRunning(e) == child[e].id = 0 \/ (child[e].alive /\ entry[e].ready)

Wanted(e) == child[e].id = 0 \/ (child[e].alive /\ entry[e].ready /\ child[e].reg = entry[e].conf.reg)

\* A relay that has ended, or is not to run any longer, or not with this registration.
Drop(e) ==
    /\ At(e, "drop")
    /\ \/ Wanted(e) /\ To(e, "spawn") /\ UNCHANGED child
       \/ ~ Wanted(e) /\ To(e, "spawn") /\ child' = [child EXCEPT ![e] = NoChild]
       \/ ~ Wanted(e) /\ child[e].alive /\ To(e, "fails") /\ UNCHANGED child    \* the stop is not confirmed
    /\ UNCHANGED <<boot, files, cmd, hist>>

AnyParent(e) == TRUE

\* ownedChild: the parent of the relay is the process that the marker names.
Attributed(e) == e = "main"

\* The relay must be a child of the process that the marker names; the delay after a restart may not be over.
Spawn(e) ==
    /\ At(e, "spawn")
    /\ \/ /\ entry[e].ready /\ child[e].id = 0 /\ hist.spawns < MaxSpawns
          /\ child' = [child EXCEPT ![e] = [id |-> hist.spawns + 1, reg |-> entry[e].conf.reg, alive |-> TRUE]]
          /\ hist' = [hist EXCEPT !.spawns = @ + 1]
          /\ To(e, IF Attributed(e) THEN "beat" ELSE "fails")
       \/ To(e, "beat") /\ UNCHANGED <<child, hist>>
    /\ UNCHANGED <<boot, files, cmd>>

Lifecycle(e) ==
    IF entry[e].conf = NoConf THEN "unconfigured" ELSE IF ~ entry[e].conf.running THEN "paused"
    ELSE IF ~ entry[e].ready THEN "blocked" ELSE IF child[e].alive THEN "running" ELSE "starting"

Beat(e) ==
    /\ At(e, "beat")
    /\ files' = [files EXCEPT !.beat = [is |-> Lifecycle(e), boot |-> boot.n, reg |-> entry[e].conf.reg, fresh |-> TRUE,
                                        id |-> IF child[e].alive THEN child[e].id ELSE 0]]
    /\ entry' = [entry EXCEPT ![e] = [Off EXCEPT !.at = "read"]]
    /\ UNCHANGED <<boot, child, cmd, hist>>

\* A signal ends the loop between two rounds or after the store was asked; errors end it anywhere.
Fails(e) ==
    /\ entry[e].at \in {"read", "control", "store", "drop", "spawn", "beat"}
    /\ To(e, "fails")
    /\ UNCHANGED <<boot, files, child, cmd, hist>>

\* The relay is stopped, else the files stay as they are.
StopsRelay(e) ==
    /\ At(e, "fails")
    /\ \/ child' = [child EXCEPT ![e] = NoChild] /\ To(e, "clean")
       \/ child[e].alive /\ Ended(e) /\ UNCHANGED child
    /\ UNCHANGED <<boot, files, cmd, hist>>

Clean(e) ==
    /\ At(e, "clean")
    /\ files' = [files EXCEPT !.marker = IF Available THEN 0 ELSE @,
                              !.beat = IF Available THEN NoBeat ELSE @,
                              !.lock = IF @ = boot.n THEN 0 ELSE @]
    /\ Ended(e)
    /\ UNCHANGED <<boot, child, cmd, hist>>

-----------------------------------------------------------------------------
\* The commands.

Asks(c, op, at, r, on) ==
    /\ cmd[c] = Idle /\ boot.up /\ Available /\ hist.cmds < MaxCmds
    /\ cmd' = [cmd EXCEPT ![c] = [op |-> op, at |-> at, reg |-> r, on |-> on, quiet |-> FALSE]]
    /\ hist' = [hist EXCEPT !.cmds = @ + 1]
    /\ UNCHANGED <<boot, files, entry, child>>

\* An earlier registration must be owned; a pause is of an earlier one only.
Previous(pause) == IF files.reg = "none" THEN ~ pause ELSE Owned(files.reg)

Enable(c) == \E r \in Regs, pause \in BOOLEAN :
    Previous(pause) /\ Asks(c, "enable", "reg", r, ~ pause)

WriteRegistration(c) ==
    /\ cmd[c].at = "reg"
    /\ files' = [files EXCEPT !.reg = cmd[c].reg]
    /\ cmd' = [cmd EXCEPT ![c].at = "ctl"]
    /\ UNCHANGED <<boot, entry, child, hist>>

Stop(c) == Owned(files.reg) /\ Asks(c, "stop", "ctl", files.reg, FALSE)
Start(c) == Owned(files.reg) /\ BeatHolds(files.ctl.running) /\ Asks(c, "start", "ctl", files.reg, TRUE)
Disable(c) == Owned(files.reg) /\ Asks(c, "disable", "ctl", files.reg, FALSE)

\* containerStartupControl: who asks to run ends what was told of a pause.
WriteControl(c) ==
    /\ cmd[c].at = "ctl" /\ Available
    /\ files' = [files EXCEPT !.ctl = [reg |-> cmd[c].reg, running |-> cmd[c].on]]
    /\ cmd' = [d \in Cmds |-> IF d = c THEN IF cmd[c].op = "disable" THEN [cmd[c] EXCEPT !.at = "rmctl"] ELSE Idle
                              ELSE [cmd[d] EXCEPT !.quiet = @ /\ ~ cmd[c].on]]
    /\ hist' = [hist EXCEPT !.told = @ /\ ~ cmd[c].on, !.exact = @ /\ ~ cmd[c].on,
                             !.asked = IF cmd[c].on THEN @ \cup {cmd[c].reg} ELSE @]
    /\ UNCHANGED <<boot, entry, child>>

RemoveControl(c) ==
    /\ cmd[c].at = "rmctl"
    /\ files' = [files EXCEPT !.ctl = NoConf]
    /\ cmd' = [cmd EXCEPT ![c].at = "rmreg"]
    /\ UNCHANGED <<boot, entry, child, hist>>

RemoveRegistration(c) ==
    /\ cmd[c].at = "rmreg"
    /\ files' = [files EXCEPT !.reg = "none"]
    /\ cmd' = [cmd EXCEPT ![c] = Idle]
    /\ UNCHANGED <<boot, entry, child, hist>>

\* A command fails or is interrupted between two of its steps.
GivesUp(c) ==
    /\ cmd[c] # Idle /\ cmd' = [cmd EXCEPT ![c] = Idle]
    /\ UNCHANGED <<boot, files, entry, child, hist>>

\* assertRelayAutostartPaused: the control is read, then the heartbeat; another round is awaited.
Pausing(c) == Owned(files.reg) /\ Asks(c, "paused", "isctl", files.reg, FALSE)
Status(c) == Owned(files.reg) /\ Asks(c, "status", "isctl", files.reg, FALSE)

SeeControl(c) ==
    /\ cmd[c].at = "isctl" /\ Owned(cmd[c].reg)
    /\ cmd[c].op = "paused" => ~ files.ctl.running
    /\ cmd' = [cmd EXCEPT ![c].at = "isbeat", ![c].on = files.ctl.running, ![c].quiet = TRUE]
    /\ UNCHANGED <<boot, files, entry, child, hist>>

\* containerStartupPaused.
Paused(c) == files.beat.is = "paused" /\ files.beat.reg = cmd[c].reg

\* The heartbeat may be older than the pause: the loop may have read meanwhile that it is to run.
Exact ==
    /\ entry["other"].at \in {"off", "begin", "remove", "take"}
    /\ ~ entry["main"].conf.running

Confirms(c) ==
    /\ cmd[c].at = "isbeat" /\ cmd[c].op = "paused" /\ BeatHolds(FALSE)
    /\ IF Paused(c) THEN /\ cmd' = [cmd EXCEPT ![c] = Idle]
                         /\ hist' = [hist EXCEPT !.told = cmd[c].quiet, !.exact = cmd[c].quiet /\ Exact]
                    ELSE cmd' = [cmd EXCEPT ![c].at = "isctl"] /\ UNCHANGED hist
    /\ UNCHANGED <<boot, files, entry, child>>

\* containerStartupState.
Reports(c) ==
    /\ cmd[c].at = "isbeat" /\ cmd[c].op = "status" /\ BeatHolds(cmd[c].on)
    /\ cmd' = [cmd EXCEPT ![c] = Idle]
    /\ hist' = [hist EXCEPT !.lied = @ \/ (/\ files.beat.is = "running" /\ files.beat.reg = cmd[c].reg
                                            /\ ~ (cmd[c].on /\ child["main"].reg = cmd[c].reg))]
    /\ UNCHANGED <<boot, files, entry, child>>

-----------------------------------------------------------------------------
Next ==
    \/ Down \/ Boot \/ Second \/ Ages
    \/ \E e \in Entries :
          \/ Dies(e) \/ ReadLock(e) \/ RemoveLock(e) \/ TakeLock(e) \/ Mark(e)
          \/ ReadRegistration(e) \/ ReadControl(e) \/ ReadStore(e) \/ Drop(e) \/ Spawn(e) \/ Beat(e)
          \/ Fails(e) \/ StopsRelay(e) \/ Clean(e)
    \/ \E c \in Cmds :
          \/ Enable(c) \/ WriteRegistration(c) \/ Stop(c) \/ Start(c) \/ Disable(c) \/ WriteControl(c)
          \/ RemoveControl(c) \/ RemoveRegistration(c) \/ GivesUp(c)
          \/ Pausing(c) \/ Status(c) \/ SeeControl(c) \/ Confirms(c) \/ Reports(c)

Spec == Init /\ [][Next]_vars

-----------------------------------------------------------------------------
\* The variables have their types.
TypeOK ==
    /\ boot \in [up : BOOLEAN, n : 1..MaxBoots]
    /\ {files.lock, files.marker} \subseteq 0..MaxBoots
    /\ {files.reg, files.ctl.reg, files.beat.reg} \subseteq Regs \cup {"none"}
    /\ \A e \in Entries : child[e].id \in 0..MaxSpawns /\ child[e].alive \in BOOLEAN
    /\ hist.told \in BOOLEAN /\ hist.exact \in BOOLEAN

Looping(e) == entry[e].at \in {"mark", "read", "control", "store", "drop", "spawn", "beat"}

\* Two entrypoints run their loops only where one, having read a lock of an earlier boot, has removed
\* the one that the other had put in its place.
OneLoop == Looping("main") /\ Looping("other") => hist.usurped

\* Whatever runs beside it, the relays of a container are the one of its first process and, for the
\* time it takes to stop it, one that a second entrypoint has started and could not attribute to itself.
OneRelay == child["other"].alive => entry["other"].at \in {"fails", "off"}

\* A pause that was confirmed by a heartbeat of the pause itself stands: no relay runs, in this boot
\* or a later one, whatever commands, failures and restarts follow, until somebody asks to run.
PauseStands == hist.told /\ hist.exact => ~ child["main"].alive

\* A relay runs with a registration that some command has asked to run, of the version that runs it.
RelayIsAsked == \A e \in Entries : child[e].alive => child[e].reg \in Fit \cap hist.asked

\* A status that says running is of the registration it names, which is asked to run, and of a relay
\* that was started with this registration.
StatusIsReal == ~ hist.lied

ContainerSafe == TypeOK /\ OneLoop /\ OneRelay /\ PauseStands /\ RelayIsAsked /\ StatusIsReal
=============================================================================
