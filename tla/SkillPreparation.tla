-------------------------- MODULE SkillPreparation --------------------------
(***************************************************************************)
(* The preparation of skill rollouts ahead of their activation: a pump in  *)
(* the relay builds what HQ assigned in an attempt directory and publishes *)
(* it by a pointer (skillPreparationPump.ts, skillPreparationCache.ts,     *)
(* skillPreparationTransaction.ts), the loop of the relay takes the        *)
(* pointer and installs it, or prepares afresh, and `skills sync' does so  *)
(* by hand without the cache (cli/src/index.ts).  SkillActivation has the  *)
(* installation itself; here it is one step.                               *)
(*                                                                         *)
(* Attempts are slots: a directory that no pointer and no flight names any *)
(* more is never named again, and its slot stands for a new one.  Such     *)
(* directories are left behind by the code; what is not named is not kept. *)
(***************************************************************************)
EXTENDS Naturals, FiniteSets

CONSTANTS
    Rollouts,
    None,
    MaxChanges,    \* bound on assignments, expiries, policies, commands and stops
    MaxFaults      \* bound on crashes, failures and rejections

PreparationAssumption ==
    /\ {MaxChanges, MaxFaults} \subseteq Nat
    /\ None \notin Rollouts \cup {"pump", "relay", "hand"}
    /\ None \notin [rollout : Rollouts, policy : 0 .. MaxChanges, recorded : BOOLEAN]
    /\ None \notin [slot : 1 .. 4, rollout : Rollouts, policy : 0 .. MaxChanges]

VARIABLES
    assigned,    \* what HQ assigns
    expired,     \* the rollouts whose bundle has expired
    policy,      \* the policy of the workspace
    active,      \* the rollout installed and anchored
    dirs,        \* of each slot: what the attempt holds
    pointer,     \* CURRENT.json: the slot and what it is said to hold
    tx, act,     \* the holders of the preparation and of the activation lock
    stopping,
    pc, job,     \* of each flight
    used,        \* history: how often the attempt in a slot was installed
    changes, faults

Actors == {"pump", "relay", "hand"}
Slots == 1 .. 4

vars == <<assigned, expired, policy, active, dirs, pointer, tx, act, stopping, pc, job, used, changes, faults>>
world == <<assigned, expired, policy, changes>>
locks == <<tx, act>>

NoJob == [rollout |-> None, policy |-> 0, slot |-> 0, previous |-> None]

Init ==
    /\ assigned = None /\ expired = {} /\ policy = 0 /\ active = None
    /\ dirs = [s \in Slots |-> None] /\ pointer = None
    /\ tx = None /\ act = None /\ stopping = FALSE
    /\ pc = [a \in Actors |-> "idle"] /\ job = [a \in Actors |-> NoJob]
    /\ used = [s \in Slots |-> 0]
    /\ changes = 0 /\ faults = 0

GoTo(a, step) == pc' = [pc EXCEPT ![a] = step]
Valid(a) == job[a].rollout \notin expired
Running(a) == a = "pump" => ~ stopping

Named == {job[a].slot : a \in Actors} \cup (IF pointer = None THEN {} ELSE {pointer.slot})
Fresh == CHOOSE s \in Slots \ Named : \A t \in Slots \ Named : s <= t

\* The flight ends, with or without its directory.
Give(a) == GoTo(a, "leave") /\ UNCHANGED dirs
Drop(a) ==
    /\ GoTo(a, "leave")
    /\ dirs' = IF job[a].slot = 0 THEN dirs ELSE [dirs EXCEPT ![job[a].slot] = None]

-----------------------------------------------------------------------------
(* Locks *)

\* Every flight starts from the policy and the anchor of the moment.
Starts(a, step) ==
    /\ GoTo(a, step)
    /\ job' = [job EXCEPT ![a] = [NoJob EXCEPT !.policy = policy, !.previous = active]]

BeginPump ==
    /\ pc["pump"] = "idle" /\ ~ stopping /\ tx = None
    /\ tx' = "pump" /\ Starts("pump", "poll")
    /\ UNCHANGED <<world, active, dirs, pointer, act, stopping, used, faults>>

BeginRelay ==
    /\ pc["relay"] = "idle" /\ ~ stopping /\ act = None
    /\ act' = "relay" /\ GoTo("relay", "lock")
    /\ UNCHANGED <<world, active, dirs, pointer, tx, stopping, job, used, faults>>

Lock ==
    /\ pc["relay"] = "lock"
    /\ IF stopping THEN GoTo("relay", "leave") /\ UNCHANGED <<tx, job>>
       ELSE tx = None /\ tx' = "relay" /\ Starts("relay", "take")
    /\ UNCHANGED <<world, active, dirs, pointer, act, stopping, used, faults>>

BeginHand ==
    /\ pc["hand"] = "idle" /\ act = None /\ changes < MaxChanges
    /\ act' = "hand" /\ changes' = changes + 1 /\ Starts("hand", "poll")
    /\ UNCHANGED <<assigned, expired, policy, active, dirs, pointer, tx, stopping, used, faults>>

\* Mutant: the preparation lock is kept.
KeepsLock(a) ==
    /\ pc[a] = "leave" /\ GoTo(a, "idle")
    /\ act' = IF act = a THEN None ELSE act
    /\ job' = [job EXCEPT ![a] = NoJob]
    /\ UNCHANGED <<world, active, dirs, pointer, tx, stopping, used, faults>>

Leave(a) ==
    /\ pc[a] = "leave" /\ GoTo(a, "idle")
    /\ tx' = IF tx = a THEN None ELSE tx
    /\ act' = IF act = a THEN None ELSE act
    /\ job' = [job EXCEPT ![a] = NoJob]
    /\ UNCHANGED <<world, active, dirs, pointer, stopping, used, faults>>

-----------------------------------------------------------------------------
(* Preparation *)

\* HQ has a rollout for whoever does not report it as installed.
Poll(a) ==
    /\ pc[a] = "poll"
    /\ IF Running(a) /\ assigned # None /\ assigned # job[a].previous
       THEN GoTo(a, "build") /\ job' = [job EXCEPT ![a].rollout = assigned]
       ELSE GoTo(a, "leave") /\ UNCHANGED job
    /\ UNCHANGED <<world, active, dirs, pointer, locks, stopping, used, faults>>

Build(a) ==
    /\ pc[a] = "build"
    /\ IF Running(a) /\ Valid(a)
       THEN /\ job' = [job EXCEPT ![a].slot = Fresh]
            /\ dirs' = [dirs EXCEPT ![Fresh] = [rollout |-> job[a].rollout, policy |-> job[a].policy, recorded |-> FALSE]]
            /\ used' = [used EXCEPT ![Fresh] = 0]
            /\ GoTo(a, "check")
       ELSE Give(a) /\ UNCHANGED <<job, used>>
    /\ UNCHANGED <<world, active, pointer, locks, stopping, faults>>

\* The policy is read again when everything is in place.
Check(a) ==
    /\ pc[a] = "check"
    /\ IF Running(a) /\ Valid(a) /\ policy = job[a].policy
       THEN GoTo(a, IF a = "pump" THEN "record" ELSE "install") /\ UNCHANGED dirs
       ELSE Drop(a)
    /\ UNCHANGED <<world, active, pointer, locks, stopping, job, used, faults>>

\* Mutant: the pointer goes first.
PublishesUnrecorded ==
    /\ pc["pump"] = "record" /\ Running("pump") /\ Valid("pump")
    /\ pointer' = [slot |-> job["pump"].slot, rollout |-> job["pump"].rollout, policy |-> job["pump"].policy]
    /\ Give("pump")
    /\ UNCHANGED <<world, active, locks, stopping, job, used, faults>>

Record ==
    /\ pc["pump"] = "record"
    /\ IF Running("pump") /\ Valid("pump")
       THEN dirs' = [dirs EXCEPT ![job["pump"].slot].recorded = TRUE] /\ GoTo("pump", "publish")
       ELSE Drop("pump")
    /\ UNCHANGED <<world, active, pointer, locks, stopping, job, used, faults>>

\* Mutant: the flight takes its directory away, published or not.
DropsPublished ==
    /\ pc["pump"] = "publish"
    /\ pointer' = [slot |-> job["pump"].slot, rollout |-> job["pump"].rollout, policy |-> job["pump"].policy]
    /\ Drop("pump")
    /\ UNCHANGED <<world, active, locks, stopping, job, used, faults>>

\* The pointer replaces one whose directory is still there, and owns the attempt.
Publish ==
    /\ pc["pump"] = "publish"
    /\ IF Running("pump") /\ Valid("pump") /\ (pointer # None => dirs[pointer.slot] # None)
       THEN /\ pointer' = [slot |-> job["pump"].slot, rollout |-> job["pump"].rollout, policy |-> job["pump"].policy]
            /\ Give("pump")
       ELSE Drop("pump") /\ UNCHANGED pointer
    /\ UNCHANGED <<world, active, locks, stopping, job, used, faults>>

-----------------------------------------------------------------------------
(* Activation *)

Whole(p) == dirs[p.slot] = [rollout |-> p.rollout, policy |-> p.policy, recorded |-> TRUE]

\* Mutant: the pointer is left where it is.
KeepsPointer ==
    /\ pc["relay"] = "take"
    /\ IF pointer = None \/ pointer.policy # job["relay"].policy
       THEN GoTo("relay", "poll") /\ UNCHANGED job
       ELSE /\ GoTo("relay", IF Whole(pointer) THEN "verify" ELSE "leave")
            /\ job' = [job EXCEPT !["relay"].slot = pointer.slot, !["relay"].rollout = pointer.rollout]
    /\ UNCHANGED <<world, active, dirs, pointer, locks, stopping, used, faults>>

\* Mutant: a pointer serves under any policy.
TakesAnyPolicy ==
    /\ pc["relay"] = "take"
    /\ IF pointer = None
       THEN GoTo("relay", "poll") /\ UNCHANGED <<pointer, job>>
       ELSE /\ GoTo("relay", IF Whole(pointer) THEN "verify" ELSE "leave") /\ pointer' = None
            /\ job' = [job EXCEPT !["relay"].slot = pointer.slot, !["relay"].rollout = pointer.rollout]
    /\ UNCHANGED <<world, active, dirs, locks, stopping, used, faults>>

\* A pointer of another policy is passed over; the other goes before its
\* attempt is used.  What does not match its pointer fails the flight.
Take ==
    /\ pc["relay"] = "take"
    /\ IF pointer = None \/ (Whole(pointer) /\ pointer.policy # job["relay"].policy)
       THEN GoTo("relay", "poll") /\ UNCHANGED <<pointer, job>>
       ELSE IF ~ Whole(pointer) THEN GoTo("relay", "leave") /\ UNCHANGED <<pointer, job>>
       ELSE /\ GoTo("relay", "verify") /\ pointer' = None
            /\ job' = [job EXCEPT !["relay"].slot = pointer.slot, !["relay"].rollout = pointer.rollout]
    /\ UNCHANGED <<world, active, dirs, locks, stopping, used, faults>>

Verify ==
    /\ pc["relay"] = "verify"
    /\ IF Valid("relay") THEN GoTo("relay", "install") /\ UNCHANGED dirs ELSE Drop("relay")
    /\ UNCHANGED <<world, active, pointer, locks, stopping, job, used, faults>>

\* The previous anchor is read, and the policy once more.
Install(a) ==
    /\ pc[a] = "install"
    /\ IF policy = job[a].policy /\ Valid(a)
       THEN /\ active' = job[a].rollout
            /\ used' = [used EXCEPT ![job[a].slot] = @ + 1]
            /\ job' = [job EXCEPT ![a].previous = active]
            /\ GoTo(a, "report") /\ UNCHANGED dirs
       ELSE Drop(a) /\ UNCHANGED <<active, used, job>>
    /\ UNCHANGED <<world, pointer, locks, stopping, faults>>

\* A definitive rejection of the receipt brings the previous rollout back.
Report(a) ==
    /\ pc[a] = "report"
    /\ \/ UNCHANGED <<active, faults>>
       \/ faults < MaxFaults /\ faults' = faults + 1 /\ active' = job[a].previous
    /\ Drop(a)
    /\ UNCHANGED <<world, pointer, locks, stopping, job, used>>

-----------------------------------------------------------------------------
(* What may happen meanwhile *)

\* A step throws, or the wait for the lock is over: the flight removes what is its own; a take that fails
\* may have moved the pointer already, and leaves the attempt.
Fail(a) ==
    /\ pc[a] \notin {"idle", "leave"} /\ faults < MaxFaults /\ faults' = faults + 1
    /\ pointer' \in (IF pc[a] = "take" THEN {pointer, None} ELSE {pointer})
    /\ Drop(a)
    /\ UNCHANGED <<world, active, locks, stopping, job, used>>

\* The locks of a dead process are free; its directories stay.
Dies(who) ==
    /\ faults < MaxFaults /\ faults' = faults + 1
    /\ pc' = [a \in Actors |-> IF a \in who THEN "idle" ELSE pc[a]]
    /\ job' = [a \in Actors |-> IF a \in who THEN NoJob ELSE job[a]]
    /\ tx' = IF tx \in who THEN None ELSE tx
    /\ act' = IF act \in who THEN None ELSE act
    /\ UNCHANGED <<world, active, dirs, pointer, used>>
Crash == Dies({"pump", "relay"}) /\ stopping' = FALSE
CrashHand == pc["hand"] # "idle" /\ Dies({"hand"}) /\ UNCHANGED stopping

Stop ==
    /\ ~ stopping /\ changes < MaxChanges /\ changes' = changes + 1 /\ stopping' = TRUE
    /\ UNCHANGED <<assigned, expired, policy, active, dirs, pointer, locks, pc, job, used, faults>>
\* The relay ends when its flights have, and is started again.
Restart ==
    /\ stopping /\ pc["pump"] = "idle" /\ pc["relay"] = "idle" /\ stopping' = FALSE
    /\ UNCHANGED <<world, active, dirs, pointer, locks, pc, job, used, faults>>

Change ==
    /\ changes < MaxChanges /\ changes' = changes + 1
    /\ \/ assigned' \in (Rollouts \cup {None}) \ {assigned} /\ UNCHANGED <<expired, policy>>
       \/ \E r \in Rollouts \ expired : expired' = expired \cup {r} /\ UNCHANGED <<assigned, policy>>
       \/ policy' = policy + 1 /\ UNCHANGED <<assigned, expired>>
    /\ UNCHANGED <<active, dirs, pointer, locks, stopping, pc, job, used, faults>>

Prepare(a) == Poll(a) \/ Build(a) \/ Check(a)
Pump == BeginPump \/ Prepare("pump") \/ Record \/ Publish \/ Leave("pump")
Relay == BeginRelay \/ Take \/ Verify \/ Prepare("relay") \/ Install("relay") \/ Report("relay") \/ Leave("relay")
Hand == Prepare("hand") \/ Install("hand") \/ Report("hand") \/ Leave("hand")

Next ==
    \/ Pump \/ Relay \/ Lock \/ Hand \/ BeginHand
    \/ (\E a \in Actors : Fail(a)) \/ Crash \/ CrashHand \/ Stop \/ Restart \/ Change

\* Every flight goes on, and a relay that was stopped is started again.  The loop
\* asks for its lock every 25 ms, between two turns of the pump.
Fairness ==
    /\ WF_vars(Pump \/ Restart) /\ SF_vars(Relay \/ Lock) /\ WF_vars(Hand)

Spec == Init /\ [][Next]_vars /\ Fairness

-----------------------------------------------------------------------------
(* Properties *)

TypeOK ==
    /\ assigned \in Rollouts \cup {None} /\ active \in Rollouts \cup {None} /\ expired \subseteq Rollouts
    /\ dirs \in [Slots -> {None} \cup [rollout : Rollouts, policy : 0 .. MaxChanges, recorded : BOOLEAN]]
    /\ pointer # None => pointer \in [slot : Slots, rollout : Rollouts, policy : 0 .. MaxChanges]
    /\ tx \in {None, "pump", "relay"} /\ act \in {None, "relay", "hand"}
    /\ \A a \in Actors : job[a].slot \in {0} \cup Slots

\* The pointer names an attempt that is whole and the one it was written for,
\* whatever was interrupted: a take never fails for what is left behind.
NamesWhole == pointer # None => Whole(pointer)

\* Two flights never share an attempt, and none that the pointer names is being
\* installed; nobody removes the attempt of another.
OwnAttempt ==
    /\ \A a, b \in Actors : a # b /\ job[a].slot # 0 => job[a].slot # job[b].slot
    /\ \A a \in Actors :
         pc[a] \in {"check", "record", "publish", "verify", "install", "report"} =>
             /\ job[a].slot # 0 /\ dirs[job[a].slot] # None
             /\ dirs[job[a].slot].rollout = job[a].rollout
    /\ pointer # None /\ pc["relay"] \in {"verify", "install", "report"} => pointer.slot # job["relay"].slot

\* An attempt is installed once at most.
UsedOnce == \A s \in Slots : used[s] <= 1

\* What is about to be installed was prepared under the policy it is installed by.
UnderItsPolicy ==
    \A a \in Actors : pc[a] \in {"install", "report"} => dirs[job[a].slot].policy = job[a].policy

PreparationSafe == TypeOK /\ NamesWhole /\ OwnAttempt /\ UsedOnce /\ UnderItsPolicy

\* When HQ, the policy and the faults are at rest, the rollout that HQ assigns
\* comes to stay, whatever the cache held before.
Arrived == assigned = None \/ assigned \in expired \/ active = assigned
Converges == <>[]Arrived

=============================================================================
