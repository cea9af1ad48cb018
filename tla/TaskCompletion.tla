--------------------------- MODULE TaskCompletion ---------------------------
(***************************************************************************)
(* How a finished task and its trajectory reach HQ (executeOneTask and     *)
(* finalizeRecoveredSignedTaskTrajectories in packages/cli/src/index.ts,   *)
(* with the vault, the receipt store and the outbox they use).             *)
(*                                                                         *)
(* A workspace loop of the relay polls a task, runs it, keeps its receipt, *)
(* stages the trajectory in the vault, posts the outcome with the hash of  *)
(* the trajectory, sends the trajectory or withholds it when the policy it *)
(* was made under was superseded, acknowledges the stored completion and   *)
(* clears the staged evidence.  A loop that fails is started again with a  *)
(* new client and first finishes what it finds in the protocol-state file. *)
(*                                                                         *)
(* The outbox is reduced to what these steps see of it: a completion that  *)
(* is pending, and the stored completions.  Every signed request of a loop *)
(* saves that loop's copy over the file, whatever another loop saved.      *)
(***************************************************************************)
EXTENDS Integers, FiniteSets

CONSTANTS
    WorkspaceLoops,       \* workspace loops of one relay process
    Tasks,       \* tasks with a skill bundle
    Home,        \* the loop of each task's workspace
    Revisions,   \* policy revisions
    None,
    MaxFaults,   \* bound on crashes, lost answers and failed requests
    MaxChanges   \* bound on policy changes

\* A trajectory: made from the provider's output or from the durable receipt,
\* which has none, and under a policy revision.
Trajectory == [output : {"full", "stripped"}, revision : Revisions]
Completion == [task : Tasks, trajectory : Trajectory]

CompletionAssumption ==
    /\ Home \in [Tasks -> WorkspaceLoops]
    /\ Revisions # {}
    /\ {MaxFaults, MaxChanges} \subseteq Nat
    /\ None \notin WorkspaceLoops
    /\ None \notin Revisions
    /\ None \notin Trajectory
    /\ None \notin Completion

OutboxState == [pending : Completion \cup {None}, stored : SUBSET Completion]

VARIABLES
    accepted,   \* the trajectory HQ was promised with each completion
    sent,       \* the trajectory HQ has
    policy,     \* the revision HQ authorizes
    receipts,   \* tasks with a durable receipt
    staged,     \* staged recovery evidence in the vault
    capsules,   \* committed captures in the vault
    queue,      \* the vault's capsule sync queue
    discarded,  \* captures recorded as not to be sent
    file,       \* the protocol-state file
    mem,        \* each loop's copy of it
    known,      \* the revision a loop last fetched for its evidence cycle
    pc, work, todo,  \* where a loop is, its completion, what it has to finalize
    turn,       \* the loop that has the relay's task queue
    faults, changes

hq == <<accepted, sent, policy>>
vault == <<staged, capsules, queue, discarded>>
counters == <<faults, changes>>
vars == <<hq, receipts, vault, file, mem, known, pc, work, todo, turn, counters>>

Phases == {"closed", "session", "recover", "idle", "run", "stage", "post", "posted",
           "finalize", "policy", "commit", "keep", "withhold", "queue", "upload",
           "acknowledge", "clear", "conflict", "missing"}

-----------------------------------------------------------------------------
Put(f, x, v) == [f EXCEPT ![x] = v]
GoTo(l, p) == pc' = Put(pc, l, p)

\* A signed request of loop l saves what the loop has in memory.
Save(l, s) == mem' = Put(mem, l, s) /\ file' = s

WithPending(s, c) == [s EXCEPT !.pending = c]

\* Mutant: HQ's receipt is not stored with the answer.
Forgets(s, c) == [s EXCEPT !.pending = None]

\* Mutant: the completion is stored without the hash of its trajectory.
Appends(s, c) == [pending |-> None, stored |-> s.stored \cup {Put(c, "trajectory", None)}]

\* #recordRecoveredTaskCompletion.
Recorded(s, c) == [pending |-> None, stored |-> s.stored \cup {c}]

WithoutStored(s, c) == [s EXCEPT !.stored = @ \ {c}]

\* The loop throws: its client is given up and the task queue moves on.
Throws(l, p) ==
    /\ GoTo(l, p)
    /\ turn' = IF turn = l THEN None ELSE turn

Fault == faults < MaxFaults /\ faults' = faults + 1

Init ==
    /\ accepted = [t \in Tasks |-> None]
    /\ sent = [t \in Tasks |-> None]
    /\ policy \in Revisions
    /\ receipts = {}
    /\ staged = [t \in Tasks |-> None]
    /\ capsules = [t \in Tasks |-> None]
    /\ queue = {}
    /\ discarded = {}
    /\ file = [pending |-> None, stored |-> {}]
    /\ mem = [l \in WorkspaceLoops |-> file]
    /\ known = [l \in WorkspaceLoops |-> None]
    /\ pc = [l \in WorkspaceLoops |-> "closed"]
    /\ work = [l \in WorkspaceLoops |-> None]
    /\ todo = [l \in WorkspaceLoops |-> {}]
    /\ turn = None
    /\ faults = 0
    /\ changes = 0

-----------------------------------------------------------------------------
(* HQ (external): it promises nothing but to take each completion and each *)
(* trajectory once, and to keep the first.                                 *)
Take(c) == accepted' = IF accepted[c.task] = None
                       THEN Put(accepted, c.task, c.trajectory) ELSE accepted

Receive(c) == sent' = IF sent[c.task] = None
                      THEN Put(sent, c.task, c.trajectory) ELSE sent

\* An administrator approves another policy revision, or an earlier one again.
ChangePolicy ==
    /\ changes < MaxChanges
    /\ changes' = changes + 1
    /\ policy' \in Revisions \ {policy}
    /\ UNCHANGED <<accepted, sent, receipts, vault, file, mem,
                   known, pc, work, todo, turn, faults>>

-----------------------------------------------------------------------------
(* A loop opens its client, and a protocol session.                        *)
Open(l) ==
    /\ pc[l] = "closed"
    /\ mem' = Put(mem, l, file)
    /\ known' = Put(known, l, None)
    /\ GoTo(l, "session")
    /\ UNCHANGED <<hq, receipts, vault, file, work, todo, turn, counters>>

\* A completion found pending is sent again first.
OpenSession(l) ==
    /\ pc[l] = "session"
    /\ IF mem[l].pending = None
       THEN Save(l, mem[l]) /\ UNCHANGED accepted
       ELSE Save(l, Recorded(mem[l], mem[l].pending)) /\ Take(mem[l].pending)
    /\ GoTo(l, "recover")
    /\ UNCHANGED <<sent, policy, receipts, vault, work, todo, turn, known, counters>>

\* Mutant: what was stored before the loop started is not finalized.
RecoversNothing(l) ==
    /\ pc[l] = "recover"
    /\ GoTo(l, "idle")
    /\ UNCHANGED <<hq, receipts, vault, file, mem, todo, work, turn, known, counters>>

\* listRecoveredTaskCompletions, before the loop polls anything.
Recover(l) ==
    /\ pc[l] = "recover"
    /\ todo' = Put(todo, l, mem[l].stored)
    /\ GoTo(l, "finalize")
    /\ UNCHANGED <<hq, receipts, vault, file, mem, work, turn, known, counters>>

-----------------------------------------------------------------------------
(* One task: serialized over all loops of the process.                     *)
\* HQ hands out a task whose outcome it does not have, again if its lease ran out.
Poll(l) ==
    /\ pc[l] = "idle"
    /\ turn = None
    /\ Save(l, mem[l])
    /\ \/ \E t \in Tasks :
            /\ accepted[t] = None
            /\ work' = Put(work, l, [task |-> t, trajectory |-> [output |-> "full", revision |-> policy]])
            /\ turn' = l
            /\ GoTo(l, "run")
       \/ UNCHANGED <<work, turn, pc>>
    /\ UNCHANGED <<accepted, sent, policy, receipts, vault, todo, known, counters>>

\* executeTask: a task that has a receipt is not run again, but the durable
\* receipt has no output.
Run(l) ==
    /\ pc[l] = "run"
    /\ receipts' = receipts \cup {work[l].task}
    /\ work' = IF work[l].task \in receipts
               THEN [work EXCEPT ![l].trajectory.output = "stripped"] ELSE work
    /\ GoTo(l, "stage")
    /\ UNCHANGED <<hq, vault, file, mem, todo, turn, known, counters>>

\* Mutant: the outcome is posted before its evidence is staged.
StagesLater(l) ==
    /\ pc[l] = "stage"
    /\ GoTo(l, "post")
    /\ UNCHANGED <<hq, receipts, vault, file, mem, work, todo, turn, known, counters>>

\* stageTaskCompletionRecovery: what is staged cannot change.
Stage(l) ==
    LET c == work[l] IN
    /\ pc[l] = "stage"
    /\ IF staged[c.task] \in {None, c.trajectory}
       THEN /\ staged' = Put(staged, c.task, c.trajectory)
            /\ GoTo(l, "post")
            /\ UNCHANGED turn
       ELSE /\ Throws(l, "conflict")
            /\ UNCHANGED staged
    /\ UNCHANGED <<hq, receipts, capsules, queue, discarded, file, mem, work, todo, known, counters>>

\* postTaskOutcome: the completion is saved before it leaves the device.
Post(l) ==
    /\ pc[l] = "post"
    /\ Save(l, WithPending(mem[l], work[l]))
    /\ GoTo(l, "posted")
    /\ UNCHANGED <<hq, receipts, vault, work, todo, turn, known, counters>>

\* HQ's answer; this completion is finalized next.
Posted(l) ==
    /\ pc[l] = "posted"
    /\ Take(work[l])
    /\ Save(l, Recorded(mem[l], work[l]))
    /\ todo' = Put(todo, l, {work[l]})
    /\ GoTo(l, "finalize")
    /\ UNCHANGED <<sent, policy, receipts, vault, work, turn, known, counters>>

\* The loop failed on changed or missing evidence and is started again.
Restart(l) ==
    /\ pc[l] \in {"conflict", "missing"}
    /\ GoTo(l, "closed")
    /\ UNCHANGED <<hq, receipts, vault, file, mem, work, todo, turn, known, counters>>

-----------------------------------------------------------------------------
(* finalizeRecoveredSignedTaskTrajectories.                                *)
\* The staged evidence of a stored completion must be there and match.
Choose(l) ==
    /\ pc[l] = "finalize"
    /\ \E c \in todo[l] :
        /\ work' = Put(work, l, c)
        /\ IF staged[c.task] = c.trajectory
           THEN GoTo(l, "policy") /\ UNCHANGED turn
           ELSE Throws(l, "missing")
    /\ UNCHANGED <<hq, receipts, vault, file, mem, known, todo, counters>>

FinalizedAll(l) ==
    /\ pc[l] = "finalize"
    /\ todo[l] = {}
    /\ Throws(l, "idle")
    /\ UNCHANGED <<hq, receipts, vault, file, mem, known, work, todo, counters>>

\* refreshVerifiedWorkspacePolicyForTransmission, recoveredTaskPolicyWasSuperseded.
RefreshPolicy(l) ==
    /\ pc[l] = "policy"
    /\ Save(l, mem[l])
    /\ GoTo(l, IF work[l].trajectory.revision = policy THEN "commit" ELSE "keep")
    /\ UNCHANGED <<hq, receipts, vault, known, work, todo, turn, counters>>

\* getCapsuleMetadata, commitCapture: a capsule that is there must be the same.
Commit(l) ==
    LET c == work[l] IN
    /\ pc[l] \in {"commit", "keep"}
    /\ IF capsules[c.task] \in {None, c.trajectory}
       THEN /\ capsules' = Put(capsules, c.task, c.trajectory)
            /\ GoTo(l, IF pc[l] = "commit" THEN "queue" ELSE "withhold")
            /\ UNCHANGED turn
       ELSE /\ Throws(l, "conflict")
            /\ UNCHANGED capsules
    /\ UNCHANGED <<hq, receipts, staged, queue, discarded, file, mem, known, work, todo, counters>>

\* Mutant: the capsule stays in the queue of capsules to send.
LeavesQueued(l) ==
    /\ pc[l] = "withhold"
    /\ discarded' = discarded \cup {work[l].task}
    /\ GoTo(l, "acknowledge")
    /\ UNCHANGED <<hq, receipts, staged, capsules, queue, file, mem, known, work, todo, turn, counters>>

\* discardPendingCapsuleSync: the evidence stays on the device.
Withhold(l) ==
    /\ pc[l] = "withhold"
    /\ queue' = queue \ {work[l].task}
    /\ discarded' = discarded \cup {work[l].task}
    /\ GoTo(l, "acknowledge")
    /\ UNCHANGED <<hq, receipts, staged, capsules, file, mem, known, work, todo, turn, counters>>

\* queueCapsuleSync.
Queue(l) ==
    /\ pc[l] = "queue"
    /\ queue' = queue \cup {work[l].task}
    /\ GoTo(l, "upload")
    /\ UNCHANGED <<hq, receipts, staged, capsules, discarded, file, mem, known, work, todo, turn, counters>>

\* syncTrajectory, markCapsuleSynced.
Upload(l) ==
    /\ pc[l] = "upload"
    /\ Save(l, mem[l])
    /\ Receive(work[l])
    /\ queue' = queue \ {work[l].task}
    /\ GoTo(l, "acknowledge")
    /\ UNCHANGED <<accepted, policy, receipts, staged, capsules, discarded, known, work, todo, turn, counters>>

\* acknowledgeRecoveredTaskCompletion.
Acknowledge(l) ==
    /\ pc[l] = "acknowledge"
    /\ Save(l, WithoutStored(mem[l], work[l]))
    /\ GoTo(l, "clear")
    /\ UNCHANGED <<hq, receipts, vault, known, work, todo, turn, counters>>

\* clearTaskCompletionRecovery.
Clear(l) ==
    /\ pc[l] = "clear"
    /\ staged' = Put(staged, work[l].task, None)
    /\ todo' = Put(todo, l, todo[l] \ {work[l]})
    /\ GoTo(l, "finalize")
    /\ UNCHANGED <<hq, receipts, capsules, queue, discarded, file, mem, known, work, turn, counters>>

-----------------------------------------------------------------------------
(* The evidence cycle of a loop: the policy is fetched at most once a      *)
(* minute, then queued capsules of the workspace are sent or discarded.    *)
FetchPolicy(l) ==
    /\ pc[l] = "idle"
    /\ Save(l, mem[l])
    /\ known' = Put(known, l, policy)
    /\ UNCHANGED <<hq, receipts, vault, pc, work, todo, turn, counters>>

SyncQueued(l) ==
    /\ pc[l] = "idle"
    /\ known[l] # None
    /\ \E t \in queue :
        /\ Home[t] = l
        /\ queue' = queue \ {t}
        /\ IF capsules[t].revision = known[l]
           THEN /\ Receive([task |-> t, trajectory |-> capsules[t]])
                /\ Save(l, mem[l])
                /\ UNCHANGED discarded
           ELSE /\ discarded' = discarded \cup {t}
                /\ UNCHANGED <<sent, file, mem>>
    /\ UNCHANGED <<accepted, policy, receipts, staged, capsules, known, pc, work, todo, turn, counters>>

-----------------------------------------------------------------------------
(* Failures.                                                               *)
Requesting == {"session", "idle", "post", "posted", "policy", "upload"}

\* A step throws.  A request that was not answered has saved the loop's copy.
LoopFails(l) ==
    /\ Fault
    /\ pc[l] # "closed"
    /\ Throws(l, "closed")
    /\ file' \in IF pc[l] \in Requesting THEN {file, mem[l]} ELSE {file}
    /\ UNCHANGED <<hq, receipts, vault, mem, known, work, todo, changes>>

\* HQ answers that retention is not ready: recovery is put off until the loop
\* is started again, and the evidence cycle until the policy is fetched again.
NotReady(l) ==
    /\ Fault
    /\ pc[l] \in {"upload", "idle"}
    /\ turn # l
    /\ Save(l, mem[l])
    /\ GoTo(l, "idle")
    /\ todo' = Put(todo, l, {})
    /\ known' = IF pc[l] = "idle" THEN Put(known, l, None) ELSE known
    /\ UNCHANGED <<hq, receipts, vault, work, turn, changes>>

\* HQ has the completion or the trajectory, and its answer is lost.
AnswerLost(l) ==
    /\ Fault
    /\ \/ /\ pc[l] = "session" /\ mem[l].pending # None
          /\ Take(mem[l].pending) /\ UNCHANGED sent
       \/ /\ pc[l] = "posted"
          /\ Take(work[l]) /\ UNCHANGED sent
       \/ /\ pc[l] = "upload"
          /\ Receive(work[l]) /\ UNCHANGED accepted
    /\ file' = mem[l]
    /\ Throws(l, "closed")
    /\ UNCHANGED <<policy, receipts, vault, mem, known, work, todo, changes>>

\* The relay process ends.
Crash ==
    /\ Fault
    /\ pc' = [l \in WorkspaceLoops |-> "closed"]
    /\ turn' = None
    /\ UNCHANGED <<hq, receipts, vault, file, mem, known, work, todo, changes>>

Step(l) ==
    \/ Open(l) \/ OpenSession(l) \/ Recover(l) \/ Poll(l) \/ Run(l) \/ Stage(l) \/ Restart(l)
    \/ Post(l) \/ Posted(l) \/ Choose(l) \/ FinalizedAll(l) \/ RefreshPolicy(l) \/ Commit(l)
    \/ Withhold(l) \/ Queue(l) \/ Upload(l) \/ Acknowledge(l) \/ Clear(l)
    \/ FetchPolicy(l) \/ SyncQueued(l)

Next ==
    \/ \E l \in WorkspaceLoops : Step(l) \/ LoopFails(l) \/ NotReady(l) \/ AnswerLost(l)
    \/ Crash
    \/ ChangePolicy

Spec == Init /\ [][Next]_vars

\* The supervisor starts a loop again whenever it ended; a loop goes on as
\* long as its requests are answered, and cycles for ever.
FairSpec ==
    /\ Spec
    /\ \A l \in WorkspaceLoops :
        /\ WF_vars(pc[l] # "idle" /\ Step(l))
        /\ WF_vars(FetchPolicy(l))
        /\ SF_vars(SyncQueued(l))

-----------------------------------------------------------------------------
(* Properties.                                                             *)
TypeOK ==
    /\ accepted \in [Tasks -> Trajectory \cup {None}]
    /\ sent \in [Tasks -> Trajectory \cup {None}]
    /\ policy \in Revisions
    /\ receipts \subseteq Tasks
    /\ staged \in [Tasks -> Trajectory \cup {None}]
    /\ capsules \in [Tasks -> Trajectory \cup {None}]
    /\ queue \subseteq Tasks
    /\ discarded \subseteq Tasks
    /\ file \in OutboxState
    /\ mem \in [WorkspaceLoops -> OutboxState]
    /\ known \in [WorkspaceLoops -> Revisions \cup {None}]
    /\ pc \in [WorkspaceLoops -> Phases]
    /\ work \in [WorkspaceLoops -> Completion \cup {None}]
    /\ todo \in [WorkspaceLoops -> SUBSET Completion]
    /\ turn \in WorkspaceLoops \cup {None}
    /\ faults \in 0..MaxFaults
    /\ changes \in 0..MaxChanges

Stored(t) == {c \in file.stored : c.task = t}
InMemory(t) == {c \in UNION {mem[l].stored : l \in WorkspaceLoops} : c.task = t}

\* Every completion that a started loop will find stored has its evidence
\* staged, and it is the evidence that was promised with it; otherwise every
\* loop that is started with this file throws before it polls anything
\* (finalizeRecoveredSignedTaskTrajectories, "is missing its encrypted local
\* evidence", "does not match its trajectory capsule").
RecoverableCompletions == \A c \in file.stored : staged[c.task] = c.trajectory

\* The trajectory that was promised with an accepted completion is on the
\* device, staged or committed, and it is at HQ, or recorded as not to be
\* sent, or the protocol-state file still says that it has to be settled
\* (the order stage, post, record, commit, send, acknowledge, clear).
Accounted ==
    \A t \in Tasks : accepted[t] # None =>
        /\ accepted[t] \in {staged[t], capsules[t]}
        /\ \/ sent[t] = accepted[t]
           \/ t \in discarded
           \/ Stored(t) # {}
           \/ file.pending # None /\ file.pending.task = t

\* What holds of every state: the types, recoverable completions, and every
\* promised trajectory accounted for.
CompletionSafe == TypeOK /\ RecoverableCompletions /\ Accounted

\* A trajectory that was discarded, and whose completion is settled, is never
\* sent afterwards, also when the earlier policy is approved again
\* (discardPendingCapsuleSync takes it out of the queue).
Withholds == \A t \in discarded : Stored(t) = {} /\ InMemory(t) = {} => sent'[t] = sent[t]
WithheldStaysHome == [][Withholds]_vars

\* The trajectory of an accepted completion is sent or discarded in the end,
\* whatever fails on the way (recovery before the first poll, and the sync
\* queue when recovery was put off).
Owed(t) == accepted[t] # None /\ sent[t] = None /\ t \notin discarded
EvidenceDelivered == (\E t \in Tasks : Owed(t)) ~> \A t \in Tasks : ~Owed(t)

=============================================================================
