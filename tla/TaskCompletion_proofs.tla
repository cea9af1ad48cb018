------------------------ MODULE TaskCompletion_proofs ------------------------
(***************************************************************************)
(* Proofs about TaskCompletion and, at the end, about ActionExecution and  *)
(* SessionInbox.                                                           *)
(*                                                                         *)
(* TaskCompletion with one workspace loop: whatever crashes,               *)
(* fails, is lost or not ready, and however the policy changes, every      *)
(* completion that HQ has taken stays recoverable until its trajectory is  *)
(* sent or withheld, and a withheld one stays on the device.  Loops that   *)
(* share the protocol-state file overwrite each other's completions, which *)
(* the runs show of SignedOutbox.                                          *)
(***************************************************************************)
EXTENDS TaskCompletion, TLAPS

OneLoop == \A k, l \in WorkspaceLoops : k = l

Running == {"run", "stage", "post", "posted"}
Finalizing == {"policy", "commit", "keep", "withhold", "queue", "upload", "acknowledge"}
Committed == {"withhold", "queue", "upload", "acknowledge", "clear"}
Settled == {"acknowledge", "clear"}

\* A stored completion is the one that HQ has, and its evidence is staged.
Recoverable ==
    \A c \in file.stored : accepted[c.task] = c.trajectory /\ staged[c.task] = c.trajectory

\* So is a pending one's, which HQ may not have.
PendingStaged ==
    file.pending # None =>
        /\ staged[file.pending.task] = file.pending.trajectory
        /\ accepted[file.pending.task] \in {None, file.pending.trajectory}

\* What the loop works on, at each of its steps.
AtWork(l) ==
    /\ mem[l] = file
    /\ pc[l] \notin {"closed", "session", "posted"} => file.pending = None
    /\ pc[l] \in Running \cup Finalizing \cup {"clear"} => work[l] \in Completion
    /\ pc[l] \in Running => accepted[work[l].task] = None
    /\ pc[l] \in {"post", "posted"} => staged[work[l].task] = work[l].trajectory
    /\ pc[l] = "posted" => file.pending = work[l]
    /\ pc[l] \in Finalizing \cup {"finalize"} => todo[l] \subseteq file.stored
    /\ pc[l] \in Finalizing => work[l] \in file.stored
    /\ pc[l] = "clear" => /\ todo[l] \ {work[l]} \subseteq file.stored
                          /\ work[l] \notin file.stored
                          /\ accepted[work[l].task] = work[l].trajectory
    /\ pc[l] \in Committed => capsules[work[l].task] = work[l].trajectory
    /\ pc[l] \in Settled => /\ work[l].task \notin queue
                            /\ sent[work[l].task] = work[l].trajectory \/ work[l].task \in discarded

Working == \A l \in WorkspaceLoops : AtWork(l)

\* What is committed, sent or queued is what HQ was promised, and what is
\* queued is still stored.
Kept ==
    \A t \in Tasks :
        /\ capsules[t] \in {None, accepted[t]}
        /\ sent[t] \in {None, accepted[t]}
        /\ t \in queue => capsules[t] # None /\ \E c \in file.stored : c.task = t
        /\ accepted[t] # None =>
            /\ accepted[t] \in {staged[t], capsules[t]}
            /\ \/ sent[t] = accepted[t]
               \/ t \in discarded
               \/ \E c \in file.stored : c.task = t
               \/ file.pending # None /\ file.pending.task = t

IInv == TypeOK /\ Recoverable /\ PendingStaged /\ Working /\ Kept

-----------------------------------------------------------------------------
LEMMA InitHolds == CompletionAssumption /\ Init => IInv
  <1> SUFFICES ASSUME CompletionAssumption, Init PROVE IInv
    OBVIOUS
  <1> USE DEF CompletionAssumption, Init
  <1>1. TypeOK
    BY DEF TypeOK, OutboxState, Phases
  <1>2. Recoverable /\ PendingStaged /\ Working /\ Kept
    BY DEF Recoverable, PendingStaged, Working, AtWork, Kept, Running, Finalizing, Committed,
       Settled
  <1> QED
    BY <1>1, <1>2 DEF IInv

\* What the operations of the outbox make of it.
LEMMA Outbox ==
    ASSUME CompletionAssumption PROVE
    /\ \A c \in Completion : c # None /\ c.task \in Tasks /\ c.trajectory \in Trajectory /\ c.trajectory # None
    /\ \A c, d \in Completion : c.task = d.task /\ c.trajectory = d.trajectory => c = d
    /\ \A t \in Tasks, v \in Trajectory :
          LET c == [task |-> t, trajectory |-> v] IN c \in Completion /\ c.task = t /\ c.trajectory = v
    /\ \A s \in OutboxState :
        /\ s.pending \in Completion \cup {None}
        /\ s.stored \subseteq Completion
        /\ \A c \in Completion :
            /\ WithPending(s, c) \in OutboxState
            /\ WithPending(s, c).pending = c /\ WithPending(s, c).stored = s.stored
            /\ Recorded(s, c) \in OutboxState
            /\ Recorded(s, c).pending = None /\ Recorded(s, c).stored = s.stored \cup {c}
            /\ WithoutStored(s, c) \in OutboxState
            /\ WithoutStored(s, c).pending = s.pending /\ WithoutStored(s, c).stored = s.stored \ {c}
  <1> USE DEF CompletionAssumption, Completion, OutboxState
  <1>1. \A c \in Completion : c # None /\ c.task \in Tasks /\ c.trajectory \in Trajectory /\ c.trajectory # None
    OBVIOUS
  <1>2. \A c, d \in Completion : c.task = d.task /\ c.trajectory = d.trajectory => c = d
    OBVIOUS
  <1>3. \A t \in Tasks, v \in Trajectory :
          LET c == [task |-> t, trajectory |-> v] IN c \in Completion /\ c.task = t /\ c.trajectory = v
    OBVIOUS
  <1>4. ASSUME NEW s \in OutboxState PROVE s.pending \in Completion \cup {None} /\ s.stored \subseteq Completion
    OBVIOUS
  <1>5. ASSUME NEW s \in OutboxState, NEW c \in Completion PROVE
            /\ WithPending(s, c) \in OutboxState
            /\ WithPending(s, c).pending = c /\ WithPending(s, c).stored = s.stored
            /\ Recorded(s, c) \in OutboxState
            /\ Recorded(s, c).pending = None /\ Recorded(s, c).stored = s.stored \cup {c}
            /\ WithoutStored(s, c) \in OutboxState
            /\ WithoutStored(s, c).pending = s.pending /\ WithoutStored(s, c).stored = s.stored \ {c}
    BY DEF WithPending, Recorded, WithoutStored
  <1> HIDE DEF Completion, OutboxState
  <1> QED
    BY <1>1, <1>2, <1>3, <1>4, <1>5

\* HQ keeps what it took first.
LEMMA TakeIs ==
    ASSUME CompletionAssumption, accepted \in [Tasks -> Trajectory \cup {None}], NEW c \in Completion, Take(c)
    PROVE /\ accepted' \in [Tasks -> Trajectory \cup {None}]
          /\ accepted'[c.task] = IF accepted[c.task] = None THEN c.trajectory ELSE accepted[c.task]
          /\ \A t \in Tasks : t # c.task => accepted'[t] = accepted[t]
  BY Outbox DEF Take, Put

LEMMA ReceiveIs ==
    ASSUME CompletionAssumption, sent \in [Tasks -> Trajectory \cup {None}], NEW c \in Completion, Receive(c)
    PROVE /\ sent' \in [Tasks -> Trajectory \cup {None}]
          /\ sent'[c.task] = IF sent[c.task] = None THEN c.trajectory ELSE sent[c.task]
          /\ \A t \in Tasks : t # c.task => sent'[t] = sent[t]
  BY Outbox DEF Receive, Put

LEMMA TypeStep == ASSUME CompletionAssumption, TypeOK, Working, Next PROVE TypeOK'
  <1> USE CompletionAssumption DEF CompletionAssumption, TypeOK, Phases, hq, vault, counters, Put,
      GoTo
  <1>1. ASSUME NEW l \in WorkspaceLoops, Step(l) \/ LoopFails(l) \/ NotReady(l) \/ AnswerLost(l) PROVE TypeOK'
    <2> USE DEF Throws, Save, Fault
    <2>a. pc[l] \in Running \cup Finalizing \cup {"clear"} => work[l] \in Completion
      BY DEF Working, AtWork
    <2>b. mem[l] \in OutboxState /\ mem[l].stored \subseteq Completion
          /\ mem[l].pending \in Completion \cup {None}
      BY Outbox
    <2>c. /\ mem[l].pending # None => Recorded(mem[l], mem[l].pending) \in OutboxState
          /\ work[l] \in Completion =>
              /\ Recorded(mem[l], work[l]) \in OutboxState
              /\ WithPending(mem[l], work[l]) \in OutboxState
              /\ WithoutStored(mem[l], work[l]) \in OutboxState
              /\ work[l].task \in Tasks /\ work[l].trajectory \in Trajectory
      BY Outbox, <2>b
    <2> USE <2>a, <2>b, <2>c DEF Running, Finalizing
    <2>1. ASSUME Open(l) PROVE TypeOK'
      BY <2>1 DEF Open
    <2>2. ASSUME OpenSession(l) PROVE TypeOK'
      <3>1. accepted' \in [Tasks -> Trajectory \cup {None}]
        BY <2>2, TakeIs DEF OpenSession
      <3> QED
        BY <2>2, <3>1 DEF OpenSession
    <2>3. ASSUME Recover(l) PROVE TypeOK'
      BY <2>3 DEF Recover
    <2>4. ASSUME Poll(l) PROVE TypeOK'
      <3>1. work' \in [WorkspaceLoops -> Completion \cup {None}]
        <4>1. \A t \in Tasks :
                [task |-> t, trajectory |-> [output |-> "full", revision |-> policy]] \in Completion
          BY DEF Completion, Trajectory
        <4> QED
          BY <2>4, <4>1 DEF Poll
      <3> QED
        BY ZenonT(60), <2>4, <3>1 DEF Poll
    <2>5. ASSUME Run(l) PROVE TypeOK'
      <3>1. work[l] \in Completion
        BY <2>5 DEF Run
      <3>2. [work[l] EXCEPT !.trajectory.output = "stripped"] \in Completion
        BY <3>1 DEF Completion, Trajectory
      <3>3. work' \in [WorkspaceLoops -> Completion \cup {None}]
        BY <2>5, <3>2 DEF Run
      <3> QED
        BY <2>5, <3>3 DEF Run
    <2>6. ASSUME Stage(l) PROVE TypeOK'
      <3>1. work[l] \in Completion
        BY <2>6 DEF Stage
      <3>2. staged' \in [Tasks -> Trajectory \cup {None}]
        BY <2>6, <3>1 DEF Stage
      <3> QED
        BY <2>6, <3>2 DEF Stage
    <2>7. ASSUME Restart(l) PROVE TypeOK'
      BY <2>7 DEF Restart
    <2>8. ASSUME Post(l) PROVE TypeOK'
      BY <2>8 DEF Post
    <2>9. ASSUME Posted(l) PROVE TypeOK'
      <3>1. work[l] \in Completion
        BY <2>9 DEF Posted
      <3>2. accepted' \in [Tasks -> Trajectory \cup {None}]
        BY <2>9, <3>1, TakeIs DEF Posted
      <3> QED
        BY <2>9, <3>1, <3>2 DEF Posted
    <2>10. ASSUME Choose(l) PROVE TypeOK'
      <3>1. work' \in [WorkspaceLoops -> Completion \cup {None}]
        BY <2>10 DEF Choose
      <3> QED
        BY <2>10, <3>1 DEF Choose
    <2>11. ASSUME FinalizedAll(l) PROVE TypeOK'
      BY <2>11 DEF FinalizedAll
    <2>12. ASSUME RefreshPolicy(l) PROVE TypeOK'
      BY <2>12 DEF RefreshPolicy
    <2>13. ASSUME Commit(l) PROVE TypeOK'
      <3>1. work[l] \in Completion
        BY <2>13 DEF Commit
      <3>2. capsules' \in [Tasks -> Trajectory \cup {None}]
        BY <2>13, <3>1 DEF Commit
      <3> QED
        BY <2>13, <3>2 DEF Commit
    <2>14. ASSUME Withhold(l) PROVE TypeOK'
      BY <2>14 DEF Withhold
    <2>15. ASSUME Queue(l) PROVE TypeOK'
      BY <2>15 DEF Queue
    <2>16. ASSUME Upload(l) PROVE TypeOK'
      <3>1. sent' \in [Tasks -> Trajectory \cup {None}]
        BY <2>16, ReceiveIs DEF Upload
      <3> QED
        BY <2>16, <3>1 DEF Upload
    <2>17. ASSUME Acknowledge(l) PROVE TypeOK'
      BY <2>17 DEF Acknowledge
    <2>18. ASSUME Clear(l) PROVE TypeOK'
      BY <2>18 DEF Clear
    <2>19. ASSUME FetchPolicy(l) PROVE TypeOK'
      BY <2>19 DEF FetchPolicy
    <2>20. ASSUME SyncQueued(l) PROVE TypeOK'
      <3>1. sent' \in [Tasks -> Trajectory \cup {None}]
        BY <2>20 DEF SyncQueued, Receive
      <3> QED
        BY <2>20, <3>1 DEF SyncQueued
    <2>21. ASSUME LoopFails(l) PROVE TypeOK'
      BY <2>21 DEF LoopFails
    <2>22. ASSUME NotReady(l) PROVE TypeOK'
      BY <2>22 DEF NotReady
    <2>23. ASSUME AnswerLost(l) PROVE TypeOK'
      <3>1. accepted' \in [Tasks -> Trajectory \cup {None}]
        BY <2>23, TakeIs DEF AnswerLost, hq
      <3>2. sent' \in [Tasks -> Trajectory \cup {None}]
        BY <2>23, ReceiveIs DEF AnswerLost, hq
      <3> QED
        BY <2>23, <3>1, <3>2 DEF AnswerLost
    <2> QED
      BY <1>1, <2>1, <2>2, <2>3, <2>4, <2>5, <2>6, <2>7, <2>8, <2>9, <2>10, <2>11, <2>12, <2>13,
         <2>14, <2>15, <2>16, <2>17, <2>18, <2>19, <2>20, <2>21, <2>22, <2>23 DEF Step
  <1>2. ASSUME Crash PROVE TypeOK'
    BY <1>2 DEF Crash, Fault
  <1>3. ASSUME ChangePolicy PROVE TypeOK'
    BY <1>3 DEF ChangePolicy
  <1> QED
    BY <1>1, <1>2, <1>3 DEF Next

\* Every step of the one loop keeps the rest of the invariant.
LEMMA StepHolds == ASSUME CompletionAssumption, OneLoop, IInv, Next PROVE IInv'
  <1> USE CompletionAssumption DEF CompletionAssumption, IInv, hq, vault, counters
  <1>0. TypeOK'
    BY ZenonT(60), TypeStep
  <1> DEFINE Rest == Recoverable /\ PendingStaged /\ Working /\ Kept
  <1>1. ASSUME NEW l \in WorkspaceLoops, Step(l) \/ LoopFails(l) \/ NotReady(l) \/ AnswerLost(l) PROVE Rest'
    <2>a. WorkspaceLoops = {l}
      BY DEF OneLoop
    <2>b. TypeOK /\ TypeOK' /\ file \in OutboxState /\ AtWork(l) /\ file = mem[l]
      BY <1>0 DEF TypeOK, Working, AtWork
    <2>c. /\ \A c \in file.stored : c \in Completion /\ c.task \in Tasks /\ c.trajectory # None
          /\ \A c, d \in file.stored \cup {work[l]} : c \in Completion /\ d \in Completion /\ c.task = d.task /\ c.trajectory = d.trajectory => c = d
      BY <2>b, Outbox
    <2>d. file.pending # None =>
              /\ file.pending \in Completion /\ file.pending.task \in Tasks /\ file.pending.trajectory # None
              /\ Recorded(file, file.pending).pending = None
              /\ Recorded(file, file.pending).stored = file.stored \cup {file.pending}
      BY ZenonT(120), <2>b, Outbox
    <2>e. ASSUME work[l] \in Completion PROVE
              /\ work[l] # None /\ work[l].task \in Tasks /\ work[l].trajectory # None
              /\ Recorded(file, work[l]).pending = None
              /\ Recorded(file, work[l]).stored = file.stored \cup {work[l]}
              /\ WithPending(file, work[l]).pending = work[l]
              /\ WithPending(file, work[l]).stored = file.stored
              /\ WithoutStored(file, work[l]).pending = file.pending
              /\ WithoutStored(file, work[l]).stored = file.stored \ {work[l]}
      BY SMTT(60), <2>b, <2>e, Outbox
    <2> USE <2>a, <2>b, <2>c, <2>d, <2>e DEF TypeOK, Recoverable, PendingStaged, Working, AtWork,
        Kept, Running, Finalizing, Committed, Settled,
            Put, GoTo, Throws, Save, Fault
    <2>1. ASSUME Open(l) PROVE Rest'
      BY SMTT(60), <2>1 DEF Open
    <2>2. ASSUME OpenSession(l) PROVE Rest'
      <3>1. CASE file.pending = None
        BY SMTT(60), <2>2, <3>1 DEF OpenSession
      <3>2. CASE file.pending # None
        <4>1. accepted'[file.pending.task] = (IF accepted[file.pending.task] = None THEN file.pending.trajectory ELSE accepted[file.pending.task])
            /\ \A t \in Tasks : t # file.pending.task => accepted'[t] = accepted[t]
          BY <2>2, <3>2, TakeIs DEF OpenSession
        <4>2. accepted'[file.pending.task] = file.pending.trajectory
          BY <3>2, <4>1
        <4>3. file' = Recorded(file, file.pending) /\ mem'[l] = file'
          BY <2>2, <3>2 DEF OpenSession
        <4>4. UNCHANGED <<sent, policy, receipts, vault, work, todo, turn, known, counters>> /\ pc'[l] = "recover"
          BY <2>2 DEF OpenSession
        <4> HIDE DEF TypeOK
        <4> QED
          BY SMTT(60), <3>2, <4>1, <4>2, <4>3, <4>4
      <3> QED
        BY <3>1, <3>2
    <2>3. ASSUME Recover(l) PROVE Rest'
      BY SMTT(60), <2>3 DEF Recover
    <2>4. ASSUME Poll(l) PROVE Rest'
      <3>1. UNCHANGED <<accepted, sent, policy, receipts, vault, todo, known, counters, file>> /\ mem'[l] = file
            /\ file.pending = None
        BY <2>4 DEF Poll
      <3>2. CASE UNCHANGED <<work, turn, pc>>
        BY <3>1, <3>2
      <3>3. ASSUME NEW t \in Tasks, accepted[t] = None,
                   work' = Put(work, l, [task |-> t, trajectory |-> [output |-> "full", revision |-> policy]]), GoTo(l, "run")
            PROVE Rest'
        <4>1. pc'[l] = "run" /\ work'[l].task = t
          BY <3>3
        <4>2. work'[l] \in Completion
          BY <3>3 DEF Completion, Trajectory
        <4> QED
          BY <3>1, <3>3, <4>1, <4>2
      <3> QED
        BY <2>4, <3>2, <3>3 DEF Poll
    <2>5. ASSUME Run(l) PROVE Rest'
      <3>1. /\ work[l] \in Completion /\ accepted[work[l].task] = None /\ file.pending = None
            /\ UNCHANGED <<hq, vault, file, mem, todo, turn, known, counters>> /\ pc'[l] = "stage"
        BY <2>5 DEF Run
      <3>2. [work[l] EXCEPT !.trajectory.output = "stripped"] \in Completion
            /\ [work[l] EXCEPT !.trajectory.output = "stripped"].task = work[l].task
        BY SMTT(60), <3>1 DEF Completion, Trajectory
      <3>3. work'[l] \in Completion /\ work'[l].task = work[l].task
        BY <2>5, <3>1, <3>2 DEF Run
      <3> QED
        BY <3>1, <3>3
    <2>6. ASSUME Stage(l) PROVE Rest'
      BY SMTT(60), <2>6 DEF Stage
    <2>7. ASSUME Restart(l) PROVE Rest'
      BY SMTT(60), <2>7 DEF Restart
    <2>8. ASSUME Post(l) PROVE Rest'
      BY SMTT(60), <2>8 DEF Post
    <2>9. ASSUME Posted(l) PROVE Rest'
      <3>1. accepted'[work[l].task] = (IF accepted[work[l].task] = None THEN work[l].trajectory ELSE accepted[work[l].task])
            /\ \A t \in Tasks : t # work[l].task => accepted'[t] = accepted[t]
        BY <2>9, TakeIs DEF Posted
      <3>2. accepted'[work[l].task] = work[l].trajectory
        BY <2>9, <3>1 DEF Posted
      <3>3. /\ file' = Recorded(file, work[l]) /\ mem'[l] = file' /\ todo'[l] = {work[l]} /\ pc'[l] = "finalize"
            /\ UNCHANGED <<sent, policy, receipts, vault, work, turn, known, counters>>
        BY <2>9 DEF Posted
      <3> HIDE DEF TypeOK
      <3> QED
        BY SMTT(60), <2>9, <3>1, <3>2, <3>3 DEF Posted
    <2>10. ASSUME Choose(l) PROVE Rest'
      BY <2>10 DEF Choose
    <2>11. ASSUME FinalizedAll(l) PROVE Rest'
      BY <2>11 DEF FinalizedAll
    <2>12. ASSUME RefreshPolicy(l) PROVE Rest'
      BY <2>12 DEF RefreshPolicy
    <2>13. ASSUME Commit(l) PROVE Rest'
      BY <2>13 DEF Commit
    <2>14. ASSUME Withhold(l) PROVE Rest'
      BY <2>14 DEF Withhold
    <2>15. ASSUME Queue(l) PROVE Rest'
      BY SMTT(60), <2>15 DEF Queue
    <2>16. ASSUME Upload(l) PROVE Rest'
      <3>1. sent'[work[l].task] = (IF sent[work[l].task] = None THEN work[l].trajectory ELSE sent[work[l].task])
            /\ \A t \in Tasks : t # work[l].task => sent'[t] = sent[t]
        BY <2>16, ReceiveIs DEF Upload
      <3>2. sent'[work[l].task] = work[l].trajectory
        BY <2>16, <3>1 DEF Upload
      <3>3. /\ UNCHANGED <<accepted, policy, receipts, staged, capsules, discarded, known, work, todo, turn, counters, file>>
            /\ mem'[l] = file /\ pc'[l] = "acknowledge" /\ queue' = queue \ {work[l].task} /\ pc[l] = "upload"
        BY SMTT(60), <2>16 DEF Upload
      <3> QED
        BY <3>1, <3>2, <3>3
    <2>17. ASSUME Acknowledge(l) PROVE Rest'
      BY SMTT(60), <2>17 DEF Acknowledge
    <2>18. ASSUME Clear(l) PROVE Rest'
      BY <2>18 DEF Clear
    <2>19. ASSUME FetchPolicy(l) PROVE Rest'
      BY <2>19 DEF FetchPolicy
    <2>20. ASSUME SyncQueued(l) PROVE Rest'
      <3>1. PICK t \in queue :
                /\ queue' = queue \ {t}
                /\ \/ Receive([task |-> t, trajectory |-> capsules[t]]) /\ discarded' = discarded
                   \/ discarded' = discarded \cup {t} /\ sent' = sent
        BY <2>20 DEF SyncQueued
      <3>2. /\ UNCHANGED <<accepted, policy, receipts, staged, capsules, known, pc, work, todo, turn, counters, file>>
            /\ mem'[l] = file /\ pc[l] = "idle"
        BY <2>20 DEF SyncQueued
      <3>3. \A u \in Tasks : sent'[u] = sent[u] \/ sent'[u] = accepted[u]
        BY <3>1 DEF Receive
      <3>4. \A u \in Tasks : sent[u] # None => sent'[u] = sent[u]
        BY <3>1 DEF Receive
      <3> QED
        BY <3>1, <3>2, <3>3, <3>4
    <2>21. ASSUME LoopFails(l) PROVE Rest'
      BY <2>21 DEF LoopFails
    <2>22. ASSUME NotReady(l) PROVE Rest'
      BY SMTT(60), <2>22 DEF NotReady
    <2>23. ASSUME AnswerLost(l) PROVE Rest'
      <3>1. /\ UNCHANGED <<policy, receipts, vault, mem, known, work, todo, changes>>
            /\ pc'[l] = "closed" /\ file' = file
        BY <2>23 DEF AnswerLost
      <3>2. CASE pc[l] = "session" /\ file.pending # None /\ Take(file.pending) /\ UNCHANGED sent
        <4>1. accepted'[file.pending.task] = (IF accepted[file.pending.task] = None THEN file.pending.trajectory ELSE accepted[file.pending.task])
            /\ \A t \in Tasks : t # file.pending.task => accepted'[t] = accepted[t]
          BY <3>2, TakeIs
        <4> QED
          BY <3>1, <3>2, <4>1
      <3>3. CASE pc[l] = "posted" /\ Take(work[l]) /\ UNCHANGED sent
        <4>1. accepted'[work[l].task] = (IF accepted[work[l].task] = None THEN work[l].trajectory ELSE accepted[work[l].task])
            /\ \A t \in Tasks : t # work[l].task => accepted'[t] = accepted[t]
          BY <3>3, TakeIs
        <4> QED
          BY <3>1, <3>3, <4>1
      <3>4. CASE pc[l] = "upload" /\ Receive(work[l]) /\ UNCHANGED accepted
        <4>1. sent'[work[l].task] = (IF sent[work[l].task] = None THEN work[l].trajectory ELSE sent[work[l].task])
            /\ \A t \in Tasks : t # work[l].task => sent'[t] = sent[t]
          BY <3>4, ReceiveIs
        <4> QED
          BY <3>1, <3>4, <4>1
      <3> QED
        BY <2>23, <3>2, <3>3, <3>4 DEF AnswerLost
    <2> QED
      BY ZenonT(60), <1>1, <2>1, <2>2, <2>3, <2>4, <2>5, <2>6, <2>7, <2>8, <2>9, <2>10, <2>11,
         <2>12, <2>13, <2>14, <2>15, <2>16, <2>17, <2>18, <2>19, <2>20, <2>21, <2>22, <2>23 DEF Step
  <1>2. ASSUME Crash PROVE Rest'
    BY <1>2 DEF Crash, Fault, TypeOK, Recoverable, PendingStaged, Working, AtWork, Kept, Running,
       Finalizing, Committed, Settled
  <1>3. ASSUME ChangePolicy PROVE Rest'
    BY <1>3 DEF ChangePolicy, TypeOK, Recoverable, PendingStaged, Working, AtWork, Kept, Running,
       Finalizing, Committed, Settled
  <1> QED
    BY <1>0, <1>1, <1>2, <1>3 DEF Next

LEMMA IInvGives == IInv => CompletionSafe
  <1> SUFFICES ASSUME IInv PROVE CompletionSafe
    OBVIOUS
  <1>1. RecoverableCompletions
    BY DEF RecoverableCompletions, IInv, Recoverable
  <1>2. Accounted
    <2> SUFFICES ASSUME NEW t \in Tasks, accepted[t] # None PROVE Accounted!(t)!2
      BY DEF Accounted
    <2>1. (\E c \in file.stored : c.task = t) => Stored(t) # {}
      BY DEF Stored
    <2> QED
      BY <2>1 DEF IInv, Kept
  <1> QED
    BY <1>1, <1>2 DEF CompletionSafe, IInv

\* The inductive invariant, for one loop with any number of tasks and
\* revisions, through every fault and every change of its policy.
THEOREM CompletionHolds == ASSUME CompletionAssumption, OneLoop PROVE Spec => []IInv
  <1>1. Init => IInv
    BY InitHolds
  <1>2. IInv /\ [Next]_vars => IInv'
    <2>1. ASSUME IInv, UNCHANGED vars PROVE IInv'
      <3>1. TypeOK'
        BY <2>1 DEF vars, hq, vault, counters, IInv, TypeOK
      <3>2. Recoverable' /\ PendingStaged' /\ Working' /\ Kept'
        BY <2>1 DEF vars, hq, vault, counters, IInv, Recoverable, PendingStaged, Working, AtWork,
           Kept
      <3> QED
        BY <3>1, <3>2 DEF IInv
    <2> QED
      BY <2>1, StepHolds
  <1> QED
    BY <1>1, <1>2, PTL DEF Spec

\* Every completion that a started loop finds has its evidence, and every
\* trajectory that HQ was promised is sent, withheld, or still to be settled.
THEOREM CompletionIsSafe == ASSUME CompletionAssumption, OneLoop PROVE Spec => []CompletionSafe
  <1>1. IInv => CompletionSafe
    BY IInvGives
  <1> QED
    BY CompletionHolds, <1>1, PTL

\* What was withheld, and is settled, is never sent: only a stored completion
\* is queued or uploaded.
THEOREM WithheldStays == ASSUME CompletionAssumption, OneLoop PROVE Spec => WithheldStaysHome
  <1>1. ASSUME IInv, Next PROVE Withholds
    <2> SUFFICES ASSUME NEW t \in discarded, Stored(t) = {} PROVE sent'[t] = sent[t]
      BY DEF Withholds
    <2> USE <1>1 DEF IInv
    <2>1. t \in Tasks /\ \A c \in file.stored : c.task # t
      BY DEF TypeOK, Stored
    <2>2. t \notin queue
      BY <2>1 DEF Kept
    <2>3. \A l \in WorkspaceLoops : pc[l] = "upload" => work[l] \in Completion /\ work[l].task # t
      BY <2>1 DEF Working, AtWork, Finalizing
    <2>4. ASSUME NEW l \in WorkspaceLoops, pc[l] = "upload", Receive(work[l]) PROVE sent'[t] = sent[t]
      BY <2>1, <2>3, <2>4, ReceiveIs DEF TypeOK
    <2>5. ASSUME NEW l \in WorkspaceLoops, SyncQueued(l) PROVE sent'[t] = sent[t]
      <3>1. PICK u \in queue : sent' = sent \/ Receive([task |-> u, trajectory |-> capsules[u]])
        BY <2>5 DEF SyncQueued
      <3> QED
        BY <2>1, <2>2, <3>1 DEF Receive, Put, TypeOK
    <2>6. ASSUME NEW l \in WorkspaceLoops, Step(l) \/ LoopFails(l) \/ NotReady(l) \/ AnswerLost(l) PROVE sent'[t] = sent[t]
      BY <2>4, <2>5, <2>6 DEF Step, Open, OpenSession, Recover, Poll, Run, Stage, Restart, Post,
         Posted, Choose, FinalizedAll,
         RefreshPolicy, Commit, Withhold, Queue, Upload, Acknowledge, Clear, FetchPolicy,
         LoopFails, NotReady, AnswerLost, hq
    <2> QED
      BY <1>1, <2>6 DEF Next, Crash, ChangePolicy, hq
  <1>2. IInv /\ [Next]_vars => [Withholds]_vars
    BY <1>1
  <1> QED
    BY CompletionHolds, <1>2, PTL DEF Spec, WithheldStaysHome

-----------------------------------------------------------------------------
(* ActionExecution with one runner, which is what the lease of the relay   *)
(* gives a device: for every decision, with or without a replay guard,     *)
(* whatever crashes, fails or expires, and however often the task is       *)
(* handed out, the action is executed at most once and its receipts are    *)
(* honest.  With two runners TLC finds it executed twice.                  *)

CONSTANTS Runners, Decisions, Guards, MaxEffects
VARIABLES released, guarded, record, claim, consumed, stored, effects, returned, at, seen, answer, mishaps

Action == INSTANCE ActionExecution WITH pc <- at, faults <- mishaps

OneRunner == \A r, s \in Runners : r = s

\* Only the runner writes the record, so what it has read of it is still so when it writes.
ReadsHold ==
    \A r \in Runners :
        /\ seen[r] \in {None, record}
        /\ at[r] \in {"consume", "claim", "mark", "run"} => seen[r] = None
        /\ at[r] = "write" => record # None /\ record.state = "torn"
        /\ at[r] = "look" => seen[r] # None /\ record.state \notin {"torn", "recorded"}
        /\ at[r] \in Action!Transitions /\ seen[r] # None => record.state \in Action!Allowed[at[r]]

\* The action is executed only while the record says so, which it says once.
MarkedFirst ==
    /\ effects \in {0, 1}
    /\ effects = 1 => record # None /\ record.state \in {"executing", "observed", "recorded"}
    /\ \A r \in Runners : at[r] = "run" => record # None /\ record.state = "executing" /\ effects = 0

\* A receipt is that of the decision and of the execution, wherever it is.
Honest(d) == (d = "executed" => effects = 1) /\ (d = "contained" => ~released)

Receipts ==
    /\ record # None => record.receipt = None \/ Honest(record.receipt)
    /\ record # None /\ record.state = "recorded" => record.receipt # None
    /\ \A d \in returned : Honest(d)
    /\ \A r \in Runners :
        /\ answer[r] = None \/ Honest(answer[r])
        /\ at[r] \in {"observe", "record", "unclaim", "put"} => answer[r] # None

\* Where the decision does not release the action, nothing but its refusal is done.
Refuses ==
    ~released =>
        /\ effects = 0 /\ claim = None /\ returned \subseteq {"contained"}
        /\ record # None => record.state \in {"torn", "prepared", "recorded"}
                            /\ record.receipt \in {None, "contained"}
        /\ \A r \in Runners :
            /\ at[r] \in {"idle", "prepare", "write", "look", "record", "unclaim", "put"}
            /\ answer[r] \in {None, "contained"}

\* The types of the properties; effects are bounded by MarkedFirst.
Flagged == released \in BOOLEAN /\ guarded \in BOOLEAN /\ consumed \in BOOLEAN

ActionTypes ==
    /\ record \in Action!Record \cup {None}
    /\ claim \in Action!Claim \cup {None}
    /\ stored \in Action!Dispositions \cup {None}
    /\ returned \subseteq Action!Dispositions
    /\ at \in [Runners -> Action!Phases]
    /\ seen \in [Runners -> Action!Record \cup {None}]
    /\ answer \in [Runners -> Action!Dispositions \cup {None}]
    /\ mishaps \in 0..MaxFaults

ActionInv == Flagged /\ ActionTypes /\ ReadsHold /\ MarkedFirst /\ Receipts /\ Refuses

-----------------------------------------------------------------------------
LEMMA ActionBegins == Action!ActionAssumption /\ Action!Init => ActionInv
  <1> SUFFICES ASSUME Action!ActionAssumption, Action!Init PROVE ActionInv
    OBVIOUS
  <1> USE DEF Action!ActionAssumption, Action!Init
  <1>1. Flagged
    BY Zenon DEF Flagged
  <1>2. ActionTypes
    BY DEF ActionTypes, Action!Phases, Action!Transitions
  <1>3. ReadsHold /\ MarkedFirst /\ Receipts /\ Refuses
    BY DEF ReadsHold, MarkedFirst, Receipts, Refuses, Action!Transitions
  <1> QED
    BY <1>1, <1>2, <1>3 DEF ActionInv

\* Every step of the one runner keeps the invariant.
LEMMA ActionSteps == ASSUME Action!ActionAssumption, OneRunner, ActionInv, Action!Next PROVE ActionInv'
  <1> USE Action!ActionAssumption, OneRunner DEF Action!ActionAssumption, OneRunner, Action!files,
      Action!setup
  <1>0. Flagged'
    BY ZenonT(120) DEF ActionInv, Flagged, Action!Next, Action!Step, Action!Start, Action!Prepare,
       Action!Write, Action!Look, Action!Consume, Action!ReadRecord, Action!WriteRecord,
       Action!ClaimFile, Action!MarkClaim,
       Action!Run, Action!Unclaim, Action!PutReceipt, Action!Crash, Action!Fails, Action!PidReused,
       Action!Expire
  <1> DEFINE Rest == ActionTypes /\ ReadsHold /\ MarkedFirst /\ Receipts /\ Refuses
  <1>1. ASSUME NEW r \in Runners, Action!Step(r) \/ Action!Crash(r) \/ Action!Fails(r) PROVE Rest'
    <2> USE DEF ActionInv, Flagged, ActionTypes, ReadsHold, MarkedFirst, Receipts, Refuses, Honest,
        Action!Phases, Action!Transitions, Action!States, Action!Dispositions,
            Action!Record, Action!Claim, Action!Put, Action!GoTo, Action!Throws, Action!Answers
    <2>0. Runners = {r}
      OBVIOUS
    <2>1. ASSUME Action!Start(r) PROVE Rest'
      BY <1>1, <2>0, <2>1 DEF Action!Start
    <2>2. ASSUME Action!Prepare(r) PROVE Rest'
      BY <1>1, <2>0, <2>2 DEF Action!Prepare
    <2>3. ASSUME Action!Write(r) PROVE Rest'
      BY <1>1, <2>0, <2>3 DEF Action!Write
    <2>4. ASSUME Action!Look(r) PROVE Rest'
      BY <1>1, <2>0, <2>4 DEF Action!Look, Action!OwnerAlive, Action!Interrupted
    <2>5. ASSUME Action!Consume(r) PROVE Rest'
      BY <1>1, <2>0, <2>5 DEF Action!Consume
    <2>6. ASSUME Action!ReadRecord(r) PROVE Rest'
      BY <1>1, <2>0, <2>6 DEF Action!ReadRecord, Action!Allowed
    <2>7. ASSUME Action!WriteRecord(r) PROVE Rest'
      BY <1>1, <2>0, <2>7 DEF Action!WriteRecord, Action!Allowed, Action!Target, Action!After
    <2>8. ASSUME Action!ClaimFile(r) PROVE Rest'
      <3>1. claim' \in Action!Claim \cup {None}
        <4>1. [by |-> r, whole |-> FALSE, alive |-> TRUE, expired |-> FALSE] \in Action!Claim
          BY Zenon DEF Action!Claim
        <4> HIDE DEF Action!Claim
        <4> QED
          BY <2>8, <4>1 DEF Action!ClaimFile
      <3>2. released
        BY <2>8 DEF Action!ClaimFile
      <3>3. released' /\ record' = record /\ effects' = effects /\ returned' = returned
        BY <2>8, <3>2 DEF Action!ClaimFile
      <3> HIDE DEF Action!Claim
      <3> QED
        BY <2>0, <2>8, <3>1, <3>3 DEF Action!ClaimFile
    <2>9. ASSUME Action!MarkClaim(r) PROVE Rest'
      BY ZenonT(120), <1>1, <2>0, <2>9 DEF Action!MarkClaim
    <2>10. ASSUME Action!Run(r) PROVE Rest'
      BY <1>1, <2>0, <2>10 DEF Action!Run
    <2>11. ASSUME Action!Unclaim(r) PROVE Rest'
      BY <1>1, <2>0, <2>11 DEF Action!Unclaim
    <2>12. ASSUME Action!PutReceipt(r) PROVE Rest'
      BY ZenonT(120), <1>1, <2>0, <2>12 DEF Action!PutReceipt
    <2>13. ASSUME Action!Crash(r) PROVE Rest'
      <3>1. claim' \in Action!Claim \cup {None} /\ (claim = None => claim' = None)
        BY <2>13 DEF Action!Crash
      <3> HIDE DEF Action!Claim
      <3> QED
        BY <2>0, <2>13, <3>1 DEF Action!Crash, Action!Fault
    <2>14. ASSUME Action!Fails(r) PROVE Rest'
      BY <1>1, <2>0, <2>14 DEF Action!Fails, Action!Fault
    <2> QED
      BY <1>1, <2>1, <2>2, <2>3, <2>4, <2>5, <2>6, <2>7, <2>8, <2>9, <2>10, <2>11, <2>12, <2>13,
         <2>14 DEF Action!Step
  <1>2. ASSUME Action!PidReused \/ Action!Expire PROVE Rest'
    <2>1. claim # None /\ claim' \in Action!Claim
      BY <1>2, ZenonT(60) DEF Action!PidReused, Action!Expire, ActionInv, ActionTypes, Action!Claim
    <2>2. claim # None
          /\ UNCHANGED <<Action!setup, record, consumed, stored, effects, returned, at, seen, answer, mishaps>>
      BY <1>2 DEF Action!PidReused, Action!Expire
    <2>3. Refuses'
      <3>1. released
        BY <2>1, <2>2 DEF ActionInv, Refuses
      <3> QED
        BY <2>2, <3>1 DEF Refuses
    <2>4. ActionTypes'
      BY <2>1, <2>2 DEF ActionInv, ActionTypes
    <2>5. ReadsHold' /\ MarkedFirst'
      BY <2>2 DEF ActionInv, ReadsHold, MarkedFirst, Action!Allowed
    <2>6. Receipts'
      BY <2>2 DEF ActionInv, Receipts, Honest
    <2> QED
      BY <2>3, <2>4, <2>5, <2>6
  <1> QED
    BY <1>0, <1>1, <1>2 DEF Action!Next, ActionInv

LEMMA ActionGives == ASSUME Action!ActionAssumption, ActionInv PROVE Action!ActionSafe
  <1>1. Action!TypeOK
    <2>1. {released, guarded} \subseteq BOOLEAN /\ consumed \in BOOLEAN
      BY Zenon DEF ActionInv, Flagged
    <2> QED
      BY <2>1 DEF Action!ActionAssumption, Action!TypeOK, ActionInv, ActionTypes, MarkedFirst
  <1>2. Action!ExecutedAtMostOnce
    BY DEF Action!ExecutedAtMostOnce, ActionInv, MarkedFirst
  <1>3. Action!HonestReceipt /\ Action!DeniedIsContained
    BY DEF Action!HonestReceipt, Action!DeniedIsContained, ActionInv, Receipts, Refuses, Honest
  <1> QED
    BY <1>1, <1>2, <1>3 DEF Action!ActionSafe

\* The inductive invariant, over all the steps of the one runner: only it writes
\* the record, which says that the action is executed before it is.
THEOREM ActionHolds == ASSUME Action!ActionAssumption, OneRunner PROVE Action!Spec => []ActionInv
  <1>1. Action!Init => ActionInv
    BY ActionBegins
  <1>2. ActionInv /\ [Action!Next]_(Action!vars) => ActionInv'
    <2>1. ASSUME ActionInv, UNCHANGED Action!vars PROVE ActionInv'
      <3>1. Flagged' /\ Receipts' /\ Refuses'
        BY <2>1, Zenon DEF Action!vars, Action!files, Action!setup, ActionInv, Flagged, Receipts,
           Refuses, Honest
      <3>2. ActionTypes' /\ ReadsHold' /\ MarkedFirst'
        BY <2>1 DEF Action!vars, Action!files, Action!setup, ActionInv, ActionTypes, ReadsHold,
           MarkedFirst, Action!Allowed
      <3> QED
        BY <3>1, <3>2 DEF ActionInv
    <2> QED
      BY <2>1, ActionSteps
  <1> QED
    BY <1>1, <1>2, PTL DEF Action!Spec

\* One execution and true receipts, through every crash, failing step and
\* retry of executeTask, for one runner.
THEOREM ActionIsSafe == ASSUME Action!ActionAssumption, OneRunner PROVE Action!Spec => []Action!ActionSafe
  <1>1. ActionInv => Action!ActionSafe
    BY ActionGives
  <1> QED
    BY ActionHolds, <1>1, PTL

\* A recorded receipt stays as it is: no later attempt writes the journal again.
THEOREM JournalStays == ASSUME Action!ActionAssumption, OneRunner PROVE Action!Spec => Action!JournalIsFinal
  <1>1. ASSUME ActionInv, Action!Next PROVE Action!KeepsReceipt
    <2> SUFFICES ASSUME record # None, record.state = "recorded" PROVE record' = record
      BY DEF Action!KeepsReceipt
    <2> QED
      BY <1>1 DEF Action!Next, Action!Step, Action!Start, Action!Prepare, Action!Write,
         Action!Look, Action!Consume, Action!ReadRecord, Action!WriteRecord, Action!ClaimFile,
         Action!MarkClaim, Action!Run, Action!Unclaim,
         Action!PutReceipt, Action!Crash, Action!Fails, Action!PidReused, Action!Expire,
         Action!files, Action!setup, ActionInv, ReadsHold, Action!Transitions, Action!Allowed
  <1>2. ActionInv /\ [Action!Next]_(Action!vars) => [Action!KeepsReceipt]_(Action!vars)
    BY <1>1
  <1> QED
    BY ActionHolds, <1>2, PTL DEF Action!Spec, Action!JournalIsFinal

-----------------------------------------------------------------------------
(* SessionInbox: for any number of processes and questions, whatever is    *)
(* lost or late, whoever dies and however the binding ends, a question is  *)
(* put to a provider or a chat once at most, an answer that HQ has is in   *)
(* the vault word for word, and what the vault calls acknowledged HQ has.  *)
(* With one process in a cooperative session, and of the bridges only the  *)
(* first acceptance, a question finds one process that works on it.        *)

CONSTANTS Processes, Questions, Mortal
VARIABLES
    mode, asked, past, wire, binding, detached, lease, offer, handoff, reply, life, step, cur, text, heard, taken,
    turns, trouble

Session == INSTANCE SessionInbox WITH hq <- asked, pc <- step, consumed <- taken, faults <- trouble

InboxPhases == {"out", "open", "closing", "idle", "read", "resending", "reread", "inbox", "offer", "accept",
        "accepting", "turn", "failing", "handed", "stage", "reply", "replying", "failed"}
InboxShapes ==
    /\ Session!TypeOK
    /\ mode \in {"bridge", "cooperative"} /\ binding \in {"live", "expired", "revoked"}
    /\ past \subseteq Questions
    /\ life \in [Processes -> Nat] /\ step \in [Processes -> InboxPhases]
    /\ text \in [Processes -> Session!Selves \cup {None}]
    /\ heard \in [Processes -> {"fresh", "replay", "refused", None}]
    /\ turns \in [Questions -> Nat]
    /\ trouble \in 0 .. MaxFaults /\ \A p \in Processes : life[p] <= trouble

\* A process that works on a question has one, and an answer only while it delivers it.
Words ==
    \A p \in Processes :
        /\ step[p] \notin {"out", "open", "closing", "idle", "inbox"} => cur[p] \in Questions
        /\ step[p] \notin {"closing", "idle", "stage", "reply", "replying"} => text[p] = None
        /\ step[p] = "stage" => text[p] # None
        /\ step[p] \in {"reply", "replying"} => text[p] # None /\ reply[cur[p]].text = text[p]

\* What is on its way: no answer that is not staged, and of a process one request
\* at most, the one it waits for.
Requests ==
    /\ \A m \in wire :
        /\ m.op = "reply" /\ m.text # None => reply[m.q].text = m.text
        /\ m.by # None =>
            /\ step[m.by] \in Session!Waiting /\ heard[m.by] = None /\ m.q = cur[m.by]
            /\ m.op = "accept" <=> step[m.by] = "accepting"
            /\ step[m.by] = "replying" => m.text = text[m.by]
    /\ \A m, n \in wire : m.by = n.by /\ m.by # None => m = n

Answers == \A q \in Questions : asked[q].state = "answered" <=> asked[q].text # None

Heard == \A p \in Processes : step[p] = "replying" /\ heard[p] \in {"fresh", "replay"} => Session!Delivered(cur[p])

\* Of the bridges one was told that its acceptance is the first.
FirstAt(p, q) == step[p] = "accepting" /\ heard[p] = "fresh" /\ cur[p] = q
Bridges ==
    mode = "bridge" => \A q \in Questions :
        /\ offer[q] = None
        /\ asked[q].state = "queued" => turns[q] = 0
        /\ \A p \in Processes : FirstAt(p, q) => turns[q] = 0 /\ asked[q].state # "queued"
        /\ \A p, r \in Processes : FirstAt(p, q) /\ FirstAt(r, q) => p = r
\* A cooperative session is alone, and its checkpoint says what was put to the chat.
Cooperates ==
    mode = "cooperative" =>
        /\ \A q \in Questions : turns[q] > 0 \/ reply[q].text # None => offer[q] # None
        /\ \A p \in Processes :
            /\ step[p] # "out" => lease = Session!Self(p)
            /\ step[p] \in {"inbox", "offer"} => Session!Open = {}
            /\ step[p] \in {"accept", "accepting"} => offer[cur[p]] = "open" /\ turns[cur[p]] = 0
            /\ step[p] \in {"turn", "handed", "stage"} => offer[cur[p]] # None
Modes == \A p \in Processes : step[p] = "offer" => mode = "cooperative"

InboxInv ==
    /\ InboxShapes /\ Words /\ Requests /\ Answers /\ Heard /\ Bridges /\ Cooperates /\ Modes
    /\ Session!AskedOnce /\ Session!AcksAreTrue /\ Session!AnswersAreKept /\ Session!Disposed
    /\ Session!SettledTogether /\ Session!OneOwner

\* The types in three parts, which the provers take one at a time.
Outside ==
    /\ mode \in {"bridge", "cooperative"} /\ binding \in {"live", "expired", "revoked"}
    /\ past \subseteq Questions
    /\ asked \in [Questions -> [state : Session!States, text : Session!Selves \cup {None}]]
    /\ wire \subseteq [op : {"accept", "reply"}, q : Questions, text : Session!Selves \cup {None}, by : Processes \cup {None}]
    /\ lease \in Session!Selves \cup {None} /\ life \in [Processes -> Nat]
    /\ trouble \in 0 .. MaxFaults /\ \A p \in Processes : life[p] <= trouble
Vault ==
    /\ offer \in [Questions -> {None, "open", "settled"}] /\ handoff \in [Questions -> Session!Selves \cup {None}]
    /\ reply \in [Questions -> [text : Session!Selves \cup {None}, acked : BOOLEAN, quarantined : BOOLEAN]]
    /\ turns \in [Questions -> Nat]
Inside ==
    /\ cur \in [Processes -> Questions \cup {None}] /\ taken \in [Processes -> SUBSET Questions]
    /\ step \in [Processes -> InboxPhases] /\ text \in [Processes -> Session!Selves \cup {None}]
    /\ heard \in [Processes -> {"fresh", "replay", "refused", None}]

LEMMA ShapesAre == InboxShapes <=> Outside /\ Vault /\ Inside
  BY DEF InboxShapes, Session!TypeOK, Outside, Vault, Inside

LEMMA AckKeeps ==
    ASSUME NEW q \in Questions, Session!Acknowledge(q), Vault
    PROVE  /\ reply' \in [Questions -> [text : Session!Selves \cup {None}, acked : BOOLEAN, quarantined : BOOLEAN]]
           /\ offer' \in [Questions -> {None, "open", "settled"}]
  BY DEF Session!Acknowledge, Vault

LEMMA InboxBegins == ASSUME Session!InboxAssumption, Session!Init PROVE InboxInv
  BY DEF Session!InboxAssumption, Session!Init, InboxInv, InboxShapes, Session!TypeOK, Session!Selves,
     Session!States, InboxPhases, Words, Requests, Answers, Heard,
     Bridges, Cooperates, Modes, FirstAt, Session!Delivered, Session!AskedOnce, Session!AcksAreTrue,
     Session!AnswersAreKept, Session!Disposed,
     Session!SettledTogether, Session!OneOwner, Session!NoReply

LEMMA InboxTypes == ASSUME Session!InboxAssumption, InboxInv, Session!Next PROVE InboxShapes'
  <1> USE DEF Session!InboxAssumption, Session!rows, Session!held, Session!remote, Session!locals,
      Session!Self, Session!GoTo, Session!Selves
  <1>1. Outside /\ Vault /\ Inside /\ Words
    BY ShapesAre DEF InboxInv
  <1>a1. ASSUME NEW p \in Processes, Session!OpenSession(p) PROVE Outside' /\ Vault' /\ Inside'
    <2>1. Outside'
      BY <1>1, <1>a1 DEF Session!OpenSession, Outside, Inside
    <2>2. Vault'
      BY <1>1, <1>a1 DEF Session!OpenSession, Outside, Vault, Inside
    <2>3. Inside'
      BY <1>1, <1>a1 DEF Session!OpenSession, Inside, InboxPhases, Outside
    <2> QED
      BY <2>1, <2>2, <2>3
  <1>a2. ASSUME NEW p \in Processes, Session!Connect(p) PROVE Outside' /\ Vault' /\ Inside'
    <2>1. Outside'
      BY <1>1, <1>a2 DEF Session!Connect, Outside, Inside
    <2>2. Vault'
      BY <1>1, <1>a2 DEF Session!Connect, Outside, Vault, Inside
    <2>3. Inside'
      BY <1>1, <1>a2 DEF Session!Connect, Inside, InboxPhases, Outside
    <2> QED
      BY <2>1, <2>2, <2>3
  <1>a3. ASSUME NEW p \in Processes, Session!Close(p) PROVE Outside' /\ Vault' /\ Inside'
    <2>1. Outside'
      BY <1>1, <1>a3 DEF Session!Close, Outside, Inside
    <2>2. Vault'
      BY <1>1, <1>a3 DEF Session!Close, Outside, Vault, Inside
    <2>3. Inside'
      BY <1>1, <1>a3 DEF Session!Close, Inside, InboxPhases, Outside
    <2> QED
      BY <2>1, <2>2, <2>3
  <1>a4. ASSUME NEW p \in Processes, Session!Begin(p) PROVE Outside' /\ Vault' /\ Inside'
    <2>1. Outside'
      BY <1>1, <1>a4 DEF Session!Begin, Outside, Inside
    <2>2. Vault'
      BY <1>1, <1>a4 DEF Session!Begin, Outside, Vault, Inside
    <2>3. Inside'
      BY <1>1, <1>a4 DEF Session!Begin, Inside, InboxPhases, Outside, Session!Pending
    <2> QED
      BY <2>1, <2>2, <2>3
  <1>a5. ASSUME NEW p \in Processes, Session!Reconcile(p) PROVE Outside' /\ Vault' /\ Inside'
    <2>1. Outside'
      BY <1>1, <1>a5 DEF Session!Reconcile, Session!Send, Session!Acknowledge, Outside, Inside, Words, Vault
    <2>2. Vault'
      <3>1. cur[p] \in Questions
        BY <1>1, <1>a5 DEF Session!Reconcile, Words
      <3>2. \/ UNCHANGED <<reply, offer>>
            \/ Session!Acknowledge(cur[p])
            \/ reply' = [reply EXCEPT ![cur[p]].quarantined = TRUE] /\ UNCHANGED offer
        BY <1>a5 DEF Session!Reconcile, Session!Send
      <3>3. UNCHANGED <<handoff, turns>>
        BY <1>a5 DEF Session!Reconcile
      <3>4. CASE UNCHANGED <<reply, offer>>
        BY <1>1, <3>3, <3>4 DEF Vault
      <3>5. CASE Session!Acknowledge(cur[p])
        BY <1>1, <3>1, <3>3, <3>5, AckKeeps DEF Vault
      <3>6. CASE reply' = [reply EXCEPT ![cur[p]].quarantined = TRUE] /\ UNCHANGED offer
        BY <1>1, <3>1, <3>3, <3>6 DEF Vault
      <3> QED
        BY <3>2, <3>4, <3>5, <3>6
    <2>3. Inside'
      BY <1>1, <1>a5 DEF Session!Reconcile, Session!Send, Session!Acknowledge, Inside, InboxPhases, Outside
    <2> QED
      BY <2>1, <2>2, <2>3
  <1>a6. ASSUME NEW p \in Processes, Session!Resent(p) PROVE Outside' /\ Vault' /\ Inside'
    <2>1. Outside'
      BY <1>1, <1>a6 DEF Session!Resent, Session!Hear, Outside, Inside
    <2>2. Vault'
      BY <1>1, <1>a6 DEF Session!Resent, Session!Hear, Outside, Vault, Inside
    <2>3. Inside'
      BY <1>1, <1>a6 DEF Session!Resent, Session!Hear, Inside, InboxPhases, Outside
    <2> QED
      BY <2>1, <2>2, <2>3
  <1>a7. ASSUME NEW p \in Processes, Session!Inbox(p) PROVE Outside' /\ Vault' /\ Inside'
    <2>1. Outside'
      BY <1>1, <1>a7 DEF Session!Inbox, Outside, Inside
    <2>2. Vault'
      BY <1>1, <1>a7 DEF Session!Inbox, Outside, Vault, Inside
    <2>3. Inside'
      BY <1>1, <1>a7 DEF Session!Inbox, Inside, InboxPhases, Outside
    <2> QED
      BY <2>1, <2>2, <2>3
  <1>a8. ASSUME NEW p \in Processes, Session!Checkpoint(p) PROVE Outside' /\ Vault' /\ Inside'
    <2>1. Outside'
      BY <1>1, <1>a8 DEF Session!Checkpoint, Outside, Inside
    <2>2. Vault'
      BY <1>1, <1>a8 DEF Session!Checkpoint, Outside, Vault, Inside, Words
    <2>3. Inside'
      BY <1>1, <1>a8 DEF Session!Checkpoint, Inside, InboxPhases, Outside
    <2> QED
      BY <2>1, <2>2, <2>3
  <1>a9. ASSUME NEW p \in Processes, Session!Accept(p) PROVE Outside' /\ Vault' /\ Inside'
    <2>1. Outside'
      BY <1>1, <1>a9 DEF Session!Accept, Session!Send, Outside, Inside, Words, Vault
    <2>2. Vault'
      BY <1>1, <1>a9 DEF Session!Accept, Session!Send, Outside, Vault, Inside
    <2>3. Inside'
      BY <1>1, <1>a9 DEF Session!Accept, Session!Send, Inside, InboxPhases, Outside, Words
    <2> QED
      BY <2>1, <2>2, <2>3
  <1>a10. ASSUME NEW p \in Processes, Session!Accepted(p) PROVE Outside' /\ Vault' /\ Inside'
    <2>1. Outside'
      BY <1>1, <1>a10 DEF Session!Accepted, Outside, Inside
    <2>2. Vault'
      <3>1. cur[p] \in Questions /\ Session!Self(p) \in Session!Selves
        BY <1>1, <1>a10 DEF Session!Accepted, Words, Outside
      <3>2. UNCHANGED turns \/ turns' = [turns EXCEPT ![cur[p]] = @ + 1]
        BY <1>a10 DEF Session!Accepted
      <3>3. UNCHANGED handoff \/ handoff' = [handoff EXCEPT ![cur[p]] = Session!Self(p)]
        BY <1>a10 DEF Session!Accepted
      <3>4. UNCHANGED <<reply, offer>>
        BY <1>a10 DEF Session!Accepted
      <3> HIDE DEF Session!Self, Session!Selves
      <3> QED
        BY <1>1, <3>1, <3>2, <3>3, <3>4 DEF Vault
    <2>3. Inside'
      BY <1>1, <1>a10 DEF Session!Accepted, Inside, InboxPhases, Outside, Words
    <2> QED
      BY <2>1, <2>2, <2>3
  <1>a11. ASSUME NEW p \in Processes, Session!Submit(p) PROVE Outside' /\ Vault' /\ Inside'
    <2>1. Outside'
      BY <1>1, <1>a11 DEF Session!Submit, Outside, Inside
    <2>2. Vault'
      BY <1>1, <1>a11 DEF Session!Submit, Outside, Vault, Inside
    <2>3. Inside'
      BY <1>1, <1>a11 DEF Session!Submit, Inside, InboxPhases, Outside
    <2> QED
      BY <2>1, <2>2, <2>3
  <1>a12. ASSUME NEW p \in Processes, Session!Turn(p) PROVE Outside' /\ Vault' /\ Inside'
    <2>1. Outside'
      BY <1>1, <1>a12 DEF Session!Turn, Outside, Inside
    <2>2. Vault'
      BY <1>1, <1>a12 DEF Session!Turn, Outside, Vault, Inside
    <2>3. Inside'
      BY <1>1, <1>a12 DEF Session!Turn, Inside, InboxPhases, Outside
    <2> QED
      BY <2>1, <2>2, <2>3
  <1>a13. ASSUME NEW p \in Processes, Session!Stage(p) PROVE Outside' /\ Vault' /\ Inside'
    <2>1. Outside'
      BY <1>1, <1>a13 DEF Session!Stage, Outside, Inside
    <2>2. Vault'
      <3>1. cur[p] \in Questions /\ text[p] \in Session!Selves \cup {None}
        BY <1>1, <1>a13 DEF Session!Stage, Words, Inside
      <3>2. UNCHANGED reply \/ reply' = [reply EXCEPT ![cur[p]].text = text[p]]
        BY <1>a13 DEF Session!Stage
      <3>3. UNCHANGED <<handoff, turns, offer>>
        BY <1>a13 DEF Session!Stage
      <3> HIDE DEF Session!Self, Session!Selves
      <3> QED
        BY <1>1, <3>1, <3>2, <3>3 DEF Vault
    <2>3. Inside'
      BY <1>1, <1>a13 DEF Session!Stage, Inside, InboxPhases, Outside
    <2> QED
      BY <2>1, <2>2, <2>3
  <1>a14. ASSUME NEW p \in Processes, Session!Reply(p) PROVE Outside' /\ Vault' /\ Inside'
    <2>1. Outside'
      BY <1>1, <1>a14 DEF Session!Reply, Session!Send, Outside, Inside, Words, Vault
    <2>2. Vault'
      BY <1>1, <1>a14 DEF Session!Reply, Session!Send, Outside, Vault, Inside
    <2>3. Inside'
      BY <1>1, <1>a14 DEF Session!Reply, Session!Send, Inside, InboxPhases, Outside
    <2> QED
      BY <2>1, <2>2, <2>3
  <1>a15. ASSUME NEW p \in Processes, Session!Replied(p) PROVE Outside' /\ Vault' /\ Inside'
    <2>1. Outside'
      BY <1>1, <1>a15 DEF Session!Replied, Session!Acknowledge, Outside, Inside
    <2>2. Vault'
      <3>1. cur[p] \in Questions
        BY <1>1, <1>a15 DEF Session!Replied, Words
      <3>2. UNCHANGED <<reply, offer>> \/ Session!Acknowledge(cur[p])
        BY <1>a15 DEF Session!Replied
      <3>3. UNCHANGED <<handoff, turns>>
        BY <1>a15 DEF Session!Replied
      <3> QED
        BY <1>1, <3>1, <3>2, <3>3, AckKeeps DEF Vault
    <2>3. Inside'
      BY <1>1, <1>a15 DEF Session!Replied, Session!Acknowledge, Inside, InboxPhases, Outside
    <2> QED
      BY <2>1, <2>2, <2>3
  <1>a16. ASSUME NEW p \in Processes, Session!Failed(p) PROVE Outside' /\ Vault' /\ Inside'
    <2>1. Outside'
      BY <1>1, <1>a16 DEF Session!Failed, Outside, Inside
    <2>2. Vault'
      BY <1>1, <1>a16 DEF Session!Failed, Outside, Vault, Inside
    <2>3. Inside'
      BY <1>1, <1>a16 DEF Session!Failed, Inside, InboxPhases, Outside
    <2> QED
      BY <2>1, <2>2, <2>3
  <1>a17. ASSUME NEW p \in Processes, Session!Retire(p) PROVE Outside' /\ Vault' /\ Inside'
    <2>1. Outside'
      BY <1>1, <1>a17 DEF Session!Retire, Outside, Inside
    <2>2. Vault'
      BY <1>1, <1>a17 DEF Session!Retire, Outside, Vault, Inside
    <2>3. Inside'
      BY <1>1, <1>a17 DEF Session!Retire, Inside, InboxPhases, Outside
    <2> QED
      BY <2>1, <2>2, <2>3
  <1>a18. ASSUME NEW p \in Processes, Session!Lose(p) PROVE Outside' /\ Vault' /\ Inside'
    <2>1. Outside'
      BY <1>1, <1>a18 DEF Session!Lose, Outside, Inside
    <2>2. Vault'
      BY <1>1, <1>a18 DEF Session!Lose, Outside, Vault, Inside
    <2>3. Inside'
      BY <1>1, <1>a18 DEF Session!Lose, Inside, InboxPhases, Outside
    <2> QED
      BY <2>1, <2>2, <2>3
  <1>a19. ASSUME NEW p \in Processes, Session!Crash(p) PROVE Outside' /\ Vault' /\ Inside'
    <2>1. Outside'
      BY <1>1, <1>a19 DEF Session!Crash, Session!Forgotten, Outside, Inside
    <2>2. Vault'
      BY <1>1, <1>a19 DEF Session!Crash, Session!Forgotten, Outside, Vault, Inside
    <2>3. Inside'
      BY <1>1, <1>a19 DEF Session!Crash, Session!Forgotten, Inside, InboxPhases, Outside
    <2> QED
      BY <2>1, <2>2, <2>3
  <1>a20. ASSUME NEW p \in Processes, Session!Fail(p) PROVE Outside' /\ Vault' /\ Inside'
    <2>1. Outside'
      BY <1>1, <1>a20 DEF Session!Fail, Outside, Inside
    <2>2. Vault'
      BY <1>1, <1>a20 DEF Session!Fail, Outside, Vault, Inside
    <2>3. Inside'
      BY <1>1, <1>a20 DEF Session!Fail, Inside, InboxPhases, Outside
    <2> QED
      BY <2>1, <2>2, <2>3
  <1>a21. ASSUME NEW p \in Processes, Session!Stop(p) PROVE Outside' /\ Vault' /\ Inside'
    <2>1. Outside'
      BY <1>1, <1>a21 DEF Session!Stop, Outside, Inside
    <2>2. Vault'
      BY <1>1, <1>a21 DEF Session!Stop, Outside, Vault, Inside
    <2>3. Inside'
      BY <1>1, <1>a21 DEF Session!Stop, Inside, InboxPhases, Outside
    <2> QED
      BY <2>1, <2>2, <2>3
  <1>a22. ASSUME NEW p \in Processes, Session!Renew(p) PROVE Outside' /\ Vault' /\ Inside'
    <2>1. Outside'
      BY <1>1, <1>a22 DEF Session!Renew, Outside, Inside
    <2>2. Vault'
      BY <1>1, <1>a22 DEF Session!Renew, Outside, Vault, Inside
    <2>3. Inside'
      BY <1>1, <1>a22 DEF Session!Renew, Inside, InboxPhases, Outside
    <2> QED
      BY <2>1, <2>2, <2>3
  <1>a23. ASSUME NEW m \in wire, Session!Take(m) PROVE Outside' /\ Vault' /\ Inside'
    <2>1. Outside'
      BY <1>1, <1>a23 DEF Session!Take, Session!After, Session!Response, Outside, Inside, Session!States
    <2>2. Vault'
      BY <1>1, <1>a23 DEF Session!Take, Session!After, Session!Response, Outside, Vault, Inside
    <2>3. Inside'
      BY <1>1, <1>a23 DEF Session!Take, Session!After, Session!Response, Inside, InboxPhases, Outside
    <2> QED
      BY <2>1, <2>2, <2>3
  <1>a24. ASSUME NEW q \in Questions, Session!Tick(q) PROVE Outside' /\ Vault' /\ Inside'
    <2>1. Outside'
      BY <1>1, <1>a24 DEF Session!Tick, Outside, Inside
    <2>2. Vault'
      BY <1>1, <1>a24 DEF Session!Tick, Outside, Vault, Inside
    <2>3. Inside'
      BY <1>1, <1>a24 DEF Session!Tick, Inside, InboxPhases, Outside
    <2> QED
      BY <2>1, <2>2, <2>3
  <1>a25. ASSUME NEW q \in Questions, Session!Expire(q) PROVE Outside' /\ Vault' /\ Inside'
    <2>1. Outside'
      BY <1>1, <1>a25 DEF Session!Expire, Outside, Inside, Session!States
    <2>2. Vault'
      BY <1>1, <1>a25 DEF Session!Expire, Outside, Vault, Inside
    <2>3. Inside'
      BY <1>1, <1>a25 DEF Session!Expire, Inside, InboxPhases, Outside
    <2> QED
      BY <2>1, <2>2, <2>3
  <1>a26. ASSUME Session!EndBinding PROVE Outside' /\ Vault' /\ Inside'
    <2>1. Outside'
      BY <1>1, <1>a26 DEF Session!EndBinding, Outside, Inside
    <2>2. Vault'
      BY <1>1, <1>a26 DEF Session!EndBinding, Outside, Vault, Inside
    <2>3. Inside'
      BY <1>1, <1>a26 DEF Session!EndBinding, Inside, InboxPhases, Outside
    <2> QED
      BY <2>1, <2>2, <2>3
  <1> QED
    BY <1>a1, <1>a2, <1>a3, <1>a4, <1>a5, <1>a6, <1>a7, <1>a8, <1>a9, <1>a10, <1>a11, <1>a12, <1>a13, <1>a14,
       <1>a15, <1>a16, <1>a17, <1>a18, <1>a19, <1>a20, <1>a21, <1>a22, <1>a23, <1>a24, <1>a25, <1>a26
       DEF Session!Next, Session!Step, Session!Fault, InboxShapes, Session!TypeOK, Outside, Vault, Inside

-----------------------------------------------------------------------------
(* What the steps that dispose of a reply do, question by question *)

\* The others keep their reply and their checkpoint.
OnlyAt(q) == \A r \in Questions : r # q => reply'[r] = reply[r] /\ offer'[r] = offer[r]
Acked(q) ==
    /\ OnlyAt(q)
    /\ reply'[q].text = reply[q].text /\ reply'[q].acked /\ reply'[q].quarantined = reply[q].quarantined
    /\ offer'[q] = IF offer[q] = "open" THEN "settled" ELSE offer[q]
SetApart(q) ==
    /\ OnlyAt(q)
    /\ reply'[q].text = reply[q].text /\ reply'[q].acked = reply[q].acked /\ ~ reply[q].acked
    /\ reply'[q].quarantined /\ offer'[q] = offer[q]
Staged(q, t) ==
    /\ OnlyAt(q)
    /\ reply'[q].text = t /\ reply'[q].acked = reply[q].acked /\ reply'[q].quarantined = reply[q].quarantined
    /\ offer'[q] = offer[q]
OnlyOf(p) == \A r \in Processes : r # p => step'[r] = step[r] /\ heard'[r] = heard[r]

LEMMA AckIs == ASSUME Vault, NEW q \in Questions, Session!Acknowledge(q) PROVE Acked(q)
  BY DEF Vault, Session!Acknowledge, Acked, OnlyAt

Reconciled(p) ==
    /\ cur[p] \in Questions /\ text[p] = None /\ step[p] \in {"read", "reread"} /\ OnlyOf(p)
    /\ \/ step'[p] = "closing" /\ UNCHANGED <<wire, reply, offer>>
       \/ /\ step'[p] = "resending" /\ heard'[p] = None /\ UNCHANGED <<reply, offer>>
          /\ wire' = wire \cup {[op |-> "reply", q |-> cur[p], text |-> reply[cur[p]].text, by |-> p]}
       \/ step'[p] = "idle" /\ UNCHANGED <<wire, reply, offer>>
       \/ step'[p] = "idle" /\ UNCHANGED wire /\ asked[cur[p]].state = "expired" /\ SetApart(cur[p])
       \/ step'[p] = "idle" /\ UNCHANGED wire /\ Session!Delivered(cur[p]) /\ Acked(cur[p])

LEMMA ReconcileIs == ASSUME Vault, Inside, Words PROVE \A p \in Processes : Session!Reconcile(p) => Reconciled(p)
  <1> SUFFICES ASSUME NEW p \in Processes, Session!Reconcile(p) PROVE Reconciled(p)
    OBVIOUS
  <1>1. cur[p] \in Questions /\ text[p] = None /\ step[p] \in {"read", "reread"}
    BY DEF Session!Reconcile, Words
  <1>2. OnlyOf(p)
    BY DEF Session!Reconcile, Session!Send, Session!GoTo, OnlyOf, Inside
  <1>3. \/ step'[p] = "closing" /\ UNCHANGED <<wire, reply, offer>>
        \/ /\ step'[p] = "resending" /\ heard'[p] = None /\ UNCHANGED <<reply, offer>>
           /\ wire' = wire \cup {[op |-> "reply", q |-> cur[p], text |-> reply[cur[p]].text, by |-> p]}
        \/ step'[p] = "idle" /\ UNCHANGED <<wire, reply, offer>>
        \/ /\ step'[p] = "idle" /\ UNCHANGED <<wire, offer>> /\ asked[cur[p]].state = "expired" /\ ~ reply[cur[p]].acked
           /\ reply' = [reply EXCEPT ![cur[p]].quarantined = TRUE]
        \/ step'[p] = "idle" /\ UNCHANGED wire /\ Session!Delivered(cur[p]) /\ Session!Acknowledge(cur[p])
    BY DEF Session!Reconcile, Session!Send, Session!GoTo, Inside
  <1>4. ASSUME reply' = [reply EXCEPT ![cur[p]].quarantined = TRUE], ~ reply[cur[p]].acked, UNCHANGED offer
        PROVE  SetApart(cur[p])
    BY <1>1, <1>4 DEF Vault, SetApart, OnlyAt
  <1> QED
    BY <1>1, <1>2, <1>3, <1>4, AckIs DEF Reconciled

StagedBy(p) ==
    /\ cur[p] \in Questions /\ text[p] # None /\ step[p] = "stage" /\ OnlyOf(p)
    /\ \/ step'[p] = "closing" /\ UNCHANGED <<reply, offer>>
       \/ /\ step'[p] = "reply" /\ reply[cur[p]].text \in {None, text[p]} /\ Staged(cur[p], text[p])

LEMMA StageIs == ASSUME Vault, Inside, Words PROVE \A p \in Processes : Session!Stage(p) => StagedBy(p)
  <1> SUFFICES ASSUME NEW p \in Processes, Session!Stage(p) PROVE StagedBy(p)
    OBVIOUS
  <1>1. cur[p] \in Questions /\ text[p] # None /\ step[p] = "stage"
    BY DEF Session!Stage, Words
  <1>2. OnlyOf(p)
    BY DEF Session!Stage, Session!GoTo, OnlyOf, Inside, Session!locals
  <1>3. \/ step'[p] = "closing" /\ UNCHANGED <<reply, offer>>
        \/ /\ step'[p] = "reply" /\ reply[cur[p]].text \in {None, text[p]}
           /\ reply' = [reply EXCEPT ![cur[p]].text = text[p]] /\ UNCHANGED offer
    BY DEF Session!Stage, Session!GoTo, Inside
  <1>4. ASSUME reply' = [reply EXCEPT ![cur[p]].text = text[p]], UNCHANGED offer PROVE Staged(cur[p], text[p])
    BY <1>1, <1>4 DEF Vault, Staged, OnlyAt
  <1> QED
    BY <1>1, <1>2, <1>3, <1>4 DEF StagedBy

RepliedBy(p) ==
    /\ cur[p] \in Questions /\ step[p] = "replying" /\ OnlyOf(p)
    /\ \/ step'[p] = "closing" /\ UNCHANGED <<reply, offer>>
       \/ step'[p] = "idle" /\ heard[p] \notin {None, "refused"} /\ Acked(cur[p])

LEMMA RepliedIs == ASSUME Vault, Inside, Words PROVE \A p \in Processes : Session!Replied(p) => RepliedBy(p)
  <1> SUFFICES ASSUME NEW p \in Processes, Session!Replied(p) PROVE RepliedBy(p)
    OBVIOUS
  <1>1. cur[p] \in Questions /\ step[p] = "replying"
    BY DEF Session!Replied, Words
  <1>2. OnlyOf(p)
    BY DEF Session!Replied, Session!GoTo, OnlyOf, Inside, Session!locals
  <1> QED
    BY <1>1, <1>2, AckIs DEF Session!Replied, Session!GoTo, Inside, RepliedBy

LEMMA WordsStep == ASSUME Session!InboxAssumption, InboxInv, Session!Next PROVE Words'
  <1>1. Outside /\ Vault /\ Inside /\ Words
    BY ShapesAre DEF InboxInv
  <1>2. \A p \in Processes : (Session!Reconcile(p) => Reconciled(p)) /\ (Session!Stage(p) => StagedBy(p)) /\ (Session!Replied(p) => RepliedBy(p))
    BY ReconcileIs, StageIs, RepliedIs DEF InboxInv, InboxShapes, Session!TypeOK, Vault, Inside
  <1> USE DEF Session!InboxAssumption, Session!rows, Session!held, Session!remote, Session!locals,
      Session!Self, Session!GoTo, Words, Vault, Inside, Outside
  <1>a1. ASSUME NEW p \in Processes, Session!OpenSession(p) PROVE Words'
    BY <1>1, <1>a1 DEF Session!OpenSession, Session!MayTake, Session!Dead
  <1>a2. ASSUME NEW p \in Processes, Session!Connect(p) PROVE Words'
    BY <1>1, <1>a2 DEF Session!Connect
  <1>a3. ASSUME NEW p \in Processes, Session!Close(p) PROVE Words'
    BY <1>1, <1>a3 DEF Session!Close
  <1>a4. ASSUME NEW p \in Processes, Session!Begin(p) PROVE Words'
    BY <1>1, <1>a4 DEF Session!Begin, Session!Pending
  <1>a5. ASSUME NEW p \in Processes, Session!Reconcile(p) PROVE Words'
    <2>1. UNCHANGED <<mode, asked, past, Session!held, handoff, life, cur, text, taken, turns, trouble>>
      BY <1>a5 DEF Session!Reconcile
    <2>2. Reconciled(p)
      BY <1>2, <1>a5
    <2> QED
      BY <1>1, <2>1, <2>2 DEF Reconciled, OnlyOf, OnlyAt, Acked, SetApart
  <1>a6. ASSUME NEW p \in Processes, Session!Resent(p) PROVE Words'
    BY <1>1, <1>a6 DEF Session!Resent, Session!Hear
  <1>a7. ASSUME NEW p \in Processes, Session!Inbox(p) PROVE Words'
    BY <1>1, <1>a7 DEF Session!Inbox
  <1>a8. ASSUME NEW p \in Processes, Session!Checkpoint(p) PROVE Words'
    BY <1>1, <1>a8 DEF Session!Checkpoint
  <1>a9. ASSUME NEW p \in Processes, Session!Accept(p) PROVE Words'
    BY <1>1, <1>a9 DEF Session!Accept, Session!Send
  <1>a10. ASSUME NEW p \in Processes, Session!Accepted(p) PROVE Words'
    BY <1>1, <1>a10 DEF Session!Accepted, Session!First
  <1>a11. ASSUME NEW p \in Processes, Session!Submit(p) PROVE Words'
    BY <1>1, <1>a11 DEF Session!Submit
  <1>a12. ASSUME NEW p \in Processes, Session!Turn(p) PROVE Words'
    BY <1>1, <1>a12 DEF Session!Turn
  <1>a13. ASSUME NEW p \in Processes, Session!Stage(p) PROVE Words'
    <2>1. UNCHANGED <<mode, asked, past, wire, Session!held, handoff, life, Session!locals, turns, trouble>>
      BY <1>a13 DEF Session!Stage
    <2>2. StagedBy(p)
      BY <1>2, <1>a13
    <2> QED
      BY <1>1, <2>1, <2>2 DEF StagedBy, OnlyOf, OnlyAt, Acked, Staged
  <1>a14. ASSUME NEW p \in Processes, Session!Reply(p) PROVE Words'
    BY <1>1, <1>a14 DEF Session!Reply, Session!Send
  <1>a15. ASSUME NEW p \in Processes, Session!Replied(p) PROVE Words'
    <2>1. UNCHANGED <<mode, asked, past, wire, Session!held, handoff, life, Session!locals, turns, trouble>>
      BY <1>a15 DEF Session!Replied
    <2>2. RepliedBy(p)
      BY <1>2, <1>a15
    <2> QED
      BY <1>1, <2>1, <2>2 DEF RepliedBy, OnlyOf, OnlyAt, Acked
  <1>a16. ASSUME NEW p \in Processes, Session!Failed(p) PROVE Words'
    BY <1>1, <1>a16 DEF Session!Failed
  <1>a17. ASSUME NEW p \in Processes, Session!Retire(p) PROVE Words'
    BY <1>1, <1>a17 DEF Session!Retire
  <1>a18. ASSUME NEW p \in Processes, Session!Lose(p) PROVE Words'
    BY <1>1, <1>a18 DEF Session!Lose
  <1>a19. ASSUME NEW p \in Processes, Session!Crash(p) PROVE Words'
    BY <1>1, <1>a19 DEF Session!Crash, Session!Forgotten
  <1>a20. ASSUME NEW p \in Processes, Session!Fail(p) PROVE Words'
    BY <1>1, <1>a20 DEF Session!Fail
  <1>a21. ASSUME NEW p \in Processes, Session!Stop(p) PROVE Words'
    BY <1>1, <1>a21 DEF Session!Stop
  <1>a22. ASSUME NEW p \in Processes, Session!Renew(p) PROVE Words'
    BY <1>1, <1>a22 DEF Session!Renew
  <1>a23. ASSUME NEW m \in wire, Session!Take(m) PROVE Words'
    BY <1>1, <1>a23 DEF Session!Take, Session!After, Session!Response
  <1>a24. ASSUME NEW q \in Questions, Session!Tick(q) PROVE Words'
    BY <1>1, <1>a24 DEF Session!Tick
  <1>a25. ASSUME NEW q \in Questions, Session!Expire(q) PROVE Words'
    BY <1>1, <1>a25 DEF Session!Expire
  <1>a26. ASSUME Session!EndBinding PROVE Words'
    BY <1>1, <1>a26 DEF Session!EndBinding
  <1> QED
    BY <1>a1, <1>a2, <1>a3, <1>a4, <1>a5, <1>a6, <1>a7, <1>a8, <1>a9, <1>a10, <1>a11, <1>a12, <1>a13, <1>a14,
       <1>a15, <1>a16, <1>a17, <1>a18, <1>a19, <1>a20, <1>a21, <1>a22, <1>a23, <1>a24, <1>a25, <1>a26
       DEF Session!Next, Session!Step, Session!Fault

LEMMA RequestsKept ==
    ASSUME Requests, wire \subseteq [op : {"accept", "reply"}, q : Questions, text : Session!Selves \cup {None},
                                      by : Processes \cup {None}],
           \A q \in Questions : reply[q].text # None => reply'[q].text = reply[q].text,
           \A m \in wire' :
              \/ /\ m \in wire
                 /\ m.by # None => /\ step'[m.by] = step[m.by] /\ heard'[m.by] = heard[m.by]
                                   /\ cur'[m.by] = cur[m.by] /\ text'[m.by] = text[m.by]
              \/ m.by = None /\ \E n \in wire : m.op = n.op /\ m.q = n.q /\ m.text = n.text
    PROVE  Requests'
  <1>1. ASSUME NEW m \in wire', m.op = "reply", m.text # None PROVE reply'[m.q].text = m.text
    <2>1. PICK n \in wire : m.op = n.op /\ m.q = n.q /\ m.text = n.text
      OBVIOUS
    <2> QED
      BY <1>1, <2>1 DEF Requests
  <1>2. ASSUME NEW m \in wire', m.by # None
        PROVE  /\ step'[m.by] \in Session!Waiting /\ heard'[m.by] = None /\ m.q = cur'[m.by]
               /\ m.op = "accept" <=> step'[m.by] = "accepting"
               /\ step'[m.by] = "replying" => m.text = text'[m.by]
    BY <1>2 DEF Requests
  <1>3. ASSUME NEW m \in wire', NEW n \in wire', m.by = n.by, m.by # None PROVE m = n
    BY <1>3 DEF Requests
  <1> QED
    BY <1>1, <1>2, <1>3 DEF Requests, Session!Waiting

LEMMA RequestsSent ==
    ASSUME Session!InboxAssumption, Requests, wire \subseteq [op : {"accept", "reply"}, q : Questions, text : Session!Selves \cup {None},
                                      by : Processes \cup {None}],
           NEW p \in Processes, NEW op \in {"accept", "reply"}, NEW t,
           step[p] \notin Session!Waiting, OnlyOf(p), UNCHANGED <<reply, cur, text>>,
           heard'[p] = None, step'[p] \in Session!Waiting, op = "accept" <=> step'[p] = "accepting",
           wire' = wire \cup {[op |-> op, q |-> cur[p], text |-> t, by |-> p]},
           step'[p] = "replying" => t = text[p],
           op = "reply" /\ t # None => reply[cur[p]].text = t
    PROVE  Requests'
  <1>1. \A m \in wire : m.by # p /\ (m.by # None => m.by \in Processes)
    BY DEF Requests, Session!InboxAssumption
  <1>2. \A m \in wire' : m \in wire \/ m = [op |-> op, q |-> cur[p], text |-> t, by |-> p]
    OBVIOUS
  <1>3. ASSUME NEW m \in wire', m.op = "reply", m.text # None PROVE reply'[m.q].text = m.text
    BY <1>2, <1>3 DEF Requests
  <1>4. ASSUME NEW m \in wire', m.by # None
        PROVE  /\ step'[m.by] \in Session!Waiting /\ heard'[m.by] = None /\ m.q = cur'[m.by]
               /\ m.op = "accept" <=> step'[m.by] = "accepting"
               /\ step'[m.by] = "replying" => m.text = text'[m.by]
    <2>1. CASE m \in wire
      BY <1>1, <1>4, <2>1 DEF Requests, OnlyOf
    <2>2. CASE m = [op |-> op, q |-> cur[p], text |-> t, by |-> p]
      BY <2>2
    <2> QED
      BY <1>2, <2>1, <2>2
  <1>5. ASSUME NEW m \in wire', NEW n \in wire', m.by = n.by, m.by # None PROVE m = n
    BY <1>1, <1>2, <1>5 DEF Requests
  <1> QED
    BY <1>3, <1>4, <1>5 DEF Requests, Session!Waiting

LEMMA RequestsStep == ASSUME Session!InboxAssumption, InboxInv, Session!Next PROVE Requests'
  <1>1. Outside /\ Vault /\ Inside /\ Words /\ Requests
    BY ShapesAre DEF InboxInv
  <1>2. \A p \in Processes : (Session!Reconcile(p) => Reconciled(p)) /\ (Session!Stage(p) => StagedBy(p)) /\ (Session!Replied(p) => RepliedBy(p))
    BY ReconcileIs, StageIs, RepliedIs DEF InboxInv, InboxShapes, Session!TypeOK, Vault, Inside
  <1> USE DEF Session!InboxAssumption, Session!rows, Session!held, Session!remote, Session!locals,
      Session!Self, Session!GoTo, Words, Requests, Session!Waiting, Vault, Inside, Outside
  <1>a1. ASSUME NEW p \in Processes, Session!OpenSession(p) PROVE Requests'
    BY <1>1, <1>a1 DEF Session!OpenSession, Session!MayTake, Session!Dead
  <1>a2. ASSUME NEW p \in Processes, Session!Connect(p) PROVE Requests'
    BY <1>1, <1>a2 DEF Session!Connect
  <1>a3. ASSUME NEW p \in Processes, Session!Close(p) PROVE Requests'
    BY <1>1, <1>a3 DEF Session!Close
  <1>a4. ASSUME NEW p \in Processes, Session!Begin(p) PROVE Requests'
    BY <1>1, <1>a4 DEF Session!Begin, Session!Pending
  <1>a5. ASSUME NEW p \in Processes, Session!Reconcile(p) PROVE Requests'
    <2> HIDE DEF Words, Requests, Session!Waiting, Vault, Inside, Outside
    <2>1. UNCHANGED <<mode, asked, past, Session!held, handoff, life, cur, text, taken, turns, trouble>>
      BY <1>a5 DEF Session!Reconcile
    <2>2. Reconciled(p)
      BY <1>2, <1>a5
    <2>3. \A q \in Questions : reply[q].text # None => reply'[q].text = reply[q].text
      BY <2>2 DEF Reconciled, OnlyAt, Acked, SetApart
    <2>4. step[p] \notin Session!Waiting
      BY <2>2 DEF Reconciled, Session!Waiting
    <2>5. CASE wire' = wire
      <3>1. \A m \in wire : m.by # p
        BY <1>1, <2>4 DEF Requests
      <3> QED
        BY <1>1, <2>1, <2>2, <2>3, <2>5, <3>1, RequestsKept DEF Reconciled, OnlyOf, Outside
    <2>6. CASE /\ step'[p] = "resending" /\ heard'[p] = None /\ UNCHANGED <<reply, offer>>
               /\ wire' = wire \cup {[op |-> "reply", q |-> cur[p], text |-> reply[cur[p]].text, by |-> p]}
      <3>1. Requests /\ OnlyOf(p) /\ UNCHANGED <<cur, text>> /\ step'[p] \in Session!Waiting
        BY <1>1, <2>1, <2>2, <2>6 DEF Reconciled, Session!Waiting
      <3> QED
        BY <1>1, <2>4, <2>6, <3>1, RequestsSent DEF Outside
    <2> QED
      BY <2>2, <2>5, <2>6 DEF Reconciled
  <1>a6. ASSUME NEW p \in Processes, Session!Resent(p) PROVE Requests'
    BY <1>1, <1>a6 DEF Session!Resent, Session!Hear
  <1>a7. ASSUME NEW p \in Processes, Session!Inbox(p) PROVE Requests'
    BY <1>1, <1>a7 DEF Session!Inbox
  <1>a8. ASSUME NEW p \in Processes, Session!Checkpoint(p) PROVE Requests'
    BY <1>1, <1>a8 DEF Session!Checkpoint
  <1>a9. ASSUME NEW p \in Processes, Session!Accept(p) PROVE Requests'
    <2> HIDE DEF Words, Requests, Session!Waiting, Vault, Inside, Outside
    <2>1. step[p] \notin Session!Waiting /\ OnlyOf(p) /\ UNCHANGED <<reply, cur, text>>
      BY <1>1, <1>a9 DEF Session!Accept, Session!Send, Session!Waiting, OnlyOf, Inside
    <2>2. \/ UNCHANGED wire
          \/ /\ step'[p] \in Session!Waiting /\ heard'[p] = None
             /\ step'[p] = "accepting"
             /\ wire' = wire \cup {[op |-> "accept", q |-> cur[p], text |-> None, by |-> p]}
      BY <1>1, <1>a9 DEF Session!Accept, Session!Send, Session!Waiting, Inside, Words
    <2>3. CASE UNCHANGED wire
      <3>1. \A m \in wire : m.by # p
        BY <1>1, <2>1 DEF Requests
      <3> QED
        BY <1>1, <2>1, <2>3, <3>1, RequestsKept DEF OnlyOf, Outside
    <2>4. CASE ~ UNCHANGED wire
      BY <1>1, <2>1, <2>2, <2>4, RequestsSent DEF Outside
    <2> QED
      BY <2>3, <2>4
  <1>a10. ASSUME NEW p \in Processes, Session!Accepted(p) PROVE Requests'
    BY <1>1, <1>a10 DEF Session!Accepted, Session!First
  <1>a11. ASSUME NEW p \in Processes, Session!Submit(p) PROVE Requests'
    BY <1>1, <1>a11 DEF Session!Submit
  <1>a12. ASSUME NEW p \in Processes, Session!Turn(p) PROVE Requests'
    BY <1>1, <1>a12 DEF Session!Turn
  <1>a13. ASSUME NEW p \in Processes, Session!Stage(p) PROVE Requests'
    <2> HIDE DEF Words, Requests, Session!Waiting, Vault, Inside, Outside
    <2>1. UNCHANGED <<mode, asked, past, wire, Session!held, handoff, life, Session!locals, turns, trouble>>
      BY <1>a13 DEF Session!Stage
    <2>2. StagedBy(p)
      BY <1>2, <1>a13
    <2>3. \A q \in Questions : reply[q].text # None => reply'[q].text = reply[q].text
      BY <2>2 DEF StagedBy, OnlyAt, Staged
    <2>4. \A m \in wire : m.by # p
      BY <1>1, <1>a13, <2>2 DEF Requests, Session!Stage, StagedBy, Session!Waiting
    <2> QED
      BY <1>1, <2>1, <2>2, <2>3, <2>4, RequestsKept DEF StagedBy, OnlyOf, Outside
  <1>a14. ASSUME NEW p \in Processes, Session!Reply(p) PROVE Requests'
    <2> HIDE DEF Words, Requests, Session!Waiting, Vault, Inside, Outside
    <2>1. step[p] \notin Session!Waiting /\ OnlyOf(p) /\ UNCHANGED <<reply, cur, text>>
      BY <1>1, <1>a14 DEF Session!Reply, Session!Send, Session!Waiting, OnlyOf, Inside
    <2>2. \/ UNCHANGED wire
          \/ /\ step'[p] \in Session!Waiting /\ heard'[p] = None
             /\ step'[p] # "accepting" /\ step[p] \in {"failing", "reply"}
             /\ IF step[p] = "failing" THEN text[p] = None /\ step'[p] = "failed" ELSE reply[cur[p]].text = text[p]
             /\ wire' = wire \cup {[op |-> "reply", q |-> cur[p], text |-> text[p], by |-> p]}
      BY <1>1, <1>a14 DEF Session!Reply, Session!Send, Session!Waiting, Inside, Words
    <2>3. CASE UNCHANGED wire
      <3>1. \A m \in wire : m.by # p
        BY <1>1, <2>1 DEF Requests
      <3> QED
        BY <1>1, <2>1, <2>3, <3>1, RequestsKept DEF OnlyOf, Outside
    <2>4. CASE ~ UNCHANGED wire
      BY <1>1, <2>1, <2>2, <2>4, RequestsSent DEF Outside
    <2> QED
      BY <2>3, <2>4
  <1>a15. ASSUME NEW p \in Processes, Session!Replied(p) PROVE Requests'
    <2> HIDE DEF Words, Requests, Session!Waiting, Vault, Inside, Outside
    <2>1. UNCHANGED <<mode, asked, past, wire, Session!held, handoff, life, Session!locals, turns, trouble>>
      BY <1>a15 DEF Session!Replied
    <2>2. RepliedBy(p)
      BY <1>2, <1>a15
    <2>3. \A q \in Questions : reply[q].text # None => reply'[q].text = reply[q].text
      BY <2>2 DEF RepliedBy, OnlyAt, Acked
    <2>4. \A m \in wire : m.by # p
      BY <1>1, <1>a15, <2>2 DEF Requests, Session!Replied, RepliedBy, Session!Waiting
    <2> QED
      BY <1>1, <2>1, <2>2, <2>3, <2>4, RequestsKept DEF RepliedBy, OnlyOf, Outside
  <1>a16. ASSUME NEW p \in Processes, Session!Failed(p) PROVE Requests'
    BY <1>1, <1>a16 DEF Session!Failed
  <1>a17. ASSUME NEW p \in Processes, Session!Retire(p) PROVE Requests'
    BY <1>1, <1>a17 DEF Session!Retire
  <1>a18. ASSUME NEW p \in Processes, Session!Lose(p) PROVE Requests'
    <2> HIDE DEF Words, Requests, Session!Waiting, Vault, Inside, Outside
    <2>1. OnlyOf(p) /\ UNCHANGED <<reply, cur, text>>
      BY <1>1, <1>a18 DEF Session!Lose, OnlyOf, Inside
    <2>2. \A m \in wire' :
              \/ m \in wire /\ m.by # p
              \/ m.by = None /\ \E n \in wire : m.op = n.op /\ m.q = n.q /\ m.text = n.text
      BY <1>1, <1>a18 DEF Session!Lose, Outside
    <2> QED
      BY <1>1, <2>1, <2>2, RequestsKept DEF OnlyOf, Outside
  <1>a19. ASSUME NEW p \in Processes, Session!Crash(p) PROVE Requests'
    <2> HIDE DEF Words, Requests, Session!Waiting, Vault, Inside, Outside
    <2>1. OnlyOf(p) /\ UNCHANGED reply /\ \A r \in Processes : r # p => cur'[r] = cur[r] /\ text'[r] = text[r]
      BY <1>1, <1>a19 DEF Session!Crash, Session!Forgotten, OnlyOf, Inside
    <2>2. \A m \in wire' :
              \/ m \in wire /\ m.by # p
              \/ m.by = None /\ \E n \in wire : m.op = n.op /\ m.q = n.q /\ m.text = n.text
      BY <1>1, <1>a19 DEF Session!Crash, Outside
    <2> QED
      BY <1>1, <2>1, <2>2, RequestsKept DEF OnlyOf, Outside
  <1>a20. ASSUME NEW p \in Processes, Session!Fail(p) PROVE Requests'
    BY <1>1, <1>a20 DEF Session!Fail
  <1>a21. ASSUME NEW p \in Processes, Session!Stop(p) PROVE Requests'
    BY <1>1, <1>a21 DEF Session!Stop
  <1>a22. ASSUME NEW p \in Processes, Session!Renew(p) PROVE Requests'
    BY <1>1, <1>a22 DEF Session!Renew
  <1>a23. ASSUME NEW m \in wire, Session!Take(m) PROVE Requests'
    BY <1>1, <1>a23 DEF Session!Take, Session!After, Session!Response
  <1>a24. ASSUME NEW q \in Questions, Session!Tick(q) PROVE Requests'
    BY <1>1, <1>a24 DEF Session!Tick
  <1>a25. ASSUME NEW q \in Questions, Session!Expire(q) PROVE Requests'
    BY <1>1, <1>a25 DEF Session!Expire
  <1>a26. ASSUME Session!EndBinding PROVE Requests'
    BY <1>1, <1>a26 DEF Session!EndBinding
  <1> QED
    BY <1>a1, <1>a2, <1>a3, <1>a4, <1>a5, <1>a6, <1>a7, <1>a8, <1>a9, <1>a10, <1>a11, <1>a12, <1>a13, <1>a14,
       <1>a15, <1>a16, <1>a17, <1>a18, <1>a19, <1>a20, <1>a21, <1>a22, <1>a23, <1>a24, <1>a25, <1>a26
       DEF Session!Next, Session!Step, Session!Fault

LEMMA AnswersStep == ASSUME Session!InboxAssumption, InboxInv, Session!Next PROVE Answers' /\ Session!AnswersAreKept'
  <1>1. Outside /\ Vault /\ Inside /\ Words /\ Requests /\ Answers /\ Session!AnswersAreKept
    BY ShapesAre DEF InboxInv
  <1>2. \A p \in Processes : (Session!Reconcile(p) => Reconciled(p)) /\ (Session!Stage(p) => StagedBy(p)) /\ (Session!Replied(p) => RepliedBy(p))
    BY ReconcileIs, StageIs, RepliedIs DEF InboxInv, InboxShapes, Session!TypeOK, Vault, Inside
  <1> USE DEF Session!InboxAssumption, Session!rows, Session!held, Session!remote, Session!locals,
      Session!Self, Session!GoTo, Words, Requests, Answers, Session!AnswersAreKept, Vault, Inside, Outside
  <1>a1. ASSUME NEW p \in Processes, Session!OpenSession(p) PROVE Answers' /\ Session!AnswersAreKept'
    BY <1>1, <1>a1 DEF Session!OpenSession, Session!MayTake, Session!Dead
  <1>a2. ASSUME NEW p \in Processes, Session!Connect(p) PROVE Answers' /\ Session!AnswersAreKept'
    BY <1>1, <1>a2 DEF Session!Connect
  <1>a3. ASSUME NEW p \in Processes, Session!Close(p) PROVE Answers' /\ Session!AnswersAreKept'
    BY <1>1, <1>a3 DEF Session!Close
  <1>a4. ASSUME NEW p \in Processes, Session!Begin(p) PROVE Answers' /\ Session!AnswersAreKept'
    BY <1>1, <1>a4 DEF Session!Begin, Session!Pending
  <1>a5. ASSUME NEW p \in Processes, Session!Reconcile(p) PROVE Answers' /\ Session!AnswersAreKept'
    <2> HIDE DEF Words, Requests, Answers, Session!AnswersAreKept, Vault, Inside, Outside
    <2>1. UNCHANGED <<mode, asked, past, Session!held, handoff, life, cur, text, taken, turns, trouble>>
      BY <1>a5 DEF Session!Reconcile
    <2>2. Reconciled(p)
      BY <1>2, <1>a5
    <2>3. \A q \in Questions : reply[q].text # None => reply'[q].text = reply[q].text
      BY <2>2 DEF Reconciled, OnlyAt, Acked, SetApart
    <2> QED
      BY <1>1, <2>1, <2>3 DEF Answers, Session!AnswersAreKept, Outside
  <1>a6. ASSUME NEW p \in Processes, Session!Resent(p) PROVE Answers' /\ Session!AnswersAreKept'
    BY <1>1, <1>a6 DEF Session!Resent, Session!Hear
  <1>a7. ASSUME NEW p \in Processes, Session!Inbox(p) PROVE Answers' /\ Session!AnswersAreKept'
    BY <1>1, <1>a7 DEF Session!Inbox
  <1>a8. ASSUME NEW p \in Processes, Session!Checkpoint(p) PROVE Answers' /\ Session!AnswersAreKept'
    BY <1>1, <1>a8 DEF Session!Checkpoint
  <1>a9. ASSUME NEW p \in Processes, Session!Accept(p) PROVE Answers' /\ Session!AnswersAreKept'
    BY <1>1, <1>a9 DEF Session!Accept, Session!Send
  <1>a10. ASSUME NEW p \in Processes, Session!Accepted(p) PROVE Answers' /\ Session!AnswersAreKept'
    BY <1>1, <1>a10 DEF Session!Accepted, Session!First
  <1>a11. ASSUME NEW p \in Processes, Session!Submit(p) PROVE Answers' /\ Session!AnswersAreKept'
    BY <1>1, <1>a11 DEF Session!Submit
  <1>a12. ASSUME NEW p \in Processes, Session!Turn(p) PROVE Answers' /\ Session!AnswersAreKept'
    BY <1>1, <1>a12 DEF Session!Turn
  <1>a13. ASSUME NEW p \in Processes, Session!Stage(p) PROVE Answers' /\ Session!AnswersAreKept'
    <2> HIDE DEF Words, Requests, Answers, Session!AnswersAreKept, Vault, Inside, Outside
    <2>1. UNCHANGED <<mode, asked, past, wire, Session!held, handoff, life, Session!locals, turns, trouble>>
      BY <1>a13 DEF Session!Stage
    <2>2. StagedBy(p)
      BY <1>2, <1>a13
    <2>3. \A q \in Questions : reply[q].text # None => reply'[q].text = reply[q].text
      BY <2>2 DEF StagedBy, OnlyAt, Staged
    <2> QED
      BY <1>1, <2>1, <2>3 DEF Answers, Session!AnswersAreKept, Outside
  <1>a14. ASSUME NEW p \in Processes, Session!Reply(p) PROVE Answers' /\ Session!AnswersAreKept'
    BY <1>1, <1>a14 DEF Session!Reply, Session!Send
  <1>a15. ASSUME NEW p \in Processes, Session!Replied(p) PROVE Answers' /\ Session!AnswersAreKept'
    <2> HIDE DEF Words, Requests, Answers, Session!AnswersAreKept, Vault, Inside, Outside
    <2>1. UNCHANGED <<mode, asked, past, wire, Session!held, handoff, life, Session!locals, turns, trouble>>
      BY <1>a15 DEF Session!Replied
    <2>2. RepliedBy(p)
      BY <1>2, <1>a15
    <2>3. \A q \in Questions : reply[q].text # None => reply'[q].text = reply[q].text
      BY <2>2 DEF RepliedBy, OnlyAt, Acked
    <2> QED
      BY <1>1, <2>1, <2>3 DEF Answers, Session!AnswersAreKept, Outside
  <1>a16. ASSUME NEW p \in Processes, Session!Failed(p) PROVE Answers' /\ Session!AnswersAreKept'
    BY <1>1, <1>a16 DEF Session!Failed
  <1>a17. ASSUME NEW p \in Processes, Session!Retire(p) PROVE Answers' /\ Session!AnswersAreKept'
    BY <1>1, <1>a17 DEF Session!Retire
  <1>a18. ASSUME NEW p \in Processes, Session!Lose(p) PROVE Answers' /\ Session!AnswersAreKept'
    BY <1>1, <1>a18 DEF Session!Lose
  <1>a19. ASSUME NEW p \in Processes, Session!Crash(p) PROVE Answers' /\ Session!AnswersAreKept'
    BY <1>1, <1>a19 DEF Session!Crash, Session!Forgotten
  <1>a20. ASSUME NEW p \in Processes, Session!Fail(p) PROVE Answers' /\ Session!AnswersAreKept'
    BY <1>1, <1>a20 DEF Session!Fail
  <1>a21. ASSUME NEW p \in Processes, Session!Stop(p) PROVE Answers' /\ Session!AnswersAreKept'
    BY <1>1, <1>a21 DEF Session!Stop
  <1>a22. ASSUME NEW p \in Processes, Session!Renew(p) PROVE Answers' /\ Session!AnswersAreKept'
    BY <1>1, <1>a22 DEF Session!Renew
  <1>a23. ASSUME NEW m \in wire, Session!Take(m) PROVE Answers' /\ Session!AnswersAreKept'
    BY <1>1, <1>a23 DEF Session!Take, Session!After, Session!Response
  <1>a24. ASSUME NEW q \in Questions, Session!Tick(q) PROVE Answers' /\ Session!AnswersAreKept'
    BY <1>1, <1>a24 DEF Session!Tick
  <1>a25. ASSUME NEW q \in Questions, Session!Expire(q) PROVE Answers' /\ Session!AnswersAreKept'
    BY <1>1, <1>a25 DEF Session!Expire
  <1>a26. ASSUME Session!EndBinding PROVE Answers' /\ Session!AnswersAreKept'
    BY <1>1, <1>a26 DEF Session!EndBinding
  <1> QED
    BY <1>a1, <1>a2, <1>a3, <1>a4, <1>a5, <1>a6, <1>a7, <1>a8, <1>a9, <1>a10, <1>a11, <1>a12, <1>a13, <1>a14,
       <1>a15, <1>a16, <1>a17, <1>a18, <1>a19, <1>a20, <1>a21, <1>a22, <1>a23, <1>a24, <1>a25, <1>a26
       DEF Session!Next, Session!Step, Session!Fault

LEMMA HeardStep == ASSUME Session!InboxAssumption, InboxInv, Session!Next PROVE Heard'
  <1>1. Outside /\ Vault /\ Inside /\ Words /\ Requests /\ Answers /\ Heard
    BY ShapesAre DEF InboxInv
  <1>2. \A p \in Processes : (Session!Reconcile(p) => Reconciled(p)) /\ (Session!Stage(p) => StagedBy(p)) /\ (Session!Replied(p) => RepliedBy(p))
    BY ReconcileIs, StageIs, RepliedIs DEF InboxInv, InboxShapes, Session!TypeOK, Vault, Inside
  <1> USE DEF Session!InboxAssumption, Session!rows, Session!held, Session!remote, Session!locals,
      Session!Self, Session!GoTo, Words, Requests, Answers, Heard, Session!Delivered, Session!Waiting, Vault,
      Inside, Outside
  <1>a1. ASSUME NEW p \in Processes, Session!OpenSession(p) PROVE Heard'
    BY <1>1, <1>a1 DEF Session!OpenSession, Session!MayTake, Session!Dead
  <1>a2. ASSUME NEW p \in Processes, Session!Connect(p) PROVE Heard'
    BY <1>1, <1>a2 DEF Session!Connect
  <1>a3. ASSUME NEW p \in Processes, Session!Close(p) PROVE Heard'
    BY <1>1, <1>a3 DEF Session!Close
  <1>a4. ASSUME NEW p \in Processes, Session!Begin(p) PROVE Heard'
    BY <1>1, <1>a4 DEF Session!Begin, Session!Pending
  <1>a5. ASSUME NEW p \in Processes, Session!Reconcile(p) PROVE Heard'
    <2> HIDE DEF Words, Requests, Answers, Heard, Session!Delivered, Session!Waiting, Vault, Inside, Outside
    <2>1. UNCHANGED <<mode, asked, past, Session!held, handoff, life, cur, text, taken, turns, trouble>>
      BY <1>a5 DEF Session!Reconcile
    <2>2. Reconciled(p)
      BY <1>2, <1>a5
    <2>3. \A q \in Questions : reply[q].text # None => reply'[q].text = reply[q].text
      BY <2>2 DEF Reconciled, OnlyAt, Acked, SetApart
    <2>4. ASSUME NEW r \in Processes, step'[r] = "replying", heard'[r] \in {"fresh", "replay"} PROVE Session!Delivered(cur[r])'
      <3>1. r # p /\ step[r] = "replying" /\ heard[r] = heard'[r]
        BY <2>2, <2>4 DEF Reconciled, OnlyOf
      <3>2. Session!Delivered(cur[r]) /\ cur[r] \in Questions
        BY <1>1, <2>4, <3>1 DEF Heard, Words
      <3> QED
        BY <1>1, <2>1, <2>3, <3>2 DEF Session!Delivered, Answers
    <2> QED
      BY <2>4 DEF Heard
  <1>a6. ASSUME NEW p \in Processes, Session!Resent(p) PROVE Heard'
    BY <1>1, <1>a6 DEF Session!Resent, Session!Hear
  <1>a7. ASSUME NEW p \in Processes, Session!Inbox(p) PROVE Heard'
    BY <1>1, <1>a7 DEF Session!Inbox
  <1>a8. ASSUME NEW p \in Processes, Session!Checkpoint(p) PROVE Heard'
    BY <1>1, <1>a8 DEF Session!Checkpoint
  <1>a9. ASSUME NEW p \in Processes, Session!Accept(p) PROVE Heard'
    BY <1>1, <1>a9 DEF Session!Accept, Session!Send
  <1>a10. ASSUME NEW p \in Processes, Session!Accepted(p) PROVE Heard'
    BY <1>1, <1>a10 DEF Session!Accepted, Session!First
  <1>a11. ASSUME NEW p \in Processes, Session!Submit(p) PROVE Heard'
    BY <1>1, <1>a11 DEF Session!Submit
  <1>a12. ASSUME NEW p \in Processes, Session!Turn(p) PROVE Heard'
    BY <1>1, <1>a12 DEF Session!Turn
  <1>a13. ASSUME NEW p \in Processes, Session!Stage(p) PROVE Heard'
    <2> HIDE DEF Words, Requests, Answers, Heard, Session!Delivered, Session!Waiting, Vault, Inside, Outside
    <2>1. UNCHANGED <<mode, asked, past, wire, Session!held, handoff, life, Session!locals, turns, trouble>>
      BY <1>a13 DEF Session!Stage
    <2>2. StagedBy(p)
      BY <1>2, <1>a13
    <2>3. \A q \in Questions : reply[q].text # None => reply'[q].text = reply[q].text
      BY <2>2 DEF StagedBy, OnlyAt, Staged
    <2>4. ASSUME NEW r \in Processes, step'[r] = "replying", heard'[r] \in {"fresh", "replay"} PROVE Session!Delivered(cur[r])'
      <3>1. r # p /\ step[r] = "replying" /\ heard[r] = heard'[r]
        BY <2>2, <2>4 DEF StagedBy, OnlyOf
      <3>2. Session!Delivered(cur[r]) /\ cur[r] \in Questions
        BY <1>1, <2>4, <3>1 DEF Heard, Words
      <3> QED
        BY <1>1, <2>1, <2>3, <3>2 DEF Session!Delivered, Answers
    <2> QED
      BY <2>4 DEF Heard
  <1>a14. ASSUME NEW p \in Processes, Session!Reply(p) PROVE Heard'
    BY <1>1, <1>a14 DEF Session!Reply, Session!Send
  <1>a15. ASSUME NEW p \in Processes, Session!Replied(p) PROVE Heard'
    <2> HIDE DEF Words, Requests, Answers, Heard, Session!Delivered, Session!Waiting, Vault, Inside, Outside
    <2>1. UNCHANGED <<mode, asked, past, wire, Session!held, handoff, life, Session!locals, turns, trouble>>
      BY <1>a15 DEF Session!Replied
    <2>2. RepliedBy(p)
      BY <1>2, <1>a15
    <2>3. \A q \in Questions : reply[q].text # None => reply'[q].text = reply[q].text
      BY <2>2 DEF RepliedBy, OnlyAt, Acked
    <2>4. ASSUME NEW r \in Processes, step'[r] = "replying", heard'[r] \in {"fresh", "replay"} PROVE Session!Delivered(cur[r])'
      <3>1. r # p /\ step[r] = "replying" /\ heard[r] = heard'[r]
        BY <2>2, <2>4 DEF RepliedBy, OnlyOf
      <3>2. Session!Delivered(cur[r]) /\ cur[r] \in Questions
        BY <1>1, <2>4, <3>1 DEF Heard, Words
      <3> QED
        BY <1>1, <2>1, <2>3, <3>2 DEF Session!Delivered, Answers
    <2> QED
      BY <2>4 DEF Heard
  <1>a16. ASSUME NEW p \in Processes, Session!Failed(p) PROVE Heard'
    BY <1>1, <1>a16 DEF Session!Failed
  <1>a17. ASSUME NEW p \in Processes, Session!Retire(p) PROVE Heard'
    BY <1>1, <1>a17 DEF Session!Retire
  <1>a18. ASSUME NEW p \in Processes, Session!Lose(p) PROVE Heard'
    BY <1>1, <1>a18 DEF Session!Lose
  <1>a19. ASSUME NEW p \in Processes, Session!Crash(p) PROVE Heard'
    BY <1>1, <1>a19 DEF Session!Crash, Session!Forgotten
  <1>a20. ASSUME NEW p \in Processes, Session!Fail(p) PROVE Heard'
    BY <1>1, <1>a20 DEF Session!Fail
  <1>a21. ASSUME NEW p \in Processes, Session!Stop(p) PROVE Heard'
    BY <1>1, <1>a21 DEF Session!Stop
  <1>a22. ASSUME NEW p \in Processes, Session!Renew(p) PROVE Heard'
    BY <1>1, <1>a22 DEF Session!Renew
  <1>a23. ASSUME NEW m \in wire, Session!Take(m) PROVE Heard'
    BY <1>1, <1>a23 DEF Session!Take, Session!After, Session!Response
  <1>a24. ASSUME NEW q \in Questions, Session!Tick(q) PROVE Heard'
    BY <1>1, <1>a24 DEF Session!Tick
  <1>a25. ASSUME NEW q \in Questions, Session!Expire(q) PROVE Heard'
    BY <1>1, <1>a25 DEF Session!Expire
  <1>a26. ASSUME Session!EndBinding PROVE Heard'
    BY <1>1, <1>a26 DEF Session!EndBinding
  <1> QED
    BY <1>a1, <1>a2, <1>a3, <1>a4, <1>a5, <1>a6, <1>a7, <1>a8, <1>a9, <1>a10, <1>a11, <1>a12, <1>a13, <1>a14,
       <1>a15, <1>a16, <1>a17, <1>a18, <1>a19, <1>a20, <1>a21, <1>a22, <1>a23, <1>a24, <1>a25, <1>a26
       DEF Session!Next, Session!Step, Session!Fault

LEMMA RepliesStep == ASSUME Session!InboxAssumption, InboxInv, Session!Next PROVE Session!AcksAreTrue' /\ Session!Disposed'
  <1>1. Outside /\ Vault /\ Inside /\ Words /\ Answers /\ Heard /\ Session!AcksAreTrue /\ Session!Disposed
    BY ShapesAre DEF InboxInv
  <1>2. \A p \in Processes : (Session!Reconcile(p) => Reconciled(p)) /\ (Session!Stage(p) => StagedBy(p)) /\ (Session!Replied(p) => RepliedBy(p))
    BY ReconcileIs, StageIs, RepliedIs DEF InboxInv, InboxShapes, Session!TypeOK, Vault, Inside
  <1> USE DEF Session!InboxAssumption, Session!rows, Session!held, Session!remote, Session!locals,
      Session!Self, Session!GoTo, Words, Answers, Heard, Session!AcksAreTrue, Session!Disposed,
      Session!Delivered, Vault, Inside, Outside
  <1>a1. ASSUME NEW p \in Processes, Session!OpenSession(p) PROVE Session!AcksAreTrue' /\ Session!Disposed'
    BY <1>1, <1>a1 DEF Session!OpenSession, Session!MayTake, Session!Dead
  <1>a2. ASSUME NEW p \in Processes, Session!Connect(p) PROVE Session!AcksAreTrue' /\ Session!Disposed'
    BY <1>1, <1>a2 DEF Session!Connect
  <1>a3. ASSUME NEW p \in Processes, Session!Close(p) PROVE Session!AcksAreTrue' /\ Session!Disposed'
    BY <1>1, <1>a3 DEF Session!Close
  <1>a4. ASSUME NEW p \in Processes, Session!Begin(p) PROVE Session!AcksAreTrue' /\ Session!Disposed'
    BY <1>1, <1>a4 DEF Session!Begin, Session!Pending
  <1>a5. ASSUME NEW p \in Processes, Session!Reconcile(p) PROVE Session!AcksAreTrue' /\ Session!Disposed'
    <2> HIDE DEF Words, Answers, Heard, Session!AcksAreTrue, Session!Disposed, Session!Delivered, Vault, Inside, Outside
    <2>1. UNCHANGED <<mode, asked, past, Session!held, handoff, life, cur, text, taken, turns, trouble>>
      BY <1>a5 DEF Session!Reconcile
    <2>2. Reconciled(p)
      BY <1>2, <1>a5
    <2>3. \A q \in Questions : reply[q].text # None => reply'[q].text = reply[q].text
      BY <2>2 DEF Reconciled, OnlyAt, Acked, SetApart
    <2> DEFINE True(q) ==
                /\ reply[q].acked => Session!Delivered(q)
                /\ reply[q].quarantined => ~ reply[q].acked /\ asked[q].state = "expired"
    <2>4. ASSUME NEW q \in Questions PROVE True(q)'
      <3>1. True(q) /\ (asked[q].state = "answered" <=> asked[q].text # None)
        BY <1>1 DEF Session!AcksAreTrue, Session!Disposed, Answers
      <3>2. CASE reply'[q] = reply[q]
        BY <2>1, <3>1, <3>2 DEF Session!Delivered
      <3>3. CASE reply'[q] # reply[q]
        <4>1. q = cur[p]
          BY <2>2, <3>3 DEF Reconciled, Acked, SetApart, OnlyAt
        <4> QED
          BY <1>1, <2>1, <2>2, <2>3, <3>1, <3>3, <4>1 DEF Reconciled, Acked, SetApart, Session!Delivered,
             Heard, Inside
      <3> QED
        BY <3>2, <3>3
    <2> QED
      BY <2>4 DEF Session!AcksAreTrue, Session!Disposed
  <1>a6. ASSUME NEW p \in Processes, Session!Resent(p) PROVE Session!AcksAreTrue' /\ Session!Disposed'
    BY <1>1, <1>a6 DEF Session!Resent, Session!Hear
  <1>a7. ASSUME NEW p \in Processes, Session!Inbox(p) PROVE Session!AcksAreTrue' /\ Session!Disposed'
    BY <1>1, <1>a7 DEF Session!Inbox
  <1>a8. ASSUME NEW p \in Processes, Session!Checkpoint(p) PROVE Session!AcksAreTrue' /\ Session!Disposed'
    BY <1>1, <1>a8 DEF Session!Checkpoint
  <1>a9. ASSUME NEW p \in Processes, Session!Accept(p) PROVE Session!AcksAreTrue' /\ Session!Disposed'
    BY <1>1, <1>a9 DEF Session!Accept, Session!Send
  <1>a10. ASSUME NEW p \in Processes, Session!Accepted(p) PROVE Session!AcksAreTrue' /\ Session!Disposed'
    BY <1>1, <1>a10 DEF Session!Accepted, Session!First
  <1>a11. ASSUME NEW p \in Processes, Session!Submit(p) PROVE Session!AcksAreTrue' /\ Session!Disposed'
    BY <1>1, <1>a11 DEF Session!Submit
  <1>a12. ASSUME NEW p \in Processes, Session!Turn(p) PROVE Session!AcksAreTrue' /\ Session!Disposed'
    BY <1>1, <1>a12 DEF Session!Turn
  <1>a13. ASSUME NEW p \in Processes, Session!Stage(p) PROVE Session!AcksAreTrue' /\ Session!Disposed'
    <2> HIDE DEF Words, Answers, Heard, Session!AcksAreTrue, Session!Disposed, Session!Delivered, Vault, Inside, Outside
    <2>1. UNCHANGED <<mode, asked, past, wire, Session!held, handoff, life, Session!locals, turns, trouble>>
      BY <1>a13 DEF Session!Stage
    <2>2. StagedBy(p)
      BY <1>2, <1>a13
    <2>3. \A q \in Questions : reply[q].text # None => reply'[q].text = reply[q].text
      BY <2>2 DEF StagedBy, OnlyAt, Staged
    <2> DEFINE True(q) ==
                /\ reply[q].acked => Session!Delivered(q)
                /\ reply[q].quarantined => ~ reply[q].acked /\ asked[q].state = "expired"
    <2>4. ASSUME NEW q \in Questions PROVE True(q)'
      <3>1. True(q) /\ (asked[q].state = "answered" <=> asked[q].text # None)
        BY <1>1 DEF Session!AcksAreTrue, Session!Disposed, Answers
      <3>2. CASE reply'[q] = reply[q]
        BY <2>1, <3>1, <3>2 DEF Session!Delivered
      <3>3. CASE reply'[q] # reply[q]
        <4>1. q = cur[p]
          BY <2>2, <3>3 DEF StagedBy, Staged, OnlyAt
        <4> QED
          BY <1>1, <2>1, <2>2, <2>3, <3>1, <3>3, <4>1 DEF StagedBy, Staged, Session!Delivered, Heard, Inside
      <3> QED
        BY <3>2, <3>3
    <2> QED
      BY <2>4 DEF Session!AcksAreTrue, Session!Disposed
  <1>a14. ASSUME NEW p \in Processes, Session!Reply(p) PROVE Session!AcksAreTrue' /\ Session!Disposed'
    BY <1>1, <1>a14 DEF Session!Reply, Session!Send
  <1>a15. ASSUME NEW p \in Processes, Session!Replied(p) PROVE Session!AcksAreTrue' /\ Session!Disposed'
    <2> HIDE DEF Words, Answers, Heard, Session!AcksAreTrue, Session!Disposed, Session!Delivered, Vault, Inside, Outside
    <2>1. UNCHANGED <<mode, asked, past, wire, Session!held, handoff, life, Session!locals, turns, trouble>>
      BY <1>a15 DEF Session!Replied
    <2>2. RepliedBy(p)
      BY <1>2, <1>a15
    <2>3. \A q \in Questions : reply[q].text # None => reply'[q].text = reply[q].text
      BY <2>2 DEF RepliedBy, OnlyAt, Acked
    <2> DEFINE True(q) ==
                /\ reply[q].acked => Session!Delivered(q)
                /\ reply[q].quarantined => ~ reply[q].acked /\ asked[q].state = "expired"
    <2>4. ASSUME NEW q \in Questions PROVE True(q)'
      <3>1. True(q) /\ (asked[q].state = "answered" <=> asked[q].text # None)
        BY <1>1 DEF Session!AcksAreTrue, Session!Disposed, Answers
      <3>2. CASE reply'[q] = reply[q]
        BY <2>1, <3>1, <3>2 DEF Session!Delivered
      <3>3. CASE reply'[q] # reply[q]
        <4>1. q = cur[p]
          BY <2>2, <3>3 DEF RepliedBy, Acked, OnlyAt
        <4> QED
          BY <1>1, <2>1, <2>2, <2>3, <3>1, <3>3, <4>1 DEF RepliedBy, Acked, Session!Delivered, Heard, Inside
      <3> QED
        BY <3>2, <3>3
    <2> QED
      BY <2>4 DEF Session!AcksAreTrue, Session!Disposed
  <1>a16. ASSUME NEW p \in Processes, Session!Failed(p) PROVE Session!AcksAreTrue' /\ Session!Disposed'
    BY <1>1, <1>a16 DEF Session!Failed
  <1>a17. ASSUME NEW p \in Processes, Session!Retire(p) PROVE Session!AcksAreTrue' /\ Session!Disposed'
    BY <1>1, <1>a17 DEF Session!Retire
  <1>a18. ASSUME NEW p \in Processes, Session!Lose(p) PROVE Session!AcksAreTrue' /\ Session!Disposed'
    BY <1>1, <1>a18 DEF Session!Lose
  <1>a19. ASSUME NEW p \in Processes, Session!Crash(p) PROVE Session!AcksAreTrue' /\ Session!Disposed'
    BY <1>1, <1>a19 DEF Session!Crash, Session!Forgotten
  <1>a20. ASSUME NEW p \in Processes, Session!Fail(p) PROVE Session!AcksAreTrue' /\ Session!Disposed'
    BY <1>1, <1>a20 DEF Session!Fail
  <1>a21. ASSUME NEW p \in Processes, Session!Stop(p) PROVE Session!AcksAreTrue' /\ Session!Disposed'
    BY <1>1, <1>a21 DEF Session!Stop
  <1>a22. ASSUME NEW p \in Processes, Session!Renew(p) PROVE Session!AcksAreTrue' /\ Session!Disposed'
    BY <1>1, <1>a22 DEF Session!Renew
  <1>a23. ASSUME NEW m \in wire, Session!Take(m) PROVE Session!AcksAreTrue' /\ Session!Disposed'
    BY <1>1, <1>a23 DEF Session!Take, Session!After, Session!Response
  <1>a24. ASSUME NEW q \in Questions, Session!Tick(q) PROVE Session!AcksAreTrue' /\ Session!Disposed'
    BY <1>1, <1>a24 DEF Session!Tick
  <1>a25. ASSUME NEW q \in Questions, Session!Expire(q) PROVE Session!AcksAreTrue' /\ Session!Disposed'
    BY <1>1, <1>a25 DEF Session!Expire
  <1>a26. ASSUME Session!EndBinding PROVE Session!AcksAreTrue' /\ Session!Disposed'
    BY <1>1, <1>a26 DEF Session!EndBinding
  <1> QED
    BY <1>a1, <1>a2, <1>a3, <1>a4, <1>a5, <1>a6, <1>a7, <1>a8, <1>a9, <1>a10, <1>a11, <1>a12, <1>a13, <1>a14,
       <1>a15, <1>a16, <1>a17, <1>a18, <1>a19, <1>a20, <1>a21, <1>a22, <1>a23, <1>a24, <1>a25, <1>a26
       DEF Session!Next, Session!Step, Session!Fault

LEMMA SettledStep == ASSUME Session!InboxAssumption, InboxInv, Session!Next PROVE Session!SettledTogether'
  <1>1. Outside /\ Vault /\ Inside /\ Words /\ Answers /\ Session!AcksAreTrue /\ Cooperates /\ Modes
        /\ Session!SettledTogether
    BY ShapesAre DEF InboxInv
  <1>2. \A p \in Processes : (Session!Reconcile(p) => Reconciled(p)) /\ (Session!Stage(p) => StagedBy(p)) /\ (Session!Replied(p) => RepliedBy(p))
    BY ReconcileIs, StageIs, RepliedIs DEF InboxInv, InboxShapes, Session!TypeOK, Vault, Inside
  <1> USE DEF Session!InboxAssumption, Session!rows, Session!held, Session!remote, Session!locals,
      Session!Self, Session!GoTo, Words, Answers, Session!AcksAreTrue, Cooperates, Modes,
      Session!SettledTogether, Session!Delivered, Vault, Inside, Outside
  <1>a1. ASSUME NEW p \in Processes, Session!OpenSession(p) PROVE Session!SettledTogether'
    BY <1>1, <1>a1 DEF Session!OpenSession, Session!MayTake, Session!Dead
  <1>a2. ASSUME NEW p \in Processes, Session!Connect(p) PROVE Session!SettledTogether'
    BY <1>1, <1>a2 DEF Session!Connect
  <1>a3. ASSUME NEW p \in Processes, Session!Close(p) PROVE Session!SettledTogether'
    BY <1>1, <1>a3 DEF Session!Close
  <1>a4. ASSUME NEW p \in Processes, Session!Begin(p) PROVE Session!SettledTogether'
    BY <1>1, <1>a4 DEF Session!Begin, Session!Pending
  <1>a5. ASSUME NEW p \in Processes, Session!Reconcile(p) PROVE Session!SettledTogether'
    <2> HIDE DEF Words, Answers, Session!AcksAreTrue, Cooperates, Modes, Session!SettledTogether, Session!Delivered, Vault, Inside, Outside
    <2>1. UNCHANGED <<mode, asked, past, Session!held, handoff, life, cur, text, taken, turns, trouble>>
      BY <1>a5 DEF Session!Reconcile
    <2>2. Reconciled(p)
      BY <1>2, <1>a5
    <2>3. \A q \in Questions : reply[q].text # None => reply'[q].text = reply[q].text
      BY <2>2 DEF Reconciled, OnlyAt, Acked, SetApart
    <2>4. ASSUME NEW q \in Questions PROVE offer'[q] # None => (offer'[q] = "settled" <=> reply'[q].acked)
      <3>1. offer[q] # None => (offer[q] = "settled" <=> reply[q].acked)
        BY <1>1 DEF Session!SettledTogether
      <3> QED
        BY <1>1, <2>2, <3>1 DEF Reconciled, Acked, SetApart, OnlyAt, Vault
    <2> QED
      BY <2>4 DEF Session!SettledTogether
  <1>a6. ASSUME NEW p \in Processes, Session!Resent(p) PROVE Session!SettledTogether'
    BY <1>1, <1>a6 DEF Session!Resent, Session!Hear
  <1>a7. ASSUME NEW p \in Processes, Session!Inbox(p) PROVE Session!SettledTogether'
    BY <1>1, <1>a7 DEF Session!Inbox
  <1>a8. ASSUME NEW p \in Processes, Session!Checkpoint(p) PROVE Session!SettledTogether'
    BY <1>1, <1>a8 DEF Session!Checkpoint
  <1>a9. ASSUME NEW p \in Processes, Session!Accept(p) PROVE Session!SettledTogether'
    BY <1>1, <1>a9 DEF Session!Accept, Session!Send
  <1>a10. ASSUME NEW p \in Processes, Session!Accepted(p) PROVE Session!SettledTogether'
    BY <1>1, <1>a10 DEF Session!Accepted, Session!First
  <1>a11. ASSUME NEW p \in Processes, Session!Submit(p) PROVE Session!SettledTogether'
    BY <1>1, <1>a11 DEF Session!Submit
  <1>a12. ASSUME NEW p \in Processes, Session!Turn(p) PROVE Session!SettledTogether'
    BY <1>1, <1>a12 DEF Session!Turn
  <1>a13. ASSUME NEW p \in Processes, Session!Stage(p) PROVE Session!SettledTogether'
    <2> HIDE DEF Words, Answers, Session!AcksAreTrue, Cooperates, Modes, Session!SettledTogether, Session!Delivered, Vault, Inside, Outside
    <2>1. UNCHANGED <<mode, asked, past, wire, Session!held, handoff, life, Session!locals, turns, trouble>>
      BY <1>a13 DEF Session!Stage
    <2>2. StagedBy(p)
      BY <1>2, <1>a13
    <2> QED
      BY <1>1, <2>1, <2>2 DEF StagedBy, OnlyAt, Staged, Session!SettledTogether
  <1>a14. ASSUME NEW p \in Processes, Session!Reply(p) PROVE Session!SettledTogether'
    BY <1>1, <1>a14 DEF Session!Reply, Session!Send
  <1>a15. ASSUME NEW p \in Processes, Session!Replied(p) PROVE Session!SettledTogether'
    <2> HIDE DEF Words, Answers, Session!AcksAreTrue, Cooperates, Modes, Session!SettledTogether, Session!Delivered, Vault, Inside, Outside
    <2>1. UNCHANGED <<mode, asked, past, wire, Session!held, handoff, life, Session!locals, turns, trouble>>
      BY <1>a15 DEF Session!Replied
    <2>2. RepliedBy(p)
      BY <1>2, <1>a15
    <2> QED
      BY <1>1, <2>1, <2>2 DEF RepliedBy, OnlyAt, Acked, Session!SettledTogether, Vault
  <1>a16. ASSUME NEW p \in Processes, Session!Failed(p) PROVE Session!SettledTogether'
    BY <1>1, <1>a16 DEF Session!Failed
  <1>a17. ASSUME NEW p \in Processes, Session!Retire(p) PROVE Session!SettledTogether'
    BY <1>1, <1>a17 DEF Session!Retire
  <1>a18. ASSUME NEW p \in Processes, Session!Lose(p) PROVE Session!SettledTogether'
    BY <1>1, <1>a18 DEF Session!Lose
  <1>a19. ASSUME NEW p \in Processes, Session!Crash(p) PROVE Session!SettledTogether'
    BY <1>1, <1>a19 DEF Session!Crash, Session!Forgotten
  <1>a20. ASSUME NEW p \in Processes, Session!Fail(p) PROVE Session!SettledTogether'
    BY <1>1, <1>a20 DEF Session!Fail
  <1>a21. ASSUME NEW p \in Processes, Session!Stop(p) PROVE Session!SettledTogether'
    BY <1>1, <1>a21 DEF Session!Stop
  <1>a22. ASSUME NEW p \in Processes, Session!Renew(p) PROVE Session!SettledTogether'
    BY <1>1, <1>a22 DEF Session!Renew
  <1>a23. ASSUME NEW m \in wire, Session!Take(m) PROVE Session!SettledTogether'
    BY <1>1, <1>a23 DEF Session!Take, Session!After, Session!Response
  <1>a24. ASSUME NEW q \in Questions, Session!Tick(q) PROVE Session!SettledTogether'
    BY <1>1, <1>a24 DEF Session!Tick
  <1>a25. ASSUME NEW q \in Questions, Session!Expire(q) PROVE Session!SettledTogether'
    BY <1>1, <1>a25 DEF Session!Expire
  <1>a26. ASSUME Session!EndBinding PROVE Session!SettledTogether'
    BY <1>1, <1>a26 DEF Session!EndBinding
  <1> QED
    BY <1>a1, <1>a2, <1>a3, <1>a4, <1>a5, <1>a6, <1>a7, <1>a8, <1>a9, <1>a10, <1>a11, <1>a12, <1>a13, <1>a14,
       <1>a15, <1>a16, <1>a17, <1>a18, <1>a19, <1>a20, <1>a21, <1>a22, <1>a23, <1>a24, <1>a25, <1>a26
       DEF Session!Next, Session!Step, Session!Fault

LEMMA BridgesKept ==
    ASSUME Bridges, UNCHANGED <<mode, asked, turns>>,
           mode = "bridge" => \A q \in Questions : offer'[q] = None,
           \A r \in Processes : step'[r] = "accepting" /\ heard'[r] = "fresh" =>
               step[r] = "accepting" /\ heard[r] = "fresh" /\ cur'[r] = cur[r]
    PROVE  Bridges'
  <1> USE DEF Bridges, FirstAt
  <1>1. \A r \in Processes, q \in Questions : FirstAt(r, q)' => FirstAt(r, q)
    OBVIOUS
  <1> HIDE DEF FirstAt
  <1> QED
    BY <1>1

LEMMA BridgesStep == ASSUME Session!InboxAssumption, InboxInv, Session!Next PROVE Bridges' /\ Modes'
  <1>1. Outside /\ Vault /\ Inside /\ Words /\ Requests /\ Bridges /\ Modes
    BY ShapesAre DEF InboxInv
  <1>2. \A p \in Processes : (Session!Reconcile(p) => Reconciled(p)) /\ (Session!Stage(p) => StagedBy(p)) /\ (Session!Replied(p) => RepliedBy(p))
    BY ReconcileIs, StageIs, RepliedIs DEF InboxInv, InboxShapes, Session!TypeOK, Vault, Inside
  <1> USE DEF Session!InboxAssumption, Session!rows, Session!held, Session!remote, Session!locals,
      Session!Self, Session!GoTo, Words, Requests, Bridges, Modes, FirstAt, Session!Waiting, Vault, Inside,
      Outside
  <1>a1. ASSUME NEW p \in Processes, Session!OpenSession(p) PROVE Bridges' /\ Modes'
    BY <1>1, <1>a1 DEF Session!OpenSession
  <1>a2. ASSUME NEW p \in Processes, Session!Connect(p) PROVE Bridges' /\ Modes'
    BY <1>1, <1>a2 DEF Session!Connect
  <1>a3. ASSUME NEW p \in Processes, Session!Close(p) PROVE Bridges' /\ Modes'
    BY <1>1, <1>a3 DEF Session!Close
  <1>a4. ASSUME NEW p \in Processes, Session!Begin(p) PROVE Bridges' /\ Modes'
    BY <1>1, <1>a4 DEF Session!Begin, Session!Pending
  <1>a5. ASSUME NEW p \in Processes, Session!Reconcile(p) PROVE Bridges' /\ Modes'
    <2> HIDE DEF Words, Requests, Bridges, Modes, FirstAt, Session!Waiting, Vault, Inside, Outside
    <2>2. Reconciled(p)
      BY <1>2, <1>a5
    <2>3. UNCHANGED <<mode, asked, turns>>
      BY <1>a5 DEF Session!Reconcile
    <2>4. mode = "bridge" => \A q \in Questions : offer'[q] = None
      BY <1>1, <2>2 DEF Bridges, Reconciled, OnlyOf, OnlyAt, Acked, SetApart
    <2>5. \A r \in Processes : step'[r] = "accepting" /\ heard'[r] = "fresh" =>
              step[r] = "accepting" /\ heard[r] = "fresh" /\ cur'[r] = cur[r]
      BY <1>1, <1>a5, <2>2 DEF Reconciled, OnlyOf, OnlyAt, Acked, SetApart, Inside, Session!Reconcile
    <2>6. Modes'
      BY <1>1, <2>2, <2>3 DEF Modes, Inside, Reconciled, OnlyOf, OnlyAt, Acked, SetApart
    <2> HIDE DEF Modes
    <2> QED
      BY <1>1, <2>3, <2>4, <2>5, <2>6, BridgesKept
  <1>a6. ASSUME NEW p \in Processes, Session!Resent(p) PROVE Bridges' /\ Modes'
    BY <1>1, <1>a6 DEF Session!Resent, Session!Hear
  <1>a7. ASSUME NEW p \in Processes, Session!Inbox(p) PROVE Bridges' /\ Modes'
    <2> HIDE DEF Words, Requests, Bridges, Modes, FirstAt, Session!Waiting, Vault, Inside, Outside
    <2>3. UNCHANGED <<mode, asked, turns>>
      BY <1>a7 DEF Session!Inbox
    <2>4. mode = "bridge" => \A q \in Questions : offer'[q] = None
      BY <1>1, <1>a7 DEF Bridges, Session!Inbox
    <2>5. \A r \in Processes : step'[r] = "accepting" /\ heard'[r] = "fresh" =>
              step[r] = "accepting" /\ heard[r] = "fresh" /\ cur'[r] = cur[r]
      BY <1>1, <1>a7 DEF Session!Inbox, Inside
    <2>6. Modes'
      BY <1>1, <1>a7 DEF Modes, Inside, Session!Inbox, Outside
    <2> HIDE DEF Modes
    <2> QED
      BY <1>1, <2>3, <2>4, <2>5, <2>6, BridgesKept
  <1>a8. ASSUME NEW p \in Processes, Session!Checkpoint(p) PROVE Bridges' /\ Modes'
    BY <1>1, <1>a8 DEF Session!Checkpoint
  <1>a9. ASSUME NEW p \in Processes, Session!Accept(p) PROVE Bridges' /\ Modes'
    <2> HIDE DEF Words, Requests, Bridges, Modes, FirstAt, Session!Waiting, Vault, Inside, Outside
    <2>3. UNCHANGED <<mode, asked, turns>>
      BY <1>a9 DEF Session!Accept
    <2>4. mode = "bridge" => \A q \in Questions : offer'[q] = None
      BY <1>1, <1>a9 DEF Bridges, Session!Accept, Session!Send
    <2>5. \A r \in Processes : step'[r] = "accepting" /\ heard'[r] = "fresh" =>
              step[r] = "accepting" /\ heard[r] = "fresh" /\ cur'[r] = cur[r]
      BY <1>1, <1>a9 DEF Session!Accept, Session!Send, Inside
    <2>6. Modes'
      BY <1>1, <1>a9 DEF Modes, Inside, Session!Accept, Session!Send
    <2> HIDE DEF Modes
    <2> QED
      BY <1>1, <2>3, <2>4, <2>5, <2>6, BridgesKept
  <1>a10. ASSUME NEW p \in Processes, Session!Accepted(p) PROVE Bridges' /\ Modes'
    <2> HIDE DEF Words, Requests, Bridges, Modes, FirstAt, Session!Waiting, Vault, Inside, Outside
    <2>1. /\ UNCHANGED <<mode, asked, offer, cur, heard>> /\ Modes'
          /\ \A r, q : FirstAt(r, q)' /\ r \in Processes => FirstAt(r, q) /\ r # p
      BY <1>1, <1>a10 DEF Session!Accepted, Inside, FirstAt, Modes
    <2>2. \/ turns' = turns
          \/ /\ cur[p] \in Questions /\ turns' = [turns EXCEPT ![cur[p]] = @ + 1]
             /\ mode = "bridge" => FirstAt(p, cur[p])
      BY <1>1, <1>a10 DEF Session!Accepted, Session!First, FirstAt, Words
    <2> HIDE DEF FirstAt
    <2>3. CASE turns' = turns
      BY <1>1, <2>1, <2>3 DEF Bridges
    <2>4. CASE turns' # turns
      <3>1. \A q \in Questions : q # cur[p] => turns'[q] = turns[q]
        BY <1>1, <2>2, <2>4 DEF Vault
      <3>2. mode = "bridge" => asked[cur[p]].state # "queued" /\ \A r \in Processes : FirstAt(r, cur[p]) => r = p
        BY <1>1, <2>2, <2>4 DEF Bridges
      <3> QED
        BY <1>1, <2>1, <3>1, <3>2 DEF Bridges
    <2> QED
      BY <2>3, <2>4
  <1>a11. ASSUME NEW p \in Processes, Session!Submit(p) PROVE Bridges' /\ Modes'
    <2> HIDE DEF Words, Requests, Bridges, Modes, FirstAt, Session!Waiting, Vault, Inside, Outside
    <2>3. UNCHANGED <<mode, asked, turns>>
      BY <1>a11 DEF Session!Submit
    <2>4. mode = "bridge" => \A q \in Questions : offer'[q] = None
      BY <1>1, <1>a11 DEF Bridges, Session!Submit
    <2>5. \A r \in Processes : step'[r] = "accepting" /\ heard'[r] = "fresh" =>
              step[r] = "accepting" /\ heard[r] = "fresh" /\ cur'[r] = cur[r]
      BY <1>1, <1>a11 DEF Session!Submit, Inside
    <2>6. Modes'
      BY <1>1, <1>a11 DEF Modes, Inside, Session!Submit
    <2> HIDE DEF Modes
    <2> QED
      BY <1>1, <2>3, <2>4, <2>5, <2>6, BridgesKept
  <1>a12. ASSUME NEW p \in Processes, Session!Turn(p) PROVE Bridges' /\ Modes'
    <2> HIDE DEF Words, Requests, Bridges, Modes, FirstAt, Session!Waiting, Vault, Inside, Outside
    <2>3. UNCHANGED <<mode, asked, turns>>
      BY <1>a12 DEF Session!Turn
    <2>4. mode = "bridge" => \A q \in Questions : offer'[q] = None
      BY <1>1, <1>a12 DEF Bridges, Session!Turn
    <2>5. \A r \in Processes : step'[r] = "accepting" /\ heard'[r] = "fresh" =>
              step[r] = "accepting" /\ heard[r] = "fresh" /\ cur'[r] = cur[r]
      BY <1>1, <1>a12 DEF Session!Turn, Inside
    <2>6. Modes'
      BY <1>1, <1>a12 DEF Modes, Inside, Session!Turn
    <2> HIDE DEF Modes
    <2> QED
      BY <1>1, <2>3, <2>4, <2>5, <2>6, BridgesKept
  <1>a13. ASSUME NEW p \in Processes, Session!Stage(p) PROVE Bridges' /\ Modes'
    <2> HIDE DEF Words, Requests, Bridges, Modes, FirstAt, Session!Waiting, Vault, Inside, Outside
    <2>2. StagedBy(p)
      BY <1>2, <1>a13
    <2>3. UNCHANGED <<mode, asked, turns>>
      BY <1>a13 DEF Session!Stage
    <2>4. mode = "bridge" => \A q \in Questions : offer'[q] = None
      BY <1>1, <2>2 DEF Bridges, StagedBy, OnlyOf, OnlyAt, Staged
    <2>5. \A r \in Processes : step'[r] = "accepting" /\ heard'[r] = "fresh" =>
              step[r] = "accepting" /\ heard[r] = "fresh" /\ cur'[r] = cur[r]
      BY <1>1, <1>a13, <2>2 DEF StagedBy, OnlyOf, OnlyAt, Staged, Inside, Session!Stage
    <2>6. Modes'
      BY <1>1, <2>2, <2>3 DEF Modes, Inside, StagedBy, OnlyOf, OnlyAt, Staged
    <2> HIDE DEF Modes
    <2> QED
      BY <1>1, <2>3, <2>4, <2>5, <2>6, BridgesKept
  <1>a14. ASSUME NEW p \in Processes, Session!Reply(p) PROVE Bridges' /\ Modes'
    <2> HIDE DEF Words, Requests, Bridges, Modes, FirstAt, Session!Waiting, Vault, Inside, Outside
    <2>3. UNCHANGED <<mode, asked, turns>>
      BY <1>a14 DEF Session!Reply
    <2>4. mode = "bridge" => \A q \in Questions : offer'[q] = None
      BY <1>1, <1>a14 DEF Bridges, Session!Reply, Session!Send
    <2>5. \A r \in Processes : step'[r] = "accepting" /\ heard'[r] = "fresh" =>
              step[r] = "accepting" /\ heard[r] = "fresh" /\ cur'[r] = cur[r]
      BY <1>1, <1>a14 DEF Session!Reply, Session!Send, Inside
    <2>6. Modes'
      BY <1>1, <1>a14 DEF Modes, Inside, Session!Reply, Session!Send
    <2> HIDE DEF Modes
    <2> QED
      BY <1>1, <2>3, <2>4, <2>5, <2>6, BridgesKept
  <1>a15. ASSUME NEW p \in Processes, Session!Replied(p) PROVE Bridges' /\ Modes'
    <2> HIDE DEF Words, Requests, Bridges, Modes, FirstAt, Session!Waiting, Vault, Inside, Outside
    <2>2. RepliedBy(p)
      BY <1>2, <1>a15
    <2>3. UNCHANGED <<mode, asked, turns>>
      BY <1>a15 DEF Session!Replied
    <2>4. mode = "bridge" => \A q \in Questions : offer'[q] = None
      BY <1>1, <2>2 DEF Bridges, RepliedBy, OnlyOf, OnlyAt, Acked
    <2>5. \A r \in Processes : step'[r] = "accepting" /\ heard'[r] = "fresh" =>
              step[r] = "accepting" /\ heard[r] = "fresh" /\ cur'[r] = cur[r]
      BY <1>1, <1>a15, <2>2 DEF RepliedBy, OnlyOf, OnlyAt, Acked, Inside, Session!Replied
    <2>6. Modes'
      BY <1>1, <2>2, <2>3 DEF Modes, Inside, RepliedBy, OnlyOf, OnlyAt, Acked
    <2> HIDE DEF Modes
    <2> QED
      BY <1>1, <2>3, <2>4, <2>5, <2>6, BridgesKept
  <1>a16. ASSUME NEW p \in Processes, Session!Failed(p) PROVE Bridges' /\ Modes'
    BY <1>1, <1>a16 DEF Session!Failed
  <1>a17. ASSUME NEW p \in Processes, Session!Retire(p) PROVE Bridges' /\ Modes'
    BY <1>1, <1>a17 DEF Session!Retire
  <1>a18. ASSUME NEW p \in Processes, Session!Lose(p) PROVE Bridges' /\ Modes'
    BY <1>1, <1>a18 DEF Session!Lose
  <1>a19. ASSUME NEW p \in Processes, Session!Crash(p) PROVE Bridges' /\ Modes'
    BY <1>1, <1>a19 DEF Session!Crash, Session!Forgotten
  <1>a20. ASSUME NEW p \in Processes, Session!Fail(p) PROVE Bridges' /\ Modes'
    BY <1>1, <1>a20 DEF Session!Fail
  <1>a21. ASSUME NEW p \in Processes, Session!Stop(p) PROVE Bridges' /\ Modes'
    BY <1>1, <1>a21 DEF Session!Stop
  <1>a22. ASSUME NEW p \in Processes, Session!Renew(p) PROVE Bridges' /\ Modes'
    BY <1>1, <1>a22 DEF Session!Renew
  <1>a23. ASSUME NEW m \in wire, Session!Take(m) PROVE Bridges' /\ Modes'
    BY <1>1, <1>a23 DEF Session!Take, Session!After, Session!Response
  <1>a24. ASSUME NEW q \in Questions, Session!Tick(q) PROVE Bridges' /\ Modes'
    BY <1>1, <1>a24 DEF Session!Tick
  <1>a25. ASSUME NEW q \in Questions, Session!Expire(q) PROVE Bridges' /\ Modes'
    BY <1>1, <1>a25 DEF Session!Expire
  <1>a26. ASSUME Session!EndBinding PROVE Bridges' /\ Modes'
    BY <1>1, <1>a26 DEF Session!EndBinding
  <1> QED
    BY <1>a1, <1>a2, <1>a3, <1>a4, <1>a5, <1>a6, <1>a7, <1>a8, <1>a9, <1>a10, <1>a11, <1>a12, <1>a13, <1>a14,
       <1>a15, <1>a16, <1>a17, <1>a18, <1>a19, <1>a20, <1>a21, <1>a22, <1>a23, <1>a24, <1>a25, <1>a26
       DEF Session!Next, Session!Step, Session!Fault

LEMMA CooperatesStep == ASSUME Session!InboxAssumption, InboxInv, Session!Next PROVE Cooperates'
  <1>1. Outside /\ Vault /\ Inside /\ Words /\ Cooperates /\ Modes /\ Session!SettledTogether
        /\ Session!AcksAreTrue /\ Answers
    BY ShapesAre DEF InboxInv
  <1>2. \A p \in Processes : (Session!Reconcile(p) => Reconciled(p)) /\ (Session!Stage(p) => StagedBy(p)) /\ (Session!Replied(p) => RepliedBy(p))
    BY ReconcileIs, StageIs, RepliedIs DEF InboxInv, InboxShapes, Session!TypeOK, Vault, Inside
  <1> USE DEF Session!InboxAssumption, Session!rows, Session!held, Session!remote, Session!locals,
      Session!Self, Session!GoTo, Words, Cooperates, Modes, Session!SettledTogether, Session!AcksAreTrue,
      Answers, Session!Delivered, Session!Open, Vault, Inside, Outside
  <1>a1. ASSUME NEW p \in Processes, Session!OpenSession(p) PROVE Cooperates'
    BY <1>1, <1>a1 DEF Session!OpenSession, Session!MayTake, Session!Dead
  <1>a2. ASSUME NEW p \in Processes, Session!Connect(p) PROVE Cooperates'
    BY <1>1, <1>a2 DEF Session!Connect
  <1>a3. ASSUME NEW p \in Processes, Session!Close(p) PROVE Cooperates'
    BY <1>1, <1>a3 DEF Session!Close
  <1>a4. ASSUME NEW p \in Processes, Session!Begin(p) PROVE Cooperates'
    BY <1>1, <1>a4 DEF Session!Begin, Session!Pending
  <1>a5. ASSUME NEW p \in Processes, Session!Reconcile(p) PROVE Cooperates'
    <2> HIDE DEF Words, Cooperates, Modes, Session!SettledTogether, Session!AcksAreTrue, Answers, Session!Delivered, Session!Open, Vault, Inside, Outside
    <2>1. UNCHANGED <<mode, asked, past, Session!held, handoff, life, cur, text, taken, turns, trouble>>
      BY <1>a5 DEF Session!Reconcile
    <2>2. Reconciled(p)
      BY <1>2, <1>a5
    <2>3. \A q \in Questions : reply[q].text # None => reply'[q].text = reply[q].text
      BY <2>2 DEF Reconciled, OnlyAt, Acked, SetApart
    <2> SUFFICES ASSUME mode = "cooperative" PROVE Cooperates'
      BY <2>1 DEF Cooperates
    <2>4. step[p] # "out"
          /\ step'[p] \notin {"out", "inbox", "offer", "accept", "accepting", "turn", "handed", "stage"}
      BY <2>2 DEF Reconciled
    <2>5. \A r \in Processes : r # p => step[r] = "out" /\ step'[r] = "out"
      BY <1>1, <2>2, <2>4 DEF Cooperates, Reconciled, OnlyOf
    <2>6. ASSUME NEW q \in Questions, turns[q] > 0 \/ reply'[q].text # None PROVE offer'[q] # None
      <3>1. offer[q] # None
        BY <1>1, <2>2, <2>6 DEF Cooperates, Reconciled, Acked, SetApart, OnlyAt
      <3> QED
        BY <2>2, <3>1 DEF Reconciled, Acked, SetApart, OnlyAt
    <2> QED
      BY <1>1, <2>1, <2>4, <2>5, <2>6 DEF Cooperates
  <1>a6. ASSUME NEW p \in Processes, Session!Resent(p) PROVE Cooperates'
    BY <1>1, <1>a6 DEF Session!Resent, Session!Hear
  <1>a7. ASSUME NEW p \in Processes, Session!Inbox(p) PROVE Cooperates'
    BY <1>1, <1>a7 DEF Session!Inbox
  <1>a8. ASSUME NEW p \in Processes, Session!Checkpoint(p) PROVE Cooperates'
    BY <1>1, <1>a8 DEF Session!Checkpoint
  <1>a9. ASSUME NEW p \in Processes, Session!Accept(p) PROVE Cooperates'
    BY <1>1, <1>a9 DEF Session!Accept, Session!Send
  <1>a10. ASSUME NEW p \in Processes, Session!Accepted(p) PROVE Cooperates'
    BY <1>1, <1>a10 DEF Session!Accepted, Session!First
  <1>a11. ASSUME NEW p \in Processes, Session!Submit(p) PROVE Cooperates'
    BY <1>1, <1>a11 DEF Session!Submit
  <1>a12. ASSUME NEW p \in Processes, Session!Turn(p) PROVE Cooperates'
    BY <1>1, <1>a12 DEF Session!Turn
  <1>a13. ASSUME NEW p \in Processes, Session!Stage(p) PROVE Cooperates'
    <2> HIDE DEF Words, Cooperates, Modes, Session!SettledTogether, Session!AcksAreTrue, Answers, Session!Delivered, Session!Open, Vault, Inside, Outside
    <2>1. UNCHANGED <<mode, asked, past, wire, Session!held, handoff, life, Session!locals, turns, trouble>>
      BY <1>a13 DEF Session!Stage
    <2>2. StagedBy(p)
      BY <1>2, <1>a13
    <2>3. \A q \in Questions : reply[q].text # None => reply'[q].text = reply[q].text
      BY <2>2 DEF StagedBy, OnlyAt, Staged
    <2> SUFFICES ASSUME mode = "cooperative" PROVE Cooperates'
      BY <2>1 DEF Cooperates
    <2>4. step[p] # "out"
          /\ step'[p] \notin {"out", "inbox", "offer", "accept", "accepting", "turn", "handed", "stage"}
      BY <2>2 DEF StagedBy
    <2>5. \A r \in Processes : r # p => step[r] = "out" /\ step'[r] = "out"
      BY <1>1, <2>2, <2>4 DEF Cooperates, StagedBy, OnlyOf
    <2>6. ASSUME NEW q \in Questions, turns[q] > 0 \/ reply'[q].text # None PROVE offer'[q] # None
      <3>1. offer[q] # None
        BY <1>1, <2>2, <2>6 DEF Cooperates, StagedBy, Staged, OnlyAt
      <3> QED
        BY <2>2, <3>1 DEF StagedBy, Staged, OnlyAt
    <2> QED
      BY <1>1, <2>1, <2>4, <2>5, <2>6 DEF Cooperates
  <1>a14. ASSUME NEW p \in Processes, Session!Reply(p) PROVE Cooperates'
    BY <1>1, <1>a14 DEF Session!Reply, Session!Send
  <1>a15. ASSUME NEW p \in Processes, Session!Replied(p) PROVE Cooperates'
    <2> HIDE DEF Words, Cooperates, Modes, Session!SettledTogether, Session!AcksAreTrue, Answers, Session!Delivered, Session!Open, Vault, Inside, Outside
    <2>1. UNCHANGED <<mode, asked, past, wire, Session!held, handoff, life, Session!locals, turns, trouble>>
      BY <1>a15 DEF Session!Replied
    <2>2. RepliedBy(p)
      BY <1>2, <1>a15
    <2>3. \A q \in Questions : reply[q].text # None => reply'[q].text = reply[q].text
      BY <2>2 DEF RepliedBy, OnlyAt, Acked
    <2> SUFFICES ASSUME mode = "cooperative" PROVE Cooperates'
      BY <2>1 DEF Cooperates
    <2>4. step[p] # "out"
          /\ step'[p] \notin {"out", "inbox", "offer", "accept", "accepting", "turn", "handed", "stage"}
      BY <2>2 DEF RepliedBy
    <2>5. \A r \in Processes : r # p => step[r] = "out" /\ step'[r] = "out"
      BY <1>1, <2>2, <2>4 DEF Cooperates, RepliedBy, OnlyOf
    <2>6. ASSUME NEW q \in Questions, turns[q] > 0 \/ reply'[q].text # None PROVE offer'[q] # None
      <3>1. offer[q] # None
        BY <1>1, <2>2, <2>6 DEF Cooperates, RepliedBy, Acked, OnlyAt
      <3> QED
        BY <2>2, <3>1 DEF RepliedBy, Acked, OnlyAt
    <2> QED
      BY <1>1, <2>1, <2>4, <2>5, <2>6 DEF Cooperates
  <1>a16. ASSUME NEW p \in Processes, Session!Failed(p) PROVE Cooperates'
    BY <1>1, <1>a16 DEF Session!Failed
  <1>a17. ASSUME NEW p \in Processes, Session!Retire(p) PROVE Cooperates'
    BY <1>1, <1>a17 DEF Session!Retire
  <1>a18. ASSUME NEW p \in Processes, Session!Lose(p) PROVE Cooperates'
    BY <1>1, <1>a18 DEF Session!Lose, Session!Waiting
  <1>a19. ASSUME NEW p \in Processes, Session!Crash(p) PROVE Cooperates'
    BY <1>1, <1>a19 DEF Session!Crash, Session!Forgotten
  <1>a20. ASSUME NEW p \in Processes, Session!Fail(p) PROVE Cooperates'
    BY <1>1, <1>a20 DEF Session!Fail
  <1>a21. ASSUME NEW p \in Processes, Session!Stop(p) PROVE Cooperates'
    BY <1>1, <1>a21 DEF Session!Stop
  <1>a22. ASSUME NEW p \in Processes, Session!Renew(p) PROVE Cooperates'
    BY <1>1, <1>a22 DEF Session!Renew
  <1>a23. ASSUME NEW m \in wire, Session!Take(m) PROVE Cooperates'
    BY <1>1, <1>a23 DEF Session!Take, Session!After, Session!Response
  <1>a24. ASSUME NEW q \in Questions, Session!Tick(q) PROVE Cooperates'
    BY <1>1, <1>a24 DEF Session!Tick
  <1>a25. ASSUME NEW q \in Questions, Session!Expire(q) PROVE Cooperates'
    BY <1>1, <1>a25 DEF Session!Expire
  <1>a26. ASSUME Session!EndBinding PROVE Cooperates'
    BY <1>1, <1>a26 DEF Session!EndBinding
  <1> QED
    BY <1>a1, <1>a2, <1>a3, <1>a4, <1>a5, <1>a6, <1>a7, <1>a8, <1>a9, <1>a10, <1>a11, <1>a12, <1>a13, <1>a14,
       <1>a15, <1>a16, <1>a17, <1>a18, <1>a19, <1>a20, <1>a21, <1>a22, <1>a23, <1>a24, <1>a25, <1>a26
       DEF Session!Next, Session!Step, Session!Fault

LEMMA OneStep == ASSUME Session!InboxAssumption, InboxInv, Session!Next PROVE Session!AskedOnce' /\ Session!OneOwner'
  <1>1. Outside /\ Vault /\ Inside /\ Words /\ Bridges /\ Cooperates /\ Session!AskedOnce /\ Session!OneOwner
    BY ShapesAre DEF InboxInv
  <1>2. \A p \in Processes : (Session!Reconcile(p) => Reconciled(p)) /\ (Session!Stage(p) => StagedBy(p)) /\ (Session!Replied(p) => RepliedBy(p))
    BY ReconcileIs, StageIs, RepliedIs DEF InboxInv, InboxShapes, Session!TypeOK, Vault, Inside
  <1> USE DEF Session!InboxAssumption, Session!rows, Session!held, Session!remote, Session!locals,
      Session!Self, Session!GoTo, Words, Bridges, Cooperates, FirstAt, Session!AskedOnce, Session!OneOwner,
      Session!Owns, Vault, Inside, Outside
  <1>a1. ASSUME NEW p \in Processes, Session!OpenSession(p) PROVE Session!AskedOnce' /\ Session!OneOwner'
    BY <1>1, <1>a1 DEF Session!OpenSession, Session!MayTake, Session!Dead
  <1>a2. ASSUME NEW p \in Processes, Session!Connect(p) PROVE Session!AskedOnce' /\ Session!OneOwner'
    BY <1>1, <1>a2 DEF Session!Connect
  <1>a3. ASSUME NEW p \in Processes, Session!Close(p) PROVE Session!AskedOnce' /\ Session!OneOwner'
    BY <1>1, <1>a3 DEF Session!Close
  <1>a4. ASSUME NEW p \in Processes, Session!Begin(p) PROVE Session!AskedOnce' /\ Session!OneOwner'
    BY <1>1, <1>a4 DEF Session!Begin, Session!Pending
  <1>a5. ASSUME NEW p \in Processes, Session!Reconcile(p) PROVE Session!AskedOnce' /\ Session!OneOwner'
    <2> HIDE DEF Words, Bridges, Cooperates, FirstAt, Session!AskedOnce, Session!OneOwner, Session!Owns, Vault, Inside, Outside
    <2>1. UNCHANGED <<mode, asked, past, Session!held, handoff, life, cur, text, taken, turns, trouble>>
      BY <1>a5 DEF Session!Reconcile
    <2>2. Reconciled(p)
      BY <1>2, <1>a5
    <2> QED
      BY <1>1, <2>1, <2>2 DEF Reconciled, OnlyOf, Session!AskedOnce, Session!OneOwner
  <1>a6. ASSUME NEW p \in Processes, Session!Resent(p) PROVE Session!AskedOnce' /\ Session!OneOwner'
    BY <1>1, <1>a6 DEF Session!Resent, Session!Hear
  <1>a7. ASSUME NEW p \in Processes, Session!Inbox(p) PROVE Session!AskedOnce' /\ Session!OneOwner'
    BY <1>1, <1>a7 DEF Session!Inbox
  <1>a8. ASSUME NEW p \in Processes, Session!Checkpoint(p) PROVE Session!AskedOnce' /\ Session!OneOwner'
    BY <1>1, <1>a8 DEF Session!Checkpoint
  <1>a9. ASSUME NEW p \in Processes, Session!Accept(p) PROVE Session!AskedOnce' /\ Session!OneOwner'
    BY <1>1, <1>a9 DEF Session!Accept, Session!Send
  <1>a10. ASSUME NEW p \in Processes, Session!Accepted(p) PROVE Session!AskedOnce' /\ Session!OneOwner'
    <2> HIDE DEF Words, Bridges, Cooperates, FirstAt, Session!AskedOnce, Session!OneOwner, Session!Owns, Vault, Inside, Outside
    <2>1. \/ turns' = turns
          \/ cur[p] \in Questions /\ turns' = [turns EXCEPT ![cur[p]] = @ + 1] /\ Session!First(p) /\ step[p] = "accepting"
      BY <1>1, <1>a10 DEF Session!Accepted, Words
    <2>2. Session!First(p) /\ step[p] = "accepting" /\ cur[p] \in Questions => turns[cur[p]] = 0
      BY <1>1 DEF Session!First, Bridges, Cooperates, FirstAt, Outside
    <2>3. Session!AskedOnce'
      BY <1>1, <2>1, <2>2 DEF Session!AskedOnce, Vault
    <2>4. Session!OneOwner'
      BY <1>1, <1>a10 DEF Session!Accepted, Session!OneOwner, Session!Owns, Inside
    <2> QED
      BY <2>3, <2>4
  <1>a11. ASSUME NEW p \in Processes, Session!Submit(p) PROVE Session!AskedOnce' /\ Session!OneOwner'
    BY <1>1, <1>a11 DEF Session!Submit
  <1>a12. ASSUME NEW p \in Processes, Session!Turn(p) PROVE Session!AskedOnce' /\ Session!OneOwner'
    BY <1>1, <1>a12 DEF Session!Turn
  <1>a13. ASSUME NEW p \in Processes, Session!Stage(p) PROVE Session!AskedOnce' /\ Session!OneOwner'
    <2> HIDE DEF Words, Bridges, Cooperates, FirstAt, Session!AskedOnce, Session!OneOwner, Session!Owns, Vault, Inside, Outside
    <2>1. UNCHANGED <<mode, asked, past, wire, Session!held, handoff, life, Session!locals, turns, trouble>>
      BY <1>a13 DEF Session!Stage
    <2>2. StagedBy(p)
      BY <1>2, <1>a13
    <2> QED
      BY <1>1, <2>1, <2>2 DEF StagedBy, OnlyOf, Session!AskedOnce, Session!OneOwner
  <1>a14. ASSUME NEW p \in Processes, Session!Reply(p) PROVE Session!AskedOnce' /\ Session!OneOwner'
    BY <1>1, <1>a14 DEF Session!Reply, Session!Send
  <1>a15. ASSUME NEW p \in Processes, Session!Replied(p) PROVE Session!AskedOnce' /\ Session!OneOwner'
    <2> HIDE DEF Words, Bridges, Cooperates, FirstAt, Session!AskedOnce, Session!OneOwner, Session!Owns, Vault, Inside, Outside
    <2>1. UNCHANGED <<mode, asked, past, wire, Session!held, handoff, life, Session!locals, turns, trouble>>
      BY <1>a15 DEF Session!Replied
    <2>2. RepliedBy(p)
      BY <1>2, <1>a15
    <2> QED
      BY <1>1, <2>1, <2>2 DEF RepliedBy, OnlyOf, Session!AskedOnce, Session!OneOwner
  <1>a16. ASSUME NEW p \in Processes, Session!Failed(p) PROVE Session!AskedOnce' /\ Session!OneOwner'
    BY <1>1, <1>a16 DEF Session!Failed
  <1>a17. ASSUME NEW p \in Processes, Session!Retire(p) PROVE Session!AskedOnce' /\ Session!OneOwner'
    BY <1>1, <1>a17 DEF Session!Retire
  <1>a18. ASSUME NEW p \in Processes, Session!Lose(p) PROVE Session!AskedOnce' /\ Session!OneOwner'
    BY <1>1, <1>a18 DEF Session!Lose
  <1>a19. ASSUME NEW p \in Processes, Session!Crash(p) PROVE Session!AskedOnce' /\ Session!OneOwner'
    BY <1>1, <1>a19 DEF Session!Crash, Session!Forgotten
  <1>a20. ASSUME NEW p \in Processes, Session!Fail(p) PROVE Session!AskedOnce' /\ Session!OneOwner'
    BY <1>1, <1>a20 DEF Session!Fail
  <1>a21. ASSUME NEW p \in Processes, Session!Stop(p) PROVE Session!AskedOnce' /\ Session!OneOwner'
    BY <1>1, <1>a21 DEF Session!Stop
  <1>a22. ASSUME NEW p \in Processes, Session!Renew(p) PROVE Session!AskedOnce' /\ Session!OneOwner'
    BY <1>1, <1>a22 DEF Session!Renew
  <1>a23. ASSUME NEW m \in wire, Session!Take(m) PROVE Session!AskedOnce' /\ Session!OneOwner'
    BY <1>1, <1>a23 DEF Session!Take, Session!After, Session!Response
  <1>a24. ASSUME NEW q \in Questions, Session!Tick(q) PROVE Session!AskedOnce' /\ Session!OneOwner'
    BY <1>1, <1>a24 DEF Session!Tick
  <1>a25. ASSUME NEW q \in Questions, Session!Expire(q) PROVE Session!AskedOnce' /\ Session!OneOwner'
    BY <1>1, <1>a25 DEF Session!Expire
  <1>a26. ASSUME Session!EndBinding PROVE Session!AskedOnce' /\ Session!OneOwner'
    BY <1>1, <1>a26 DEF Session!EndBinding
  <1> QED
    BY <1>a1, <1>a2, <1>a3, <1>a4, <1>a5, <1>a6, <1>a7, <1>a8, <1>a9, <1>a10, <1>a11, <1>a12, <1>a13, <1>a14,
       <1>a15, <1>a16, <1>a17, <1>a18, <1>a19, <1>a20, <1>a21, <1>a22, <1>a23, <1>a24, <1>a25, <1>a26
       DEF Session!Next, Session!Step, Session!Fault

-----------------------------------------------------------------------------
LEMMA InboxSteps == ASSUME Session!InboxAssumption, InboxInv, Session!Next PROVE InboxInv'
  BY InboxTypes, WordsStep, RequestsStep, AnswersStep, HeardStep, RepliesStep, SettledStep, BridgesStep,
     CooperatesStep, OneStep DEF InboxInv

\* The invariant of the inbox, for every number of processes, questions and faults.
THEOREM InboxHolds == ASSUME Session!InboxAssumption PROVE Session!Spec => []InboxInv
  <1>1. Session!Init => InboxInv
    BY InboxBegins
  <1>2. InboxInv /\ [Session!Next]_(Session!vars) => InboxInv'
    <2> SUFFICES ASSUME InboxInv, [Session!Next]_(Session!vars) PROVE InboxInv'
      OBVIOUS
    <2>1. CASE Session!Next
      BY <2>1, InboxSteps
    <2>2. CASE UNCHANGED Session!vars
      BY <2>2 DEF Session!vars, Session!rows, Session!held, Session!remote, Session!locals, InboxInv,
         InboxShapes, Session!TypeOK, Words, Requests, Session!Waiting, Answers, Heard,
         Bridges, Cooperates, Modes, FirstAt, Session!Delivered, Session!Open, Session!Self, Session!AskedOnce,
         Session!AcksAreTrue, Session!AnswersAreKept, Session!Disposed,
         Session!SettledTogether, Session!OneOwner, Session!Selves
    <2> QED
      BY <2>1, <2>2
  <1> QED
    BY <1>1, <1>2, PTL DEF Session!Spec

\* One turn for a question, one answer to it, settled on both sides or neither, and one
\* owner of its session.
THEOREM InboxIsSafe == ASSUME Session!InboxAssumption PROVE Session!Spec => []Session!InboxSafe
  <1>1. InboxInv => Session!InboxSafe
    BY DEF InboxInv, Session!InboxSafe, InboxShapes
  <1> QED
    BY <1>1, InboxHolds, PTL

===============================================================================
