--------------------------- MODULE ActionExecution ---------------------------
(***************************************************************************)
(* How a task that needs an action decision is executed at most once:      *)
(* executeTask of packages/task-runner/src/index.ts with the execution     *)
(* journal, the claim, the replay guard and the receipt store, which are   *)
(* files that the relay and `dharma task run-one` share.                   *)
(*                                                                         *)
(* One task with one signed decision.  A runner is a process that is handed *)
(* the task, again whenever HQ has no outcome of it.  Every file operation *)
(* is a step; a transition of the journal reads the record and writes it   *)
(* back, without a lock.                                                   *)
(***************************************************************************)
EXTENDS Integers

CONSTANTS
    Runners,    \* processes that execute tasks
    Decisions,  \* what the decision may be: TRUE releases the action
    Guards,     \* whether the receiver may have a replay guard
    None,
    MaxFaults,  \* bound on crashes and failing steps
    MaxEffects  \* executions after which a runner executes no more

States == {"torn", "prepared", "started", "authorized", "executing", "observed", "recorded"}
Dispositions == {"executed", "unknown", "contained"}
Record == [state : States, receipt : Dispositions \cup {None}]
Claim == [by : Runners \cup {None}, whole : BOOLEAN, alive : BOOLEAN, expired : BOOLEAN]

ActionAssumption ==
    /\ Decisions \subseteq BOOLEAN
    /\ Guards \subseteq BOOLEAN
    /\ MaxFaults \in Nat
    /\ MaxEffects \in Nat \ {0}
    /\ None \notin Runners
    /\ None \notin Dispositions
    /\ None \notin Record
    /\ None \notin Claim

VARIABLES
    released,  \* the decision that came with the task
    guarded,   \* how the receiver was built
    record,    \* the journal's file
    claim,     \* the claim file
    consumed,  \* the replay guard's file
    stored,    \* the receipt store's file
    effects,   \* how often the action was executed
    returned,  \* dispositions that executeTask has returned
    pc, seen, answer,  \* of each runner: its step, the record it read, its receipt
    faults

setup == <<released, guarded>>
files == <<setup, record, claim, consumed, stored>>
vars == <<files, effects, returned, pc, seen, answer, faults>>

\* The journal's transitions, from which states, and to which.
Transitions == {"start", "authorize", "execute", "observe", "record"}
Allowed == [start |-> {"prepared"},
            authorize |-> {IF guarded THEN "started" ELSE "prepared"},
            execute |-> {"authorized"},
            observe |-> {"executing"},
            record |-> {"prepared", "started", "authorized", "executing", "observed"}]
Target == [start |-> "started", authorize |-> "authorized", execute |-> "executing",
           observe |-> "observed", record |-> "recorded"]
After == [start |-> "consume", authorize |-> "claim", execute |-> "run",
          observe |-> "record", record |-> "unclaim"]

Phases == Transitions \cup {"idle", "prepare", "write", "look", "consume", "claim", "mark",
                            "run", "unclaim", "put"}

Init ==
    /\ released \in Decisions
    /\ guarded \in Guards
    /\ record = None
    /\ claim = None
    /\ consumed = FALSE
    /\ stored = None
    /\ effects = 0
    /\ returned = {}
    /\ pc = [r \in Runners |-> "idle"]
    /\ seen = [r \in Runners |-> None]
    /\ answer = [r \in Runners |-> None]
    /\ faults = 0

-----------------------------------------------------------------------------
Put(f, r, v) == [f EXCEPT ![r] = v]
GoTo(r, p) == pc' = Put(pc, r, p)
Throws(r) == GoTo(r, "idle")
Answers(r, d, p) == answer' = Put(answer, r, d) /\ GoTo(r, p)

\* Mutant: a claim counts as long as its process id is in use.
AliveByPid(c) == c.alive

\* isClaimOwnerAlive.
OwnerAlive(c) == ~c.expired /\ c.alive

-----------------------------------------------------------------------------
(* A task that has a receipt is answered from the receipt store, which     *)
(* changes nothing.                                                        *)
Start(r) ==
    /\ pc[r] = "idle"
    /\ stored = None
    /\ GoTo(r, "prepare")
    /\ UNCHANGED <<files, effects, returned, seen, answer, faults>>

\* Mutant: a record that is there is made anew.
RecreatesRecord(r) ==
    /\ pc[r] = "prepare"
    /\ record' = [state |-> "torn", receipt |-> None]
    /\ GoTo(r, "write")
    /\ UNCHANGED <<setup, claim, consumed, stored, effects, returned, seen, answer, faults>>

\* prepare: create the record, or read the one that is there.
Prepare(r) ==
    /\ pc[r] = "prepare"
    /\ IF record = None
       THEN /\ record' = [state |-> "torn", receipt |-> None]
            /\ GoTo(r, "write")
            /\ UNCHANGED <<seen, answer>>
       ELSE /\ seen' = Put(seen, r, record)
            /\ IF record.state = "torn" THEN Throws(r) /\ UNCHANGED answer
               ELSE IF record.state = "recorded" THEN Answers(r, record.receipt, "put")
               ELSE GoTo(r, "look") /\ UNCHANGED answer
            /\ UNCHANGED record
    /\ UNCHANGED <<setup, claim, consumed, stored, effects, returned, faults>>

Write(r) ==
    /\ pc[r] = "write"
    /\ record' = [state |-> "prepared", receipt |-> None]
    /\ seen' = Put(seen, r, record')
    /\ GoTo(r, "look")
    /\ UNCHANGED <<setup, claim, consumed, stored, effects, returned, answer, faults>>

\* Mutant: every record of an earlier attempt counts as interrupted.
InterruptsPrepared(r) == seen[r].state # "authorized"

Interrupted(r) == seen[r].state \in {"started", "executing", "observed"}

\* Mutant: an interrupted attempt is answered as one that was not made.
LooksContained(r) ==
    /\ pc[r] = "look"
    /\ IF claim # None /\ claim.whole /\ OwnerAlive(claim) THEN Throws(r) /\ UNCHANGED answer
       ELSE IF claim # None \/ Interrupted(r) THEN Answers(r, "contained", "record")
       ELSE GoTo(r, IF seen[r].state = "authorized" THEN "claim" ELSE "authorize") /\ UNCHANGED answer
    /\ seen' = Put(seen, r, None)
    /\ UNCHANGED <<files, effects, returned, faults>>

\* What an earlier attempt has left decides how this one goes on.
Look(r) ==
    /\ pc[r] = "look"
    /\ IF claim # None
       THEN IF claim.whole /\ ~OwnerAlive(claim)
            THEN Answers(r, "unknown", "record")
            ELSE Throws(r) /\ UNCHANGED answer
       ELSE IF Interrupted(r) THEN Answers(r, "unknown", "record")
       ELSE IF ~released THEN Answers(r, "contained", "record")
       ELSE /\ GoTo(r, IF seen[r].state = "authorized" THEN "claim"
                       ELSE IF guarded THEN "start" ELSE "authorize")
            /\ UNCHANGED answer
    /\ seen' = Put(seen, r, None)
    /\ UNCHANGED <<files, effects, returned, faults>>

\* FileActionDecisionReplayGuard.consume.
Consume(r) ==
    /\ pc[r] = "consume"
    /\ IF consumed THEN Throws(r) ELSE GoTo(r, "authorize")
    /\ consumed' = TRUE
    /\ UNCHANGED <<setup, record, claim, stored, effects, returned, seen, answer, faults>>

-----------------------------------------------------------------------------
(* transition: read the record, then write it.  A transition that is not   *)
(* allowed throws; the observation of the effect is caught.                *)
ReadRecord(r) ==
    /\ pc[r] \in Transitions
    /\ seen[r] = None
    /\ IF record # None /\ record.state \in Allowed[pc[r]]
       THEN seen' = Put(seen, r, record) /\ UNCHANGED <<pc, answer>>
       ELSE /\ IF pc[r] = "observe" THEN Answers(r, "unknown", "record")
               ELSE Throws(r) /\ UNCHANGED answer
            /\ UNCHANGED seen
    /\ UNCHANGED <<files, effects, returned, faults>>

WriteRecord(r) ==
    /\ pc[r] \in Transitions
    /\ seen[r] # None
    /\ record' = [state |-> Target[pc[r]],
                  receipt |-> IF pc[r] = "record" THEN answer[r] ELSE seen[r].receipt]
    /\ seen' = Put(seen, r, None)
    /\ GoTo(r, After[pc[r]])
    /\ UNCHANGED <<setup, claim, consumed, stored, effects, returned, answer, faults>>

-----------------------------------------------------------------------------
(* The claim, the execution and its receipt.                               *)
ClaimFile(r) ==
    /\ pc[r] = "claim"
    /\ IF claim = None
       THEN /\ claim' = [by |-> r, whole |-> FALSE, alive |-> TRUE, expired |-> FALSE]
            /\ GoTo(r, "mark")
       ELSE /\ Throws(r)
            /\ UNCHANGED claim
    /\ UNCHANGED <<setup, record, consumed, stored, effects, returned, seen, answer, faults>>

\* Mutant: the claim is written without its time.
MarksTimeless(r) ==
    /\ pc[r] = "mark"
    /\ claim' = [by |-> r, whole |-> TRUE, alive |-> TRUE]
    /\ GoTo(r, "execute")
    /\ UNCHANGED <<setup, record, consumed, stored, effects, returned, seen, answer, faults>>

\* The claim is written to the file that was created, unless it was removed.
MarkClaim(r) ==
    /\ pc[r] = "mark"
    /\ claim' = IF claim # None /\ claim.by = r THEN [claim EXCEPT !.whole = TRUE] ELSE claim
    /\ GoTo(r, "execute")
    /\ UNCHANGED <<setup, record, consumed, stored, effects, returned, seen, answer, faults>>

\* The provider and the acceptance commands, or an error before or among them.
Run(r) ==
    /\ pc[r] = "run"
    /\ effects < MaxEffects
    /\ \/ effects' = effects + 1 /\ Answers(r, "executed", "observe")
       \/ effects' \in {effects, effects + 1} /\ Answers(r, "unknown", "record")
    /\ UNCHANGED <<files, returned, seen, faults>>

Unclaim(r) ==
    /\ pc[r] = "unclaim"
    /\ claim' = None
    /\ GoTo(r, "put")
    /\ UNCHANGED <<setup, record, consumed, stored, effects, returned, seen, answer, faults>>

\* FileTaskReceiptStore.put, and the return of executeTask.
PutReceipt(r) ==
    /\ pc[r] = "put"
    /\ stored' = answer[r]
    /\ returned' = returned \cup {answer[r]}
    /\ seen' = Put(seen, r, None)
    /\ answer' = Put(answer, r, None)
    /\ GoTo(r, "idle")
    /\ UNCHANGED <<setup, record, claim, consumed, effects, faults>>

-----------------------------------------------------------------------------
(* Failures and time.                                                      *)
Fault == faults < MaxFaults /\ faults' = faults + 1

\* The process of a runner ends.
Crash(r) ==
    /\ Fault
    /\ pc[r] # "idle"
    /\ GoTo(r, "idle")
    /\ seen' = Put(seen, r, None)
    /\ answer' = Put(answer, r, None)
    /\ claim' = IF claim # None /\ claim.by = r
                THEN [claim EXCEPT !.by = None, !.alive = FALSE] ELSE claim
    /\ UNCHANGED <<setup, record, consumed, stored, effects, returned>>

\* A file operation fails; the process goes on.
Fails(r) ==
    /\ Fault
    /\ pc[r] \notin {"idle", "run", "observe"}
    /\ GoTo(r, "idle")
    /\ seen' = Put(seen, r, None)
    /\ answer' = Put(answer, r, None)
    /\ UNCHANGED <<files, effects, returned>>

\* The process id of a claim whose process has ended is used again.
PidReused ==
    /\ claim # None
    /\ ~claim.alive
    /\ claim' = [claim EXCEPT !.alive = TRUE]
    /\ UNCHANGED <<setup, record, consumed, stored, effects, returned, pc, seen, answer, faults>>

\* The time of a claim has passed, perhaps while its owner is still working.
Expire ==
    /\ claim # None
    /\ ~claim.expired
    /\ claim' = [claim EXCEPT !.expired = TRUE]
    /\ UNCHANGED <<setup, record, consumed, stored, effects, returned, pc, seen, answer, faults>>

Step(r) ==
    \/ Start(r) \/ Prepare(r) \/ Write(r) \/ Look(r) \/ Consume(r)
    \/ ReadRecord(r) \/ WriteRecord(r) \/ ClaimFile(r) \/ MarkClaim(r)
    \/ Run(r) \/ Unclaim(r) \/ PutReceipt(r)

Next ==
    \/ \E r \in Runners : Step(r) \/ Crash(r) \/ Fails(r)
    \/ PidReused
    \/ Expire

Spec == Init /\ [][Next]_vars

\* HQ hands the task out until it has an outcome, and time passes; the task
\* itself is valid for longer than its claim.
FairSpec == Spec /\ WF_vars(Expire) /\ \A r \in Runners : WF_vars(Step(r))

-----------------------------------------------------------------------------
(* Properties.                                                             *)
TypeOK ==
    /\ {released, guarded} \subseteq BOOLEAN
    /\ record \in Record \cup {None}
    /\ claim \in Claim \cup {None}
    /\ consumed \in BOOLEAN
    /\ stored \in Dispositions \cup {None}
    /\ effects \in 0..MaxEffects
    /\ returned \subseteq Dispositions
    /\ pc \in [Runners -> Phases]
    /\ seen \in [Runners -> Record \cup {None}]
    /\ answer \in [Runners -> Dispositions \cup {None}]
    /\ faults \in 0..MaxFaults

\* The action is executed at most once, whatever crashes, expires or is
\* tried again ("executeTask() verifies and consumes that decision
\* immediately before provider or acceptance execution").
ExecutedAtMostOnce == effects <= 1

\* HQ is never told that the action was executed when it was not, nor that it
\* was contained when it may have been executed, through crashes and retries.
HonestReceipt ==
    /\ "executed" \in returned => effects = 1
    /\ "contained" \in returned => effects = 0

\* A decision that does not release the action is answered as contained by
\* every attempt, whoever else attempts it and whatever crashes.
DeniedIsContained == ~released => effects = 0 /\ returned \subseteq {"contained"}

\* What holds of every state: the types, one execution, and true receipts.
ActionSafe == TypeOK /\ ExecutedAtMostOnce /\ HonestReceipt /\ DeniedIsContained

\* A recorded receipt stays as it is.
KeepsReceipt == record # None /\ record.state = "recorded" => record' = record
JournalIsFinal == [][KeepsReceipt]_vars

\* The task gets its receipt in the end, unless a crash left the record or
\* the claim unfinished: an abandoned claim expires although its process id
\* is used again.
Settled ==
    \/ stored # None
    \/ record # None /\ record.state = "torn"
    \/ claim # None /\ ~claim.whole
Settles == <>[]Settled

=============================================================================
