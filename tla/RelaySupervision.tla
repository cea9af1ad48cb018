-------------------------- MODULE RelaySupervision --------------------------
(***************************************************************************)
(* The relay process: runRegisteredRepositoryRelays of                     *)
(* packages/cli/src/repositoryRelaySupervisor.ts, the workspace loops it   *)
(* starts (relayWorkspaceLoop, packages/cli/src/index.ts) and the queue    *)
(* through which all loops run their tasks (serializeRelayWork).           *)
(*                                                                         *)
(* The supervisor reads the registrations about once a second, aborts the  *)
(* loops that are no longer registered with their policy path, forgets     *)
(* those that have ended and starts the missing ones, unless they failed   *)
(* and their back-off has not passed.  What a loop does in a cycle is left *)
(* out but for its task; a loop is its abort controller and its flight.    *)
(* Time is counted in the supervisor's periods.                            *)
(***************************************************************************)
EXTENDS Integers, Sequences, FiniteSets

CONSTANTS
    Workspaces,
    Paths,            \* policy paths
    None,
    LongestDelay,     \* of relayRestartDelayMs (30 seconds)
    CredentialLimit,  \* DEVICE_CREDENTIAL_FAILURE_LIMIT (5)
    CredentialRetry,  \* DEVICE_CREDENTIAL_RETRY_MS (10 minutes)
    MaxFailures,      \* bound on failing loops
    MaxChanges,       \* bound on changes of the registrations
    MaxOutages        \* bound on registrations that cannot be read

ASSUME SupervisionAssumption ==
    /\ {MaxFailures, MaxChanges, MaxOutages} \subseteq Nat
    /\ {LongestDelay, CredentialLimit, CredentialRetry} \subseteq Nat \ {0}
    /\ None \notin Paths

\* A workspace has a second slot for a loop that outlives its place in the map.
Slots == 1..2
Loops == Workspaces \X Slots
Failures == {"no", "other", "credential"}
Flight == [path : Paths, aborted : BOOLEAN, failed : Failures,
           at : {"opening", "cycle", "poll", "queued", "task", "closing", "done"}]
Backoff == [count : Nat, credential : Nat, wait : Nat]

ASSUME NoneIsNothing == None \notin Slots \cup Flight

NoBackoff == [count |-> 0, credential |-> 0, wait |-> 0]
Registrations == [Workspaces -> Paths \cup {None}]
Nobody == [w \in Workspaces |-> None]

VARIABLES
    registry,    \* what reading the registrations returns
    rows,        \* what the supervisor read last
    pc,          \* the supervisor's step
    stopped,     \* the relay's own signal
    workers,     \* the slot of each workspace's worker in the map
    flight,      \* the loops
    failures,    \* the failures of each workspace and the time still to wait
    queue,       \* the loops with work in the device's queue, the running one first
    authorized,  \* history: the rows that were acted on last
    trusted,     \* history: no reading has failed since
    streak,      \* history: credential failures in a row, as they happened
    rest,        \* history: what is left of the long retry since the last of them
    failed, changes, outages

supervisor == <<rows, pc, workers, failures, authorized, trusted>>
bounds == <<failed, changes, outages>>
vars == <<registry, supervisor, stopped, flight, queue, streak, rest, bounds>>

Init ==
    /\ registry \in Registrations
    /\ rows = Nobody
    /\ pc = "list"
    /\ stopped = FALSE
    /\ workers = Nobody
    /\ flight = [l \in Loops |-> None]
    /\ failures = [w \in Workspaces |-> NoBackoff]
    /\ queue = <<>>
    /\ authorized = Nobody
    /\ trusted = FALSE
    /\ streak = [w \in Workspaces |-> 0]
    /\ rest = [w \in Workspaces |-> 0]
    /\ failed = 0 /\ changes = 0 /\ outages = 0

-----------------------------------------------------------------------------
(* Loops and back-off.                                                     *)
Least(a, b) == IF a < b THEN a ELSE b

\* relayRestartDelayMs.
Doubling == <<1, 2, 4, 8, 16, 32>>
RestartDelay(count) == Least(LongestDelay, Doubling[Least(count, 6)])

Alive(l) == flight[l] # None /\ flight[l].at # "done"
Mapped(w) == workers[w] # None
WorkerOf(w) == flight[<<w, workers[w]>>]
Ended(w) == Mapped(w) /\ WorkerOf(w).at = "done"

\* controller.abort() of the workers of some workspaces.
AbortWorkers(f, ids) ==
    [l \in Loops |-> IF l[1] \in ids /\ workers[l[1]] = l[2]
                     THEN [f[l] EXCEPT !.aborted = TRUE] ELSE f[l]]

\* The workers that are not registered any more with their policy path.
Unregistered == {w \in Workspaces : Mapped(w) /\ rows[w] # WorkerOf(w).path}

\* Mutant: a worker is forgotten as soon as it is aborted.
ReapsAborted == {w \in Workspaces : Ended(w) \/ w \in Unregistered}

\* Mutant: a worker that was aborted is never forgotten.
ReapsFailed == {w \in Workspaces : Ended(w) /\ WorkerOf(w).failed # "no"}

Reaped == {w \in Workspaces : Ended(w)}

\* Mutant: a credential failure waits no longer than any other.
NoCredentialRetry(w) ==
    LET count == failures[w].count + 1 IN
    [count |-> count, credential |-> 0, wait |-> RestartDelay(count)]

\* Mutant: the count of credential failures is lost.
NoCredentialCount(w) ==
    LET count == failures[w].count + 1 IN [count |-> count, wait |-> RestartDelay(count)]

\* The failures of a workspace after its worker has failed.
OneMore(w) ==
    LET count == failures[w].count + 1
        credential == IF WorkerOf(w).failed = "credential" THEN failures[w].credential + 1 ELSE 0
    IN  [count |-> count, credential |-> credential,
         wait |-> IF credential >= CredentialLimit THEN CredentialRetry ELSE RestartDelay(count)]

NextFailures == [w \in Workspaces |->
    CASE w \notin Reaped -> failures[w]
      [] w \in Reaped /\ WorkerOf(w).failed # "no"
         /\ ~WorkerOf(w).aborted /\ w \notin Unregistered -> OneMore(w)
      [] OTHER -> NoBackoff]

Starting == {w \in Workspaces :
    rows[w] # None /\ (~Mapped(w) \/ w \in Reaped) /\ NextFailures[w].wait = 0}

NewFlight(w) == [path |-> rows[w], aborted |-> FALSE, failed |-> "no", at |-> "opening"]
FreeSlot(w) == IF Alive(<<w, 1>>) THEN 2 ELSE 1

-----------------------------------------------------------------------------
(* The supervisor.                                                         *)
ReadRegistrations ==
    /\ pc = "list"
    /\ ~stopped
    /\ rows' = registry
    /\ pc' = "apply"
    /\ UNCHANGED <<registry, stopped, workers, flight, failures, queue, authorized, trusted, streak, rest, bounds>>

ReadFails ==
    /\ pc = "list"
    /\ ~stopped
    /\ outages < MaxOutages
    /\ outages' = outages + 1
    /\ flight' = AbortWorkers(flight, {w \in Workspaces : Mapped(w)})
    /\ trusted' = FALSE
    /\ pc' = "wait"
    /\ UNCHANGED <<registry, rows, stopped, workers, failures, queue, authorized, streak, rest, failed, changes>>

\* Aborts, reaps and starts, without an await in between.  The flights of the
\* new workers begin in the microtasks that follow, before anything can abort.
Apply ==
    /\ pc = "apply"
    /\ ~stopped
    /\ flight' = [l \in Loops |->
           IF l[1] \in Starting /\ l[2] = FreeSlot(l[1]) THEN NewFlight(l[1])
           ELSE IF l[1] \in Reaped /\ l[2] = workers[l[1]] /\ ~Alive(l) THEN None
           ELSE AbortWorkers(flight, Unregistered)[l]]
    /\ workers' = [w \in Workspaces |->
           IF w \in Starting THEN FreeSlot(w) ELSE IF w \in Reaped THEN None ELSE workers[w]]
    /\ failures' = NextFailures
    /\ authorized' = rows
    /\ trusted' = TRUE
    /\ streak' = [w \in Workspaces |-> IF rows[w] = authorized[w] THEN streak[w] ELSE 0]
    /\ rest' = [w \in Workspaces |-> IF rows[w] = authorized[w] THEN rest[w] ELSE 0]
    /\ pc' = "wait"
    /\ UNCHANGED <<registry, rows, stopped, queue, bounds>>

\* wait(1000), and the test of the signal at the head of the loop.
NextPeriod ==
    /\ pc = "wait"
    /\ pc' = IF stopped THEN "settle" ELSE "list"
    /\ UNCHANGED <<registry, rows, stopped, workers, flight, failures, queue, authorized, trusted,
                   streak, rest, bounds>>

\* The signal was given while the registrations were read.
Interrupted ==
    /\ stopped
    /\ pc \in {"list", "apply"}
    /\ pc' = "settle"
    /\ UNCHANGED <<registry, rows, stopped, workers, flight, failures, queue, authorized, trusted,
                   streak, rest, bounds>>

\* Mutant: the supervisor returns without waiting for its workers.
ReturnAtOnce ==
    /\ pc = "settle"
    /\ flight' = AbortWorkers(flight, {w \in Workspaces : Mapped(w)})
    /\ pc' = "returned"
    /\ UNCHANGED <<registry, rows, stopped, workers, failures, queue, authorized, trusted,
                   streak, rest, bounds>>

\* Every worker in the map has ended; the relay gives back its process lease.
Return ==
    /\ pc = "settle"
    /\ \A w \in Workspaces : Mapped(w) => Ended(w)
    /\ flight' = AbortWorkers(flight, {w \in Workspaces : Mapped(w)})
    /\ pc' = "returned"
    /\ UNCHANGED <<registry, rows, stopped, workers, failures, queue, authorized, trusted,
                   streak, rest, bounds>>

\* The signal of the process: its listener aborts every worker.
Stop ==
    /\ ~stopped
    /\ stopped' = TRUE
    /\ flight' = AbortWorkers(flight, {w \in Workspaces : Mapped(w)})
    /\ UNCHANGED <<registry, supervisor, queue, streak, rest, bounds>>

-----------------------------------------------------------------------------
(* A loop.                                                                 *)
GoesTo(l, at) == flight' = [flight EXCEPT ![l].at = at]

\* A loop ends with an error, which counts unless it was aborted.
Counts(l, kind) ==
    IF flight[l].aborted
    THEN UNCHANGED <<streak, rest>>
    ELSE LET row == IF kind = "credential" THEN streak[l[1]] + 1 ELSE 0 IN
         /\ streak' = [streak EXCEPT ![l[1]] = row]
         /\ rest' = [rest EXCEPT ![l[1]] = IF row >= CredentialLimit THEN CredentialRetry ELSE 0]

EndsWith(l, kind) ==
    /\ flight' = [flight EXCEPT ![l].at = "done", ![l].failed = IF flight[l].aborted THEN "no" ELSE kind]
    /\ Counts(l, kind)

Failing == failed < MaxFailures /\ failed' = failed + 1

\* The policy is verified, a session and the vault are opened.
Open(l) ==
    /\ flight[l].at = "opening"
    /\ GoesTo(l, IF flight[l].aborted THEN "done" ELSE "cycle")
    /\ UNCHANGED <<registry, supervisor, stopped, queue, streak, rest, bounds>>

OpenFails(l) ==
    /\ flight[l].at = "opening"
    /\ Failing
    /\ \E kind \in Failures \ {"no"} : EndsWith(l, kind)
    /\ UNCHANGED <<registry, supervisor, stopped, queue, changes, outages>>

\* Mutant: the loop does not look whether it should stop.
CyclesOn(l) ==
    /\ flight[l].at = "cycle"
    /\ GoesTo(l, "poll")
    /\ UNCHANGED <<registry, supervisor, stopped, queue, streak, rest, bounds>>

\* The head of the do-while loop.
StartCycle(l) ==
    /\ flight[l].at = "cycle"
    /\ GoesTo(l, IF flight[l].aborted THEN "closing" ELSE "poll")
    /\ UNCHANGED <<registry, supervisor, stopped, queue, streak, rest, bounds>>

\* After the policy and the evidence, the loop queues up for its task.
QueueUp(l) ==
    /\ flight[l].at = "poll"
    /\ GoesTo(l, "queued")
    /\ queue' = Append(queue, l)
    /\ UNCHANGED <<registry, supervisor, stopped, streak, rest, bounds>>

\* Mutant: the turn is not given up when the loop was aborted meanwhile.
TakesEveryTurn(l) ==
    /\ flight[l].at = "queued"
    /\ queue # <<>> /\ Head(queue) = l
    /\ GoesTo(l, "task")
    /\ UNCHANGED <<registry, supervisor, stopped, queue, streak, rest, bounds>>

\* Mutant: loops do not wait for each other.
TakesTurnAtOnce(l) ==
    /\ flight[l].at = "queued"
    /\ GoesTo(l, IF flight[l].aborted THEN "cycle" ELSE "task")
    /\ queue' = IF flight[l].aborted THEN SelectSeq(queue, LAMBDA o : o # l) ELSE queue
    /\ UNCHANGED <<registry, supervisor, stopped, streak, rest, bounds>>

\* The loop's turn: executeOneTask, unless the loop is stopping.
TakeTurn(l) ==
    /\ flight[l].at = "queued"
    /\ queue # <<>> /\ Head(queue) = l
    /\ GoesTo(l, IF flight[l].aborted THEN "cycle" ELSE "task")
    /\ queue' = IF flight[l].aborted THEN Tail(queue) ELSE queue
    /\ UNCHANGED <<registry, supervisor, stopped, streak, rest, bounds>>

\* The task ends, well or with an error; the next in the queue has its turn.
EndTask(l) ==
    /\ flight[l].at = "task"
    /\ queue' = Tail(queue)
    /\ \/ GoesTo(l, "cycle") /\ UNCHANGED bounds
       \/ /\ Failing
          /\ flight' = [flight EXCEPT ![l].at = "closing", ![l].failed = "other"]
          /\ UNCHANGED <<changes, outages>>
    /\ UNCHANGED <<registry, supervisor, stopped, streak, rest>>

\* The policy, evidence or poll receipt throws.
CycleFails(l) ==
    /\ flight[l].at \in {"cycle", "poll"}
    /\ Failing
    /\ flight' = [flight EXCEPT ![l].at = "closing", ![l].failed = "other"]
    /\ UNCHANGED <<registry, supervisor, stopped, queue, streak, rest, changes, outages>>

\* Source scan, skill preparation and vault are closed; the flight ends.
Close(l) ==
    /\ flight[l].at = "closing"
    /\ EndsWith(l, flight[l].failed)
    /\ UNCHANGED <<registry, supervisor, stopped, queue, bounds>>

-----------------------------------------------------------------------------
(* The surroundings.                                                       *)
Change ==
    /\ changes < MaxChanges
    /\ changes' = changes + 1
    /\ \E w \in Workspaces, p \in Paths \cup {None} : registry' = [registry EXCEPT ![w] = p]
    /\ UNCHANGED <<supervisor, stopped, flight, queue, streak, rest, failed, outages>>

Less(n) == IF n = 0 THEN 0 ELSE n - 1

Tick ==
    /\ \E w \in Workspaces : failures[w].wait > 0 \/ rest[w] > 0
    /\ failures' = [w \in Workspaces |-> [failures[w] EXCEPT !.wait = Less(@)]]
    /\ rest' = [w \in Workspaces |-> Less(rest[w])]
    /\ UNCHANGED <<registry, rows, pc, stopped, workers, flight, queue, authorized, trusted, streak, bounds>>

Supervisor == ReadRegistrations \/ Apply \/ NextPeriod \/ Interrupted \/ Return
Progress(l) ==
    \/ Open(l) \/ StartCycle(l) \/ QueueUp(l) \/ TakeTurn(l) \/ EndTask(l) \/ Close(l)

Next ==
    \/ Supervisor \/ ReadFails \/ Stop \/ Change \/ Tick
    \/ \E l \in Loops : Alive(l) /\ (Progress(l) \/ OpenFails(l) \/ CycleFails(l))

Spec == Init /\ [][Next]_vars

\* The event loop runs every continuation, every request and task has a time
\* limit, and time passes.
FairSpec ==
    /\ Spec
    /\ WF_vars(Supervisor)
    /\ WF_vars(Tick)
    /\ \A l \in Loops : WF_vars(Alive(l) /\ Progress(l))

-----------------------------------------------------------------------------
(* Properties.                                                             *)
TypeOK ==
    /\ registry \in Registrations
    /\ rows \in Registrations
    /\ pc \in {"list", "apply", "wait", "settle", "returned"}
    /\ stopped \in BOOLEAN
    /\ workers \in [Workspaces -> Slots \cup {None}]
    /\ flight \in [Loops -> Flight \cup {None}]
    /\ failures \in [Workspaces -> Backoff]
    /\ queue \in Seq(Loops)
    /\ authorized \in Registrations
    /\ trusted \in BOOLEAN
    /\ streak \in [Workspaces -> Nat]
    /\ rest \in [Workspaces -> 0..CredentialRetry]
    /\ failed \in 0..MaxFailures /\ changes \in 0..MaxChanges /\ outages \in 0..MaxOutages

\* A workspace never has two loops, although its policy path changes, its loop
\* fails or the registrations are lost while it still runs a task ("changed
\* policy paths cannot replace a worker before its shutdown finishes").
OneLoopPerWorkspace == \A w \in Workspaces : ~(Alive(<<w, 1>>) /\ Alive(<<w, 2>>))

\* The device runs one task at a time, and only the head of the queue does.
OneTaskAtATime == \A l \in Loops : Alive(l) /\ flight[l].at = "task" => queue # <<>> /\ Head(queue) = l

\* A task starts only for a workspace that the last refresh has registered
\* with the loop's policy, however long the loop has waited in the queue, and
\* not while the registrations cannot be read or after the relay was stopped.
StartsTask(l) == Alive(l) /\ flight[l].at = "queued" /\ flight'[l].at = "task"
AuthorizedTasks ==
    [][\A l \in Loops : StartsTask(l) => ~stopped /\ trusted /\ authorized[l[1]] = flight[l].path]_vars

\* After CredentialLimit credential failures in a row a workspace's loop is
\* started again only when the long retry has passed.
StartsLoop(w) == \E s \in Slots : ~Alive(<<w, s>>) /\ Alive(<<w, s>>)'
WaitsOutRetry == \A w \in Workspaces : StartsLoop(w) => rest[w] = 0 \/ rows[w] # authorized[w]
CredentialBackoff == [][WaitsOutRetry]_vars

\* When the supervisor has returned and the process lease is given back, no
\* loop runs and none is left in the queue.
QuietAfterReturn == pc = "returned" => queue = <<>> /\ \A l \in Loops : ~Alive(l)

\* What holds of every state: the types, one loop per workspace, one task on the
\* device, and quiet after the return.
RelaySafe == TypeOK /\ OneLoopPerWorkspace /\ OneTaskAtATime /\ QuietAfterReturn

\* A workspace whose registration stays gets its turn in the task queue again
\* and again, behind failing, changed and busy loops; one that is not
\* registered any more has no loop in the end.
HasTurn(w, p) == \E l \in Loops : l[1] = w /\ Alive(l) /\ flight[l].path = p /\ flight[l].at = "task"
RegistrationFollowed ==
    \A w \in Workspaces :
        /\ \A p \in Paths : <>[](registry[w] = p /\ ~stopped) => []<>HasTurn(w, p)
        /\ <>[](registry[w] = None) => <>[](\A s \in Slots : ~Alive(<<w, s>>))

\* A stopped relay ends: every loop gives up or finishes its task.
StopCompletes == stopped ~> pc = "returned"

=============================================================================
