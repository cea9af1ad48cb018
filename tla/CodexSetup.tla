----------------------------- MODULE CodexSetup -----------------------------
(***************************************************************************)
(* One setup operation of a device: a host runs it under a lease in the    *)
(* vault's journal (codexSetupAdmission.ts, codexSetupNativeHost.ts,       *)
(* codexSetupReadiness.ts), asks the standing supervisor for a session     *)
(* through a row of the vault, and the supervisor starts a child for it    *)
(* (codexSetupSessionHandoff.ts, codexSetupChildStartup.ts,                *)
(* namedSessionChildOwner.ts).  Host, supervisor and child are processes   *)
(* of their own that meet in the rows only; each may die at any point, and *)
(* the host's turn may end while its call is under way.                    *)
(*                                                                         *)
(* A host that starts again has another connection and so another digest:  *)
(* it is another member of Hosts.                                          *)
(***************************************************************************)
EXTENDS Naturals

CONSTANTS
    Hosts,
    None,
    Expires,        \* when the intent and its request expire
    Wait,           \* how long a host waits for an acceptance
    AcceptedWait,   \* ... and, after that, for a result
    MaxFaults

SetupAssumption == {Expires, Wait, AcceptedWait, MaxFaults} \subseteq Nat

VARIABLES
    now,
    op,           \* the row of codex_setup_operations
    session,      \* the row of codex_setup_sessions
    ready,        \* the row of codex_setup_readiness: whose it is
    registered,   \* there is a registration of the session by name
    pc,           \* of each host
    closed,       \* the hosts whose turn is over
    deadline, seen, ack, result,   \* of each host: its waiting, what it was told, its outcome
    answer,       \* of each host: what its latest call returned
    sup,          \* the supervisor: its life, its step, and the child before the request
    child,        \* the process of the session
    executions, starts, spawns,    \* history: leases run, children started for the request, children
    faults

rows == <<op, session, ready, registered>>
locals == <<deadline, seen, ack, result>>
hosts == <<pc, closed, locals, answer>>
counts == <<executions, starts, spawns>>
vars == <<now, rows, hosts, sup, child, counts, faults>>

Init ==
    /\ now = 0 /\ op = None /\ session = None /\ ready = None /\ registered = FALSE
    /\ pc = [h \in Hosts |-> "off"] /\ closed = {}
    /\ deadline = [h \in Hosts |-> 0] /\ seen = [h \in Hosts |-> FALSE]
    /\ ack = [h \in Hosts |-> None] /\ result = [h \in Hosts |-> "unconfirmed"]
    /\ answer = [h \in Hosts |-> None]
    /\ sup = [life |-> 0, pc |-> "idle", before |-> 0]
    /\ child = None
    /\ executions = 0 /\ starts = 0 /\ spawns = 0 /\ faults = 0

Least(a, b) == IF a < b THEN a ELSE b
GoTo(h, step) == pc' = [pc EXCEPT ![h] = step]
Alive(h) == pc[h] \notin {"off", "dead"}

\* The lifetime, the connection and the turn are still those of the intent.
Qualified(h) == now < Expires /\ h \notin closed

Answer(h, what) == answer' = [answer EXCEPT ![h] = what] /\ GoTo(h, "bound")
Holds(h, state) == op # None /\ op.by = h /\ op.state = state

-----------------------------------------------------------------------------
(* A call of the setup tool: claim, execute, finish, read back *)

Turn(h) ==
    /\ pc[h] = "off" /\ GoTo(h, "bound")
    /\ UNCHANGED <<now, rows, closed, locals, answer, sup, child, counts, faults>>

\* Mutant: an operation that is running is taken over.
TakesOver(h) ==
    /\ pc[h] = "bound" /\ Qualified(h)
    /\ op' = [by |-> h, state |-> "running", result |-> None] /\ GoTo(h, "claimed") /\ UNCHANGED <<answer, result>>
    /\ UNCHANGED <<now, session, ready, registered, closed, deadline, seen, ack, sup, child, counts, faults>>

\* The first claim has the operation, for good: another digest is a conflict, a
\* running operation is in progress, and a finished one is only read.
Claim(h) ==
    /\ pc[h] = "bound" /\ Qualified(h)
    /\ CASE op = None ->
              /\ op' = [by |-> h, state |-> "running", result |-> None]
              /\ GoTo(h, "claimed") /\ UNCHANGED <<answer, result>>
         [] Holds(h, "terminal") ->
              GoTo(h, "readback") /\ result' = [result EXCEPT ![h] = op.result] /\ UNCHANGED <<op, answer>>
         [] OTHER -> Answer(h, "denied") /\ UNCHANGED <<op, result>>
    /\ UNCHANGED <<now, session, ready, registered, closed, deadline, seen, ack, sup, child, counts, faults>>

\* An operation whose host lost its authority here is never run.
Execute(h) ==
    /\ pc[h] = "claimed"
    /\ IF Qualified(h)
       THEN GoTo(h, "run") /\ executions' = executions + 1 /\ UNCHANGED answer
       ELSE Answer(h, "denied") /\ UNCHANGED executions
    /\ UNCHANGED <<now, rows, closed, locals, sup, child, starts, spawns, faults>>

\* The executor fails, or its scope is closed: the outcome stays unconfirmed.
Unconfirmed(h) ==
    /\ pc[h] \in {"run", "got", "observed"}
    /\ GoTo(h, "finish")
    /\ UNCHANGED <<now, rows, closed, locals, answer, sup, child, counts, faults>>

Stage(h) ==
    /\ pc[h] = "run" /\ Qualified(h) /\ Holds(h, "running") /\ session = None
    /\ session' = [by |-> h, state |-> "pending", acceptedAt |-> None, result |-> None, recordedAt |-> None]
    /\ deadline' = [deadline EXCEPT ![h] = Least(now + Wait, Expires)]
    /\ GoTo(h, "waiting")
    /\ UNCHANGED <<now, op, ready, registered, closed, seen, ack, result, answer, sup, child, counts, faults>>

Leave(h) == GoTo(h, "leaving") /\ UNCHANGED <<deadline, seen, ack>>

\* The time left once an acceptance was seen in time.
Startup == Least(session.acceptedAt + AcceptedWait, Expires)

\* Mutant: a result is good whenever it is found.
PollsLate(h) ==
    /\ pc[h] = "waiting"
    /\ IF session.state = "accepted" /\ session.result # None
       THEN /\ ack' = [ack EXCEPT ![h] = session]
            /\ GoTo(h, "leaving") /\ UNCHANGED <<deadline, seen>>
       ELSE Leave(h)
    /\ UNCHANGED <<now, rows, closed, result, answer, sup, child, counts, faults>>

\* One look at the row: an acceptance has to be seen before the first deadline,
\* its result has to be recorded by the second, and seen before it.
Poll(h) ==
    /\ pc[h] = "waiting"
    /\ LET accepted == session.state = "accepted"
           late == ~ seen[h] /\ (session.acceptedAt > deadline[h] \/ now >= deadline[h])
           end == IF accepted THEN Startup ELSE deadline[h] IN
       CASE ~ Qualified(h) \/ session.state = "withdrawn" -> Leave(h)
         [] Qualified(h) /\ accepted /\ late -> Leave(h)
         [] Qualified(h) /\ accepted /\ ~ late /\ session.result # None /\ session.recordedAt <= end /\ now < end ->
              /\ ack' = [ack EXCEPT ![h] = session]
              /\ GoTo(h, "leaving") /\ UNCHANGED <<deadline, seen>>
         [] OTHER ->
              IF now >= end THEN Leave(h)
              ELSE /\ seen' = [seen EXCEPT ![h] = accepted] /\ deadline' = [deadline EXCEPT ![h] = end]
                   /\ UNCHANGED <<pc, ack>>
    /\ UNCHANGED <<now, rows, closed, result, answer, sup, child, counts, faults>>

\* Mutant: the request is withdrawn whatever became of it.
Withdrawn(h) == IF session # None THEN [session EXCEPT !.state = "withdrawn"] ELSE session

\* A request is withdrawn only while nobody has accepted it.
Withdrawal(h) ==
    IF session # None /\ session.by = h /\ session.state = "pending"
    THEN [session EXCEPT !.state = "withdrawn"] ELSE session

Started(row) == row.result # None /\ row.result.state = "started"
Result(state, c) == [state |-> state, child |-> c, life |-> sup.life]

Withdraw(h) ==
    /\ pc[h] = "leaving"
    /\ session' = Withdrawal(h)
    /\ GoTo(h, IF ack[h] # None /\ Started(ack[h]) /\ Qualified(h) THEN "got" ELSE "finish")
    /\ UNCHANGED <<now, op, ready, registered, closed, locals, answer, sup, child, counts, faults>>

\* The session that was started is the one that runs, under the same supervisor.
Live ==
    /\ session # None /\ Started(session)
    /\ child # None /\ child.id = session.result.child
    /\ sup.life = session.result.life /\ child.life = sup.life

Observe(h) ==
    /\ pc[h] = "got" /\ Qualified(h) /\ Live
    /\ GoTo(h, "observed")
    /\ UNCHANGED <<now, rows, closed, locals, answer, sup, child, counts, faults>>

Record(h) ==
    /\ pc[h] = "observed" /\ Qualified(h) /\ Holds(h, "running")
    /\ ready' = h
    /\ result' = [result EXCEPT ![h] = "completed"] /\ GoTo(h, "finish")
    /\ UNCHANGED <<now, op, session, registered, closed, deadline, seen, ack, answer, sup, child, counts, faults>>

\* Whether the journal took the outcome only reading it back can tell.
Finish(h) ==
    /\ pc[h] = "finish"
    /\ \/ Qualified(h) /\ Holds(h, "running") /\ op' = [op EXCEPT !.state = "terminal", !.result = result[h]]
       \/ UNCHANGED op
    /\ GoTo(h, "readback")
    /\ UNCHANGED <<now, session, ready, registered, closed, locals, answer, sup, child, counts, faults>>

\* Mutant: the outcome is believed without reading it back.
Believes(h) ==
    /\ pc[h] = "readback"
    /\ IF Qualified(h) /\ result[h] = "completed" THEN GoTo(h, "expose") /\ UNCHANGED answer ELSE Answer(h, "denied")
    /\ UNCHANGED <<now, rows, closed, locals, sup, child, counts, faults>>

ReadBack(h) ==
    /\ pc[h] = "readback"
    /\ IF Qualified(h) /\ Holds(h, "terminal") /\ op.result = result[h] /\ result[h] = "completed"
       THEN GoTo(h, "expose") /\ UNCHANGED answer
       ELSE Answer(h, "denied")
    /\ UNCHANGED <<now, rows, closed, locals, sup, child, counts, faults>>

\* The receipt is evidence of then: the session is observed again.
Expose(h) ==
    /\ pc[h] = "expose"
    /\ Answer(h, IF Qualified(h) /\ ready = h /\ Live THEN "completed" ELSE "denied")
    /\ UNCHANGED <<now, rows, closed, locals, sup, child, counts, faults>>

-----------------------------------------------------------------------------
(* The supervisor *)

Sup(step) == sup' = [sup EXCEPT !.pc = step]

\* The sender has to be alive, and everything else as it was approved.
Authorize ==
    /\ sup.pc = "idle" /\ session # None /\ session.state = "pending" /\ now < Expires
    /\ Alive(session.by)
    /\ Sup("chosen")
    /\ UNCHANGED <<now, rows, hosts, child, counts, faults>>

\* Mutant: a row is accepted in whatever state it was found.
AcceptsAnything ==
    /\ sup.pc = "chosen"
    /\ session' = [session EXCEPT !.state = "accepted", !.acceptedAt = now]
    /\ sup' = [sup EXCEPT !.pc = "accepted", !.before = 0]
    /\ UNCHANGED <<now, op, ready, registered, hosts, child, counts, faults>>

\* The one statement that turns a pending row into an accepted one.
Accept ==
    /\ sup.pc = "chosen"
    /\ IF session.state = "pending" /\ now < Expires /\ Holds(session.by, "running")
       THEN /\ session' = [session EXCEPT !.state = "accepted", !.acceptedAt = now]
            /\ sup' = [sup EXCEPT !.pc = "accepted", !.before = IF child # None /\ child.life = sup.life THEN child.id ELSE 0]
       ELSE Sup("idle") /\ UNCHANGED session
    /\ UNCHANGED <<now, op, ready, registered, hosts, child, counts, faults>>

Authorized == now < Expires /\ Alive(session.by)
NewChild(for) == [id |-> spawns + 1, life |-> sup.life, for |-> for, stage |-> IF for = None THEN "serving" ELSE "new"]

\* The session is started, or the one that serves already is taken.  Whatever
\* goes wrong here ends in the draining of what was started.
Start ==
    /\ sup.pc = "accepted"
    /\ \/ /\ Authorized /\ child = None
          /\ child' = NewChild(session.by) /\ spawns' = spawns + 1 /\ starts' = starts + 1
          /\ Sup("starting")
       \/ /\ Authorized /\ child # None /\ child.stage = "serving"
          /\ Sup("starting") /\ UNCHANGED <<child, spawns, starts>>
       \/ Sup("stopping") /\ UNCHANGED <<child, spawns, starts>>
    /\ UNCHANGED <<now, rows, hosts, executions, faults>>

Owned == child # None /\ child.life = sup.life

\* The result is recorded while the request lives and the child is its own.
RecordStarted ==
    /\ sup.pc = "starting"
    /\ \/ /\ Authorized /\ Owned /\ child.stage = "serving"
          /\ session' = [session EXCEPT !.result = Result("started", child.id), !.recordedAt = now]
          /\ Sup("idle")
       \/ Sup("stopping") /\ UNCHANGED session
    /\ UNCHANGED <<now, op, ready, registered, hosts, child, counts, faults>>

\* Mutant: the outcome is recorded and the child left to itself.
LeavesChild ==
    /\ sup.pc = "stopping" /\ Sup("drained")
    /\ UNCHANGED <<now, rows, hosts, child, counts, faults>>

\* Only the child that the request brought is stopped.
StopFresh ==
    /\ sup.pc = "stopping"
    /\ child' = IF Owned /\ child.id # sup.before THEN None ELSE child
    /\ Sup("drained")
    /\ UNCHANGED <<now, rows, hosts, counts, faults>>

RecordUnconfirmed ==
    /\ sup.pc = "drained"
    /\ session' = IF now < Expires THEN [session EXCEPT !.result = Result("unconfirmed", 0), !.recordedAt = now] ELSE session
    /\ Sup("idle")
    /\ UNCHANGED <<now, op, ready, registered, hosts, child, counts, faults>>

\* The same loop starts every registered session that is down.
Reconnect ==
    /\ sup.pc = "idle" /\ registered /\ child = None
    /\ child' = NewChild(None) /\ spawns' = spawns + 1
    /\ UNCHANGED <<now, rows, hosts, sup, executions, starts, faults>>

-----------------------------------------------------------------------------
(* The child of a request *)

\* The request is accepted and open, its operation runs, and its sender and the
\* child's own parent live.
Fenced ==
    /\ now < Expires /\ session.state = "accepted" /\ session.result = None
    /\ Holds(session.by, "running") /\ Alive(session.by) /\ child.life = sup.life

\* It registers the session, and serves if all that still holds.
Boot ==
    /\ child # None /\ child.stage \in {"new", "registered"}
    /\ IF ~ Fenced THEN child' = None /\ UNCHANGED registered
       ELSE IF child.stage = "new" THEN registered' = TRUE /\ child' = [child EXCEPT !.stage = "registered"]
       ELSE child' = [child EXCEPT !.stage = "serving"] /\ UNCHANGED registered
    /\ UNCHANGED <<now, op, session, ready, hosts, sup, counts, faults>>

\* Without its parent the child of a request ends.
Orphaned ==
    /\ child # None /\ child.for # None /\ child.life # sup.life
    /\ child' = None
    /\ UNCHANGED <<now, rows, hosts, sup, counts, faults>>

-----------------------------------------------------------------------------
(* Time, ends and deaths *)

Tick == now < Expires /\ now' = now + 1 /\ UNCHANGED <<rows, hosts, sup, child, counts, faults>>

\* The turn ends, or the scope is withdrawn: a pending request goes with it.
EndTurn(h) ==
    /\ Alive(h) /\ h \notin closed /\ closed' = closed \cup {h}
    /\ session' = Withdrawal(h)
    /\ UNCHANGED <<now, op, ready, registered, pc, locals, answer, sup, child, counts, faults>>

Die(h) ==
    /\ Alive(h) /\ faults < MaxFaults /\ faults' = faults + 1
    /\ GoTo(h, "dead")
    /\ UNCHANGED <<now, rows, closed, locals, answer, sup, child, counts>>

\* A supervisor that dies leaves its child; one that stops takes it along.
EndSupervisor ==
    /\ faults < MaxFaults /\ faults' = faults + 1
    /\ sup' = [life |-> sup.life + 1, pc |-> "idle", before |-> 0]
    /\ child' = None \/ UNCHANGED child
    /\ UNCHANGED <<now, rows, hosts, counts>>

\* The child dies, or cannot be stopped.
EndChild ==
    /\ child # None /\ faults < MaxFaults /\ faults' = faults + 1
    /\ \/ child' = None /\ UNCHANGED sup
       \/ sup.pc = "stopping" /\ Sup("idle") /\ UNCHANGED child
    /\ UNCHANGED <<now, rows, hosts, counts>>

HostStep(h) ==
    \/ Turn(h) \/ Claim(h) \/ Execute(h) \/ Unconfirmed(h) \/ Stage(h) \/ Poll(h) \/ Withdraw(h)
    \/ Observe(h) \/ Record(h) \/ Finish(h) \/ ReadBack(h) \/ Expose(h)

SupStep ==
    \/ Authorize \/ Accept \/ Start \/ RecordStarted \/ StopFresh \/ RecordUnconfirmed \/ Reconnect

Next ==
    \/ \E h \in Hosts : HostStep(h) \/ EndTurn(h) \/ Die(h)
    \/ SupStep \/ Boot \/ Orphaned
    \/ Tick \/ EndSupervisor \/ EndChild

Spec == Init /\ [][Next]_vars

-----------------------------------------------------------------------------
(* Properties *)

TypeOK ==
    /\ now \in 0 .. Expires
    /\ op = None \/ op \in [by : Hosts, state : {"running", "terminal"}, result : {None, "unconfirmed", "completed"}]
    /\ session # None => session.state \in {"pending", "accepted", "withdrawn"} /\ session.by \in Hosts
    /\ ready \in Hosts \cup {None} /\ registered \in BOOLEAN
    /\ answer \in [Hosts -> {None, "denied", "completed"}]

\* An operation is run once, and its request starts one child at most, whatever
\* died in between: what was interrupted is never taken up again.
RunOnce == executions <= 1 /\ starts <= 1

\* When the row says that nothing was confirmed, nothing of the request runs.
Drained ==
    session # None /\ session.result # None /\ ~ Started(session) => child = None \/ child.for = None

\* A host was told what the row still says, and in time.
ToldInTime ==
    \A h \in Hosts :
        ack[h] # None =>
            /\ session = ack[h] /\ session.by = h /\ session.state = "accepted"
            /\ session.acceptedAt <= session.recordedAt /\ session.recordedAt <= Startup

\* A completed setup is one that the journal calls so, with the receipt of a
\* session that was started and that the host was told of.
CompletedIsReady ==
    \A h \in Hosts :
        answer[h] = "completed" =>
            /\ Holds(h, "terminal") /\ op.result = "completed" /\ ready = h
            /\ ack[h] # None /\ Started(session)

SetupSafe ==
    TypeOK /\ RunOnce /\ Drained /\ ToldInTime /\ CompletedIsReady

\* What was accepted is never withdrawn, and what was withdrawn never accepted;
\* a result stays, and so does the outcome of an operation and whose it is.
Stays(row, next, ends) ==
    row # None =>
        /\ next # None /\ next.by = row.by
        /\ row.state \in ends => next.state = row.state
        /\ row.result # None => next.result = row.result
RowsMove == Stays(op, op', {"terminal"}) /\ Stays(session, session', {"accepted", "withdrawn"})
OneWay == [][RowsMove]_vars

=============================================================================
