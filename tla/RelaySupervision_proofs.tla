----------------------- MODULE RelaySupervision_proofs ----------------------
(***************************************************************************)
(* Proofs about RelaySupervision, for any workspaces, policy paths and     *)
(* delays and any number of failures, changes and outages: a workspace has *)
(* one loop, the device one task, a task starts only for what the last     *)
(* refresh registered, and nothing runs when the supervisor has returned.  *)
(* RelayPresence is proved about at the end, for any sockets and gateways. *)
(***************************************************************************)
EXTENDS RelaySupervision, TLAPS

\* Every worker in the map has a loop, and every loop that runs is in the map.
InMap ==
    /\ \A w \in Workspaces : Mapped(w) => WorkerOf(w) # None
    /\ \A l \in Loops : Alive(l) => workers[l[1]] = l[2]

\* The queue holds loops that wait for their turn or have it, each once.
QueueMatches ==
    /\ \A i \in DOMAIN queue : Alive(queue[i]) /\ flight[queue[i]].at \in {"queued", "task"}
    /\ \A i, j \in DOMAIN queue : queue[i] = queue[j] => i = j

\* A loop that was not aborted is what the last refresh has registered.
RunsRegistered ==
    \A l \in Loops : Alive(l) /\ ~flight[l].aborted =>
        ~stopped /\ trusted /\ authorized[l[1]] = flight[l].path

AllEnded == pc = "returned" => \A w \in Workspaces : Mapped(w) => Ended(w)

SupervisionInv == TypeOK /\ InMap /\ QueueMatches /\ RunsRegistered /\ OneTaskAtATime /\ AllEnded

LEMMA DelayType == ASSUME NEW n \in Nat PROVE RestartDelay(n + 1) \in Nat
  <1>1. Least(n + 1, 6) \in 1..6
    BY DEF Least
  <1>2. Doubling[Least(n + 1, 6)] \in Nat
    BY <1>1 DEF Doubling
  <1> QED
    BY <1>2, SupervisionAssumption DEF RestartDelay, Least

\* What aborting some workers of the map changes: their flags, nothing else.
LEMMA AbortChanges ==
    ASSUME TypeOK, InMap, NEW ids \in SUBSET {w \in Workspaces : Mapped(w)},
           NEW l \in Loops
    PROVE  /\ AbortWorkers(flight, ids)[l] \in Flight \cup {None}
           /\ flight[l] = None => AbortWorkers(flight, ids)[l] = None
           /\ flight[l] # None =>
                /\ AbortWorkers(flight, ids)[l] \in Flight
                /\ AbortWorkers(flight, ids)[l].at = flight[l].at
                /\ AbortWorkers(flight, ids)[l].path = flight[l].path
                /\ AbortWorkers(flight, ids)[l].failed = flight[l].failed
                /\ AbortWorkers(flight, ids)[l].aborted =
                     (flight[l].aborted \/ (l[1] \in ids /\ workers[l[1]] = l[2]))
  <1> DEFINE F == AbortWorkers(flight, ids)
  <1>1. l = <<l[1], l[2]>> /\ l[1] \in Workspaces /\ flight[l] \in Flight \cup {None}
    BY DEF Loops, TypeOK
  <1>2. CASE l[1] \in ids /\ workers[l[1]] = l[2]
    <2>1. flight[l] # None
      BY <1>1, <1>2 DEF InMap, WorkerOf
    <2>2. F[l] = [flight[l] EXCEPT !.aborted = TRUE]
      BY <1>2 DEF AbortWorkers
    <2> QED
      BY <1>1, <1>2, <2>1, <2>2 DEF Flight
  <1>3. CASE ~(l[1] \in ids /\ workers[l[1]] = l[2])
    <2>1. F[l] = flight[l]
      BY <1>3 DEF AbortWorkers
    <2> QED
      BY <1>1, <1>3, <2>1 DEF Flight
  <1> QED
    BY <1>2, <1>3

\* Every step keeps the state well formed.
LEMMA TypeStep == ASSUME SupervisionInv, Next PROVE TypeOK'
  <1> USE SupervisionAssumption, NoneIsNothing DEF TypeOK, SupervisionInv
  <1>1. CASE ReadRegistrations
    BY <1>1 DEF ReadRegistrations, supervisor, bounds, Registrations
  <1>2. CASE ReadFails
    <2> DEFINE ids == {w \in Workspaces : Mapped(w)}
    <2>1. \A l \in Loops : AbortWorkers(flight, ids)[l] \in Flight \cup {None}
      BY AbortChanges
    <2>2. flight' \in [Loops -> Flight \cup {None}]
      BY <1>2, <2>1 DEF ReadFails, AbortWorkers
    <2>3. outages' \in 0..MaxOutages
      BY <1>2 DEF ReadFails
    <2> QED
      BY <1>2, <2>2, <2>3 DEF ReadFails
  <1>3. CASE Apply
    <2>1. \A w \in Workspaces : NextFailures[w] \in Backoff
      <3> SUFFICES ASSUME NEW w \in Workspaces PROVE NextFailures[w] \in Backoff
        OBVIOUS
      <3>1. failures[w] \in Backoff
        OBVIOUS
      <3>2. RestartDelay(failures[w].count + 1) \in Nat
        BY <3>1, DelayType DEF Backoff
      <3>3. OneMore(w) \in Backoff
        BY SMTT(60), <3>1, <3>2 DEF OneMore, Backoff
      <3>4. NoBackoff \in Backoff
        BY DEF NoBackoff, Backoff
      <3> QED
        BY <3>1, <3>3, <3>4 DEF NextFailures
    <2>2. failures' \in [Workspaces -> Backoff]
      BY <1>3, <2>1 DEF Apply, NextFailures
    <2>3. \A w \in Starting : NewFlight(w) \in Flight
      BY DEF Starting, NewFlight, Flight, Registrations, Failures
    <2>4. Unregistered \in SUBSET {w \in Workspaces : Mapped(w)}
      BY DEF Unregistered
    <2>5. \A l \in Loops : AbortWorkers(flight, Unregistered)[l] \in Flight \cup {None}
      BY <2>4, AbortChanges
    <2>6. flight' \in [Loops -> Flight \cup {None}]
      BY <1>3, <2>3, <2>5 DEF Apply
    <2>7. workers' \in [Workspaces -> Slots \cup {None}]
      BY <1>3 DEF Apply, FreeSlot, Slots
    <2> QED
      BY <1>3, <2>2, <2>6, <2>7 DEF Apply, bounds
  <1>4. CASE NextPeriod
    BY <1>4 DEF NextPeriod, supervisor, bounds, Registrations
  <1>5. CASE Interrupted
    BY <1>5 DEF Interrupted, supervisor, bounds, Registrations
  <1>6. CASE Return
    <2> DEFINE ids == {w \in Workspaces : Mapped(w)}
    <2>1. \A l \in Loops : AbortWorkers(flight, ids)[l] \in Flight \cup {None}
      BY AbortChanges
    <2>2. flight' \in [Loops -> Flight \cup {None}]
      BY <1>6, <2>1 DEF Return, AbortWorkers
    <2> QED
      BY <1>6, <2>2 DEF Return, supervisor, bounds
  <1>7. CASE Stop
    <2> DEFINE ids == {w \in Workspaces : Mapped(w)}
    <2>1. \A l \in Loops : AbortWorkers(flight, ids)[l] \in Flight \cup {None}
      BY AbortChanges
    <2>2. flight' \in [Loops -> Flight \cup {None}]
      BY <1>7, <2>1 DEF Stop, AbortWorkers
    <2> QED
      BY <1>7, <2>2 DEF Stop, supervisor, bounds
  <1>8. CASE Change
    BY SMTT(60), <1>8 DEF Change, supervisor, bounds, Registrations
  <1>9. CASE Tick
    <2>1. \A w \in Workspaces : [failures[w] EXCEPT !.wait = Less(@)] \in Backoff
      <3> SUFFICES ASSUME NEW w \in Workspaces
                   PROVE [failures[w] EXCEPT !.wait = Less(@)] \in Backoff
        OBVIOUS
      <3>1. failures[w] \in Backoff /\ failures[w].wait \in Nat
        BY DEF Backoff
      <3>2. Less(failures[w].wait) \in Nat
        BY SMTT(60), <3>1 DEF Less
      <3> QED
        BY <3>1, <3>2 DEF Backoff
    <2>2. \A w \in Workspaces : Less(rest[w]) \in 0..CredentialRetry
      BY SMTT(60) DEF Less
    <2> QED
      BY <1>9, <2>1, <2>2 DEF Tick, bounds
  <1>10. ASSUME NEW l \in Loops, Alive(l), Open(l) PROVE TypeOK'
    <2>1. flight[l] \in Flight
      BY <1>10 DEF Alive
    <2> QED
      BY <1>10, <2>1 DEF Open, GoesTo, Failing, supervisor, bounds, Flight, Failures
  <1>11. ASSUME NEW l \in Loops, Alive(l), StartCycle(l) PROVE TypeOK'
    <2>1. flight[l] \in Flight
      BY <1>11 DEF Alive
    <2> QED
      BY <1>11, <2>1 DEF StartCycle, GoesTo, Failing, supervisor, bounds, Flight, Failures
  <1>12. ASSUME NEW l \in Loops, Alive(l), QueueUp(l) PROVE TypeOK'
    <2>1. flight[l] \in Flight
      BY <1>12 DEF Alive
    <2>2. flight' \in [Loops -> Flight \cup {None}]
      BY <1>12, <2>1 DEF QueueUp, GoesTo, Flight
    <2>3. queue' \in Seq(Loops)
      BY <1>12 DEF QueueUp
    <2> QED
      BY <1>12, <2>2, <2>3 DEF QueueUp, supervisor, bounds
  <1>13. ASSUME NEW l \in Loops, Alive(l), TakeTurn(l) PROVE TypeOK'
    <2>1. queue # <<>>
      BY <1>13 DEF TakeTurn
    <2>2. Tail(queue) \in Seq(Loops)
      BY <2>1
    <2>3. flight[l] \in Flight
      BY <1>13 DEF Alive
    <2> QED
      BY <1>13, <2>2, <2>3 DEF TakeTurn, GoesTo, Failing, supervisor, bounds, Flight, Failures
  <1>14. ASSUME NEW l \in Loops, Alive(l), EndTask(l) PROVE TypeOK'
    <2>1. queue # <<>>
      BY <1>14 DEF EndTask, OneTaskAtATime
    <2>2. Tail(queue) \in Seq(Loops)
      BY <2>1
    <2>3. flight[l] \in Flight
      BY <1>14 DEF Alive
    <2>4. flight' \in [Loops -> Flight \cup {None}]
      <3>1. CASE GoesTo(l, "cycle")
        BY <2>3, <3>1 DEF GoesTo, Flight
      <3>2. CASE flight' = [flight EXCEPT ![l].at = "closing", ![l].failed = "other"]
        BY <2>3, <3>2 DEF Flight, Failures
      <3> QED
        BY <1>14, <3>1, <3>2 DEF EndTask
    <2>5. failed' \in 0..MaxFailures /\ changes' \in 0..MaxChanges /\ outages' \in 0..MaxOutages
      BY <1>14 DEF EndTask, Failing, bounds
    <2> QED
      BY <1>14, <2>2, <2>4, <2>5 DEF EndTask, supervisor
  <1>15. ASSUME NEW l \in Loops, Alive(l), Close(l) PROVE TypeOK'
    <2>1. flight[l] \in Flight /\ l[1] \in Workspaces
      BY <1>15 DEF Alive, Loops
    <2>2. PICK kind \in Failures : EndsWith(l, kind)
      BY <1>15, <2>1 DEF Close, Flight
    <2>3. flight' \in [Loops -> Flight \cup {None}]
      BY <2>1, <2>2 DEF EndsWith, Flight, Failures
    <2>4. streak' \in [Workspaces -> Nat] /\ rest' \in [Workspaces -> 0..CredentialRetry]
      <3>1. CASE flight[l].aborted
        BY <2>2, <3>1 DEF EndsWith, Counts
      <3>2. CASE ~flight[l].aborted
        <4> DEFINE row == IF kind = "credential" THEN streak[l[1]] + 1 ELSE 0
                   left == IF row >= CredentialLimit THEN CredentialRetry ELSE 0
        <4>1. streak' = [streak EXCEPT ![l[1]] = row] /\ rest' = [rest EXCEPT ![l[1]] = left]
          BY <2>2, <3>2 DEF EndsWith, Counts
        <4>2. row \in Nat /\ left \in 0..CredentialRetry
          BY SMTT(60), <2>1
        <4> QED
          BY <4>1, <4>2
      <3> QED
        BY <3>1, <3>2
    <2> QED
      BY <1>15, <2>3, <2>4 DEF Close, Failing, supervisor, bounds
  <1>16. ASSUME NEW l \in Loops, Alive(l), OpenFails(l) PROVE TypeOK'
    <2>1. flight[l] \in Flight /\ l[1] \in Workspaces
      BY <1>16 DEF Alive, Loops
    <2>2. PICK kind \in Failures : EndsWith(l, kind)
      BY <1>16, <2>1 DEF OpenFails, Flight
    <2>3. flight' \in [Loops -> Flight \cup {None}]
      BY <2>1, <2>2 DEF EndsWith, Flight, Failures
    <2>4. streak' \in [Workspaces -> Nat] /\ rest' \in [Workspaces -> 0..CredentialRetry]
      <3>1. CASE flight[l].aborted
        BY <2>2, <3>1 DEF EndsWith, Counts
      <3>2. CASE ~flight[l].aborted
        <4> DEFINE row == IF kind = "credential" THEN streak[l[1]] + 1 ELSE 0
                   left == IF row >= CredentialLimit THEN CredentialRetry ELSE 0
        <4>1. streak' = [streak EXCEPT ![l[1]] = row] /\ rest' = [rest EXCEPT ![l[1]] = left]
          BY <2>2, <3>2 DEF EndsWith, Counts
        <4>2. row \in Nat /\ left \in 0..CredentialRetry
          BY SMTT(60), <2>1
        <4> QED
          BY <4>1, <4>2
      <3> QED
        BY <3>1, <3>2
    <2> QED
      BY SMTT(60), <1>16, <2>3, <2>4 DEF OpenFails, Failing, supervisor, bounds
  <1>17. ASSUME NEW l \in Loops, Alive(l), CycleFails(l) PROVE TypeOK'
    <2>1. flight[l] \in Flight
      BY <1>17 DEF Alive
    <2>2. flight' \in [Loops -> Flight \cup {None}]
      BY <1>17, <2>1 DEF CycleFails, Flight, Failures
    <2>3. failed' \in 0..MaxFailures
      BY SMTT(60), <1>17 DEF CycleFails, Failing
    <2> QED
      BY <1>17, <2>2, <2>3 DEF CycleFails, supervisor, bounds
  <1> QED
    BY <1>1, <1>2, <1>3, <1>4, <1>5, <1>6, <1>7, <1>8, <1>9, <1>10, <1>11, <1>12, <1>13, <1>14,
       <1>15, <1>16, <1>17 DEF Next, Supervisor, Progress

\* What a step of a loop leaves alone: all but where that loop is and whether
\* it has failed.
LEMMA LoopStep ==
    ASSUME SupervisionInv, NEW l \in Loops, Alive(l), Progress(l) \/ OpenFails(l) \/ CycleFails(l)
    PROVE  /\ \E r \in Flight : /\ flight' = [flight EXCEPT ![l] = r]
                                /\ r.path = flight[l].path /\ r.aborted = flight[l].aborted
           /\ UNCHANGED <<workers, pc, stopped, trusted, authorized>>
  <1> USE DEF supervisor
  <1>1. flight[l] \in Flight /\ flight \in [Loops -> Flight \cup {None}]
    BY DEF Alive, SupervisionInv, TypeOK
  <1> DEFINE At(at) == [flight[l] EXCEPT !.at = at]
             Fails(at, kind) == [flight[l] EXCEPT !.at = at, !.failed = kind]
  <1>2. \A at \in {"cycle", "done", "poll", "closing", "queued", "task"} :
          /\ At(at) \in Flight /\ At(at).path = flight[l].path /\ At(at).aborted = flight[l].aborted
          /\ GoesTo(l, at) => flight' = [flight EXCEPT ![l] = At(at)]
    BY <1>1 DEF Flight, GoesTo
  <1>3. \A at \in {"done", "closing"}, kind \in Failures :
          /\ Fails(at, kind) \in Flight /\ Fails(at, kind).path = flight[l].path
          /\ Fails(at, kind).aborted = flight[l].aborted
    BY <1>1 DEF Flight
  <1>4. ASSUME NEW kind \in Failures, EndsWith(l, kind)
        PROVE  \E k \in Failures : flight' = [flight EXCEPT ![l] = Fails("done", k)]
    <2>1. (IF flight[l].aborted THEN "no" ELSE kind) \in Failures
      BY DEF Failures
    <2> QED
      BY <1>1, <1>4, <2>1 DEF EndsWith
  <1>5. CASE Open(l)
    BY <1>2, <1>5 DEF Open
  <1>6. CASE StartCycle(l)
    BY <1>2, <1>6 DEF StartCycle
  <1>7. CASE QueueUp(l)
    BY <1>2, <1>7 DEF QueueUp
  <1>8. CASE TakeTurn(l)
    BY <1>2, <1>8 DEF TakeTurn
  <1>9. CASE EndTask(l)
    <2>1. CASE GoesTo(l, "cycle")
      BY <1>2, <1>9, <2>1 DEF EndTask
    <2>2. CASE flight' = [flight EXCEPT ![l].at = "closing", ![l].failed = "other"]
      <3>1. flight' = [flight EXCEPT ![l] = Fails("closing", "other")]
        BY <1>1, <2>2
      <3> QED
        BY <1>3, <1>9, <3>1 DEF EndTask, Failures
    <2> QED
      BY <1>9, <2>1, <2>2 DEF EndTask
  <1>10. CASE Close(l)
    <2>1. flight[l].failed \in Failures
      BY <1>1 DEF Flight
    <2> QED
      BY <1>3, <1>4, <1>10, <2>1 DEF Close
  <1>11. CASE OpenFails(l)
    BY <1>3, <1>4, <1>11 DEF OpenFails
  <1>12. CASE CycleFails(l)
    <2>1. flight' = [flight EXCEPT ![l] = Fails("closing", "other")]
      BY <1>1, <1>12 DEF CycleFails
    <2> QED
      BY <1>3, <1>12, <2>1 DEF CycleFails, Failures
  <1> QED
    BY <1>5, <1>6, <1>7, <1>8, <1>9, <1>10, <1>11, <1>12 DEF Progress

\* What aborting every worker in the map changes: no loop that runs is left
\* unaborted, and nothing else.
LEMMA AbortAll ==
    ASSUME SupervisionInv, flight' = AbortWorkers(flight, {w \in Workspaces : Mapped(w)})
    PROVE  \A l \in Loops :
             /\ flight'[l] = None <=> flight[l] = None
             /\ flight[l] # None =>
                  flight'[l].at = flight[l].at /\ flight'[l].path = flight[l].path
             /\ Alive(l)' <=> Alive(l)
             /\ Alive(l) => flight'[l].aborted
  <1> SUFFICES ASSUME NEW l \in Loops
               PROVE  /\ flight'[l] = None <=> flight[l] = None
                      /\ flight[l] # None =>
                           flight'[l].at = flight[l].at /\ flight'[l].path = flight[l].path
                      /\ Alive(l)' <=> Alive(l)
                      /\ Alive(l) => flight'[l].aborted
    OBVIOUS
  <1> DEFINE ids == {w \in Workspaces : Mapped(w)}
  <1>1. /\ flight[l] = None => flight'[l] = None
        /\ flight[l] # None =>
             /\ flight'[l] \in Flight
             /\ flight'[l].at = flight[l].at /\ flight'[l].path = flight[l].path
             /\ flight'[l].aborted = (flight[l].aborted \/ (l[1] \in ids /\ workers[l[1]] = l[2]))
    BY AbortChanges DEF SupervisionInv
  <1>2. Alive(l) => l[1] \in ids /\ workers[l[1]] = l[2]
    BY NoneIsNothing DEF SupervisionInv, InMap, Mapped, Loops
  <1> QED
    BY <1>1, <1>2, NoneIsNothing DEF Alive

\* What a refresh does to a loop: it runs on, or it is new, or it has ended.
LEMMA ApplyStep ==
    ASSUME SupervisionInv, Apply, NEW l \in Loops
    PROVE  \/ /\ Alive(l) /\ Alive(l)'
              /\ l[1] \notin Starting /\ workers'[l[1]] = l[2]
              /\ flight'[l].at = flight[l].at /\ flight'[l].path = flight[l].path
              /\ ~flight'[l].aborted => rows[l[1]] = flight[l].path
           \/ /\ ~Alive(l) /\ l[1] \in Starting /\ l[2] = FreeSlot(l[1])
              /\ flight'[l] = NewFlight(l[1]) /\ flight'[l] # None /\ workers'[l[1]] = l[2]
           \/ ~Alive(l) /\ ~Alive(l)' /\ ~(l[1] \in Starting /\ l[2] = FreeSlot(l[1]))
  <1> DEFINE w == l[1]
             F == AbortWorkers(flight, Unregistered)
  <1>1. l = <<w, l[2]>> /\ w \in Workspaces /\ l[2] \in Slots /\ l[2] # None
    BY NoneIsNothing DEF Loops
  <1>2. /\ flight[l] \in Flight \cup {None} /\ workers \in [Workspaces -> Slots \cup {None}]
        /\ rows \in Registrations
    BY DEF SupervisionInv, TypeOK
  <1>3. /\ F[l] \in Flight \cup {None}
        /\ flight[l] = None => F[l] = None
        /\ flight[l] # None =>
             /\ F[l] \in Flight
             /\ F[l].at = flight[l].at /\ F[l].path = flight[l].path
             /\ F[l].aborted = (flight[l].aborted \/ (w \in Unregistered /\ workers[w] = l[2]))
    BY AbortChanges DEF SupervisionInv, Unregistered
  <1>4. w \in Starting => NewFlight(w) \in Flight /\ NewFlight(w) # None
    <2>1. w \in Starting => rows[w] \in Paths
      BY <1>1, <1>2 DEF Starting, Registrations
    <2>2. w \in Starting => NewFlight(w) \in Flight
      BY <2>1 DEF NewFlight, Flight, Failures
    <2> QED
      BY <2>2, NoneIsNothing
  <1>5. CASE Alive(l)
    <2>1. Mapped(w) /\ workers[w] = l[2] /\ WorkerOf(w) = flight[l]
      BY <1>1, <1>5 DEF SupervisionInv, InMap, Mapped, WorkerOf
    <2>2. w \notin Reaped /\ w \notin Starting
      BY <1>5, <2>1 DEF Reaped, Ended, Alive, Starting
    <2>3. flight'[l] = F[l] /\ workers'[w] = workers[w]
      BY <1>1, <2>2 DEF Apply
    <2>4. flight[l] # None /\ flight[l].at # "done"
      BY <1>5 DEF Alive
    <2>5. ~flight'[l].aborted => rows[w] = flight[l].path
      BY <1>1, <1>3, <2>1, <2>3, <2>4 DEF Unregistered
    <2> QED
      BY <1>3, <1>5, <2>1, <2>2, <2>3, <2>4, <2>5, NoneIsNothing DEF Alive
  <1>6. CASE ~Alive(l) /\ w \in Starting /\ l[2] = FreeSlot(w)
    BY <1>1, <1>4, <1>6 DEF Apply
  <1>7. CASE ~Alive(l) /\ ~(w \in Starting /\ l[2] = FreeSlot(w))
    <2>1. flight'[l] \in {None, F[l]}
      BY <1>1, <1>7 DEF Apply
    <2> QED
      BY <1>3, <1>7, <2>1, NoneIsNothing DEF Alive
  <1> QED
    BY <1>5, <1>6, <1>7

LEMMA InMapStep == ASSUME SupervisionInv, Next PROVE InMap'
  <1>0. /\ \A w \in Workspaces, s \in Slots : <<w, s>> \in Loops
        /\ \A l \in Loops : l[1] \in Workspaces /\ l[2] \in Slots /\ l = <<l[1], l[2]>>
        /\ workers \in [Workspaces -> Slots \cup {None}]
    BY DEF Loops, SupervisionInv, TypeOK
  <1>1. CASE Apply
    <2>1. ASSUME NEW w \in Workspaces, Mapped(w)' PROVE flight'[<<w, workers'[w]>>] # None
      <3>1. CASE w \in Starting
        <4>1. workers'[w] = FreeSlot(w) /\ FreeSlot(w) \in Slots
          BY <1>1, <3>1 DEF Apply, FreeSlot, Slots
        <4>2. flight'[<<w, FreeSlot(w)>>] = NewFlight(w)
          BY <1>0, <1>1, <3>1, <4>1 DEF Apply
        <4>3. NewFlight(w) \in Flight
          BY <3>1 DEF Starting, NewFlight, Flight, Registrations, Failures, SupervisionInv, TypeOK
        <4> QED
          BY <4>1, <4>2, <4>3, NoneIsNothing
      <3>2. CASE w \notin Starting
        <4>1. w \notin Reaped /\ workers'[w] = workers[w] /\ Mapped(w)
          BY <1>1, <2>1, <3>2 DEF Apply, Mapped
        <4>2. Alive(<<w, workers[w]>>) /\ <<w, workers[w]>> \in Loops
          BY <1>0, <4>1 DEF Reaped, Ended, WorkerOf, Alive, SupervisionInv, InMap, Mapped
        <4>3. Alive(<<w, workers[w]>>)'
          BY <1>1, <3>2, <4>2, ApplyStep
        <4> QED
          BY <4>1, <4>3 DEF Alive
      <3> QED
        BY <3>1, <3>2
    <2>2. ASSUME NEW l \in Loops, Alive(l)' PROVE workers'[l[1]] = l[2]
      BY <1>1, <2>2, ApplyStep
    <2> QED
      BY <2>1, <2>2 DEF InMap, WorkerOf
  <1>2. CASE ReadFails \/ Return \/ Stop
    <2>1. flight' = AbortWorkers(flight, {w \in Workspaces : Mapped(w)}) /\ workers' = workers
      BY <1>2 DEF ReadFails, Return, Stop, supervisor
    <2> QED
      BY <1>0, <2>1, AbortAll DEF SupervisionInv, InMap, WorkerOf, Mapped
  <1>3. CASE ReadRegistrations \/ NextPeriod \/ Interrupted \/ Change \/ Tick
    BY <1>3 DEF ReadRegistrations, NextPeriod, Interrupted, Change, Tick, supervisor,
                SupervisionInv, InMap, WorkerOf, Mapped, Alive
  <1>4. ASSUME NEW l \in Loops, Alive(l), Progress(l) \/ OpenFails(l) \/ CycleFails(l) PROVE InMap'
    <2>1. PICK r \in Flight : flight' = [flight EXCEPT ![l] = r]
      BY <1>4, LoopStep
    <2>2. workers' = workers /\ flight \in [Loops -> Flight \cup {None}]
      BY <1>4, LoopStep DEF SupervisionInv, TypeOK
    <2> QED
      BY <1>0, <1>4, <2>1, <2>2, NoneIsNothing DEF SupervisionInv, InMap, WorkerOf, Mapped, Alive
  <1> QED
    BY <1>1, <1>2, <1>3, <1>4 DEF Next, Supervisor

LEMMA RunsRegisteredStep == ASSUME SupervisionInv, Next PROVE RunsRegistered'
  <1>1. CASE Apply
    <2> SUFFICES ASSUME NEW l \in Loops, Alive(l)', ~flight'[l].aborted
                 PROVE  ~stopped' /\ trusted' /\ authorized'[l[1]] = flight'[l].path
      BY DEF RunsRegistered
    <2>1. ~stopped' /\ trusted' /\ authorized' = rows
      BY <1>1 DEF Apply
    <2>2. rows[l[1]] = flight'[l].path
      <3>1. CASE Alive(l)
        BY <1>1, <3>1, ApplyStep
      <3>2. CASE ~Alive(l)
        <4>1. flight'[l] = NewFlight(l[1])
          BY <1>1, <3>2, ApplyStep
        <4> QED
          BY <4>1 DEF NewFlight
      <3> QED
        BY <3>1, <3>2
    <2> QED
      BY <2>1, <2>2
  <1>2. CASE ReadFails \/ Return \/ Stop
    <2>1. flight' = AbortWorkers(flight, {w \in Workspaces : Mapped(w)})
      BY <1>2 DEF ReadFails, Return, Stop
    <2> QED
      BY <2>1, AbortAll DEF RunsRegistered
  <1>3. CASE ReadRegistrations \/ NextPeriod \/ Interrupted \/ Change \/ Tick
    BY <1>3 DEF ReadRegistrations, NextPeriod, Interrupted, Change, Tick, supervisor,
                SupervisionInv, RunsRegistered, Alive
  <1>4. ASSUME NEW l \in Loops, Alive(l), Progress(l) \/ OpenFails(l) \/ CycleFails(l)
        PROVE  RunsRegistered'
    <2>1. PICK r \in Flight : /\ flight' = [flight EXCEPT ![l] = r]
                              /\ r.path = flight[l].path /\ r.aborted = flight[l].aborted
      BY <1>4, LoopStep
    <2>2. /\ UNCHANGED <<stopped, trusted, authorized>>
          /\ flight \in [Loops -> Flight \cup {None}]
      BY <1>4, LoopStep DEF SupervisionInv, TypeOK
    <2> QED
      BY <1>4, <2>1, <2>2 DEF SupervisionInv, RunsRegistered, Alive
  <1> QED
    BY <1>1, <1>2, <1>3, <1>4 DEF Next, Supervisor

LEMMA AllEndedStep == ASSUME SupervisionInv, Next PROVE AllEnded'
  <1>1. CASE pc # "returned" /\ ~Return
    <2>1. ASSUME NEW l \in Loops, Alive(l), Progress(l) \/ OpenFails(l) \/ CycleFails(l) PROVE pc' = pc
      BY <2>1, LoopStep
    <2>2. pc' # "returned"
      BY <1>1, <2>1 DEF Next, Supervisor, ReadRegistrations, Apply, NextPeriod, Interrupted,
         ReadFails,
                        Stop, Change, Tick, supervisor
    <2> QED
      BY <2>2 DEF AllEnded
  <1>2. CASE (pc = "returned" /\ Stop) \/ Return
    <2>1. /\ flight' = AbortWorkers(flight, {w \in Workspaces : Mapped(w)})
          /\ workers' = workers
          /\ \A w \in Workspaces : Mapped(w) => Ended(w)
      BY <1>2 DEF Stop, Return, supervisor, SupervisionInv, AllEnded
    <2> SUFFICES ASSUME NEW w \in Workspaces, Mapped(w)' PROVE Ended(w)'
      BY DEF AllEnded
    <2>2. Ended(w) /\ <<w, workers[w]>> \in Loops /\ flight[<<w, workers[w]>>] # None
      BY <2>1 DEF Mapped, SupervisionInv, TypeOK, InMap, WorkerOf, Loops
    <2>3. flight'[<<w, workers[w]>>].at = "done"
      BY <2>1, <2>2, AbortAll DEF Ended, WorkerOf
    <2> QED
      BY <2>1, <2>3 DEF Ended, WorkerOf, Mapped
  <1>3. CASE pc = "returned" /\ ~Stop
    <2>1. \A l \in Loops : ~Alive(l)
      <3> SUFFICES ASSUME NEW l \in Loops, Alive(l) PROVE FALSE
        OBVIOUS
      <3>1. l[1] \in Workspaces /\ l = <<l[1], l[2]>> /\ l[2] \in Slots /\ workers[l[1]] = l[2]
        BY DEF Loops, SupervisionInv, InMap
      <3>2. Ended(l[1])
        BY <1>3, <3>1, NoneIsNothing DEF SupervisionInv, AllEnded, Mapped
      <3> QED
        BY <3>1, <3>2 DEF Ended, WorkerOf, Alive
    <2>2. Change \/ Tick
      BY <1>3, <2>1 DEF Next, Supervisor, ReadRegistrations, Apply, NextPeriod, Interrupted,
         ReadFails, Return
    <2> QED
      BY <2>2 DEF Change, Tick, supervisor, SupervisionInv, AllEnded, Ended, Mapped, WorkerOf
  <1> QED
    BY <1>1, <1>2, <1>3

\* Where a loop is does not change for those that a step does not move.
LEMMA QueueStep == ASSUME SupervisionInv, Next PROVE QueueMatches' /\ OneTaskAtATime'
  <1> USE DEF SupervisionInv
  <1>0. queue \in Seq(Loops) /\ flight \in [Loops -> Flight \cup {None}]
    BY DEF TypeOK
  <1>1. ASSUME queue' = queue,
               \A l \in Loops : (Alive(l) /\ flight[l].at \in {"queued", "task"})
                  => Alive(l)' /\ flight'[l].at = flight[l].at,
               \A l \in Loops : (Alive(l)' /\ flight'[l].at = "task") => Alive(l) /\ flight[l].at = "task"
        PROVE  QueueMatches' /\ OneTaskAtATime'
    <2>1. \A i \in DOMAIN queue : queue[i] \in Loops
      BY <1>0
    <2>2. QueueMatches'
      BY <1>1, <2>1 DEF QueueMatches
    <2>3. OneTaskAtATime'
      BY <1>1 DEF OneTaskAtATime
    <2> QED
      BY <2>2, <2>3
  <1>2. CASE Apply
    <2>1. \A l \in Loops : Alive(l) => Alive(l)' /\ flight'[l].at = flight[l].at
      BY <1>2, ApplyStep
    <2>2. ASSUME NEW l \in Loops, Alive(l)', flight'[l].at = "task" PROVE Alive(l) /\ flight[l].at = "task"
      <3>1. Alive(l)
        <4> SUFFICES ASSUME ~Alive(l) PROVE FALSE
          OBVIOUS
        <4>1. flight'[l] = NewFlight(l[1])
          BY <1>2, <2>2, ApplyStep
        <4> QED
          BY <2>2, <4>1 DEF NewFlight
      <3> QED
        BY <2>1, <2>2, <3>1
    <2>3. queue' = queue
      BY <1>2 DEF Apply
    <2> QED
      BY <1>1, <2>1, <2>2, <2>3
  <1>3. CASE ReadFails \/ Return \/ Stop
    <2>1. flight' = AbortWorkers(flight, {w \in Workspaces : Mapped(w)}) /\ queue' = queue
      BY <1>3 DEF ReadFails, Return, Stop
    <2>2. \A l \in Loops : (Alive(l)' <=> Alive(l)) /\ (Alive(l) => flight'[l].at = flight[l].at)
      BY <2>1, AbortAll DEF Alive
    <2> QED
      BY <1>1, <2>1, <2>2
  <1>4. CASE ReadRegistrations \/ NextPeriod \/ Interrupted \/ Change \/ Tick
    <2>1. queue' = queue /\ flight' = flight
      BY <1>4 DEF ReadRegistrations, NextPeriod, Interrupted, Change, Tick
    <2> QED
      BY <1>1, <2>1 DEF Alive
  <1>5. ASSUME NEW l \in Loops, Alive(l), Progress(l) \/ OpenFails(l) \/ CycleFails(l)
        PROVE  QueueMatches' /\ OneTaskAtATime'
    <2>1. PICK r \in Flight : flight' = [flight EXCEPT ![l] = r]
      BY <1>5, LoopStep
    <2>2. flight[l] \in Flight /\ r # None /\ flight[l] # None /\ flight'[l] = r
      BY <1>0, <1>5, <2>1, NoneIsNothing DEF Alive
    <2>3. \A o \in Loops \ {l} : flight'[o] = flight[o] /\ (Alive(o)' <=> Alive(o))
      BY <1>0, <2>1 DEF Alive
    <2>4. CASE Open(l) \/ StartCycle(l) \/ Close(l) \/ OpenFails(l) \/ CycleFails(l)
      <3>1. queue' = queue /\ flight[l].at \notin {"queued", "task"}
        BY <2>4 DEF Open, StartCycle, Close, OpenFails, CycleFails
      <3>2. r.at \notin {"queued", "task"}
        BY <1>0, <2>2, <2>4 DEF Open, StartCycle, Close, OpenFails, CycleFails, GoesTo, EndsWith,
           Flight
      <3> QED
        BY <1>1, <2>2, <2>3, <3>1, <3>2
    <2>5. CASE QueueUp(l)
      <3>1. queue' = Append(queue, l) /\ flight[l].at = "poll" /\ r.at = "queued" /\ Alive(l)'
        BY <1>0, <2>2, <2>5 DEF QueueUp, GoesTo, Flight, Alive
      <3>2. \A i \in DOMAIN queue : queue[i] \in Loops \ {l}
        BY <1>0, <3>1 DEF QueueMatches
      <3>3. DOMAIN queue' = DOMAIN queue \cup {Len(queue) + 1}
            /\ queue'[Len(queue) + 1] = l /\ \A i \in DOMAIN queue : queue'[i] = queue[i]
        BY <1>0, <3>1
      <3>4. QueueMatches'
        BY <2>2, <2>3, <3>1, <3>2, <3>3 DEF QueueMatches
      <3>5. ASSUME NEW o \in Loops, Alive(o)', flight'[o].at = "task"
            PROVE  queue' # <<>> /\ Head(queue') = o
        <4>1. o # l /\ Alive(o) /\ flight[o].at = "task"
          BY <2>2, <2>3, <3>1, <3>5
        <4>2. queue # <<>> /\ Head(queue) = o
          BY <4>1 DEF OneTaskAtATime
        <4> QED
          BY <1>0, <3>1, <4>2
      <3> QED
        BY <3>4, <3>5 DEF OneTaskAtATime
    <2>6. CASE TakeTurn(l) /\ ~flight[l].aborted
      <3>1. queue' = queue /\ queue # <<>> /\ Head(queue) = l /\ r.at = "task" /\ Alive(l)'
        BY <1>0, <2>2, <2>6 DEF TakeTurn, GoesTo, Flight, Alive
      <3>2. QueueMatches'
        BY <1>0, <2>2, <2>3, <3>1 DEF QueueMatches
      <3>3. \A o \in Loops : Alive(o)' /\ flight'[o].at = "task" => Head(queue) = o
        BY <2>3, <3>1 DEF OneTaskAtATime
      <3> QED
        BY <3>1, <3>2, <3>3 DEF OneTaskAtATime
    <2>7. CASE EndTask(l) \/ (TakeTurn(l) /\ flight[l].aborted)
      <3>1. queue' = Tail(queue) /\ queue # <<>> /\ Head(queue) = l
        BY <1>5, <2>7 DEF TakeTurn, EndTask, OneTaskAtATime
      <3>2. r.at \notin {"queued", "task"}
        BY <1>0, <2>2, <2>7 DEF TakeTurn, EndTask, GoesTo, Flight
      <3>3. DOMAIN queue = 1..Len(queue) /\ DOMAIN queue' = 1..(Len(queue) - 1) /\ Len(queue) \in Nat \ {0}
            /\ queue[1] = l /\ \A i \in DOMAIN queue' : queue'[i] = queue[i + 1]
        BY <1>0, <3>1
      <3>4. ASSUME NEW i \in DOMAIN queue'
            PROVE  queue'[i] \in Loops \ {l} /\ i + 1 \in DOMAIN queue /\ i \in Nat
        <4>1. i + 1 \in DOMAIN queue /\ 1 \in DOMAIN queue /\ i + 1 # 1 /\ i \in Nat
          BY <3>3
        <4> QED
          BY <1>0, <3>3, <4>1 DEF QueueMatches
      <3>5. ASSUME NEW i \in DOMAIN queue'
            PROVE  Alive(queue[i])' /\ flight'[queue'[i]].at \in {"queued", "task"}
        <4>1. Alive(queue[i + 1]) /\ flight[queue[i + 1]].at \in {"queued", "task"} /\ queue'[i] = queue[i + 1]
          BY <3>3, <3>4 DEF QueueMatches
        <4> QED
          BY <2>3, <3>4, <4>1
      <3>6. ASSUME NEW i \in DOMAIN queue', NEW j \in DOMAIN queue', queue'[i] = queue'[j] PROVE i = j
        <4>1. i + 1 = j + 1
          BY <3>3, <3>4, <3>6 DEF QueueMatches
        <4> QED
          BY <3>4, <4>1
      <3>7. \A o \in Loops : ~(Alive(o)' /\ flight'[o].at = "task")
        BY <2>2, <2>3, <3>1, <3>2 DEF OneTaskAtATime
      <3> QED
        BY <3>5, <3>6, <3>7 DEF QueueMatches, OneTaskAtATime
    <2> QED
      BY <1>5, <2>4, <2>5, <2>6, <2>7 DEF Progress
  <1> QED
    BY <1>2, <1>3, <1>4, <1>5 DEF Next, Supervisor

\* The inductive invariant holds in every behaviour.
THEOREM SupervisionHolds == Spec => []SupervisionInv
  <1>1. Init => SupervisionInv
    <2> SUFFICES ASSUME Init PROVE SupervisionInv
      OBVIOUS
    <2>1. \A l \in Loops : ~Alive(l)
      BY DEF Init, Alive
    <2>2. TypeOK
      <3>1. NoBackoff \in Backoff /\ queue \in Seq(Loops)
        BY DEF NoBackoff, Backoff, Init
      <3>2. Nobody \in Registrations /\ Nobody \in [Workspaces -> Slots \cup {None}]
        BY DEF Nobody, Registrations
      <3>3. {0} \subseteq 0..MaxFailures \cap 0..MaxChanges \cap 0..MaxOutages \cap 0..CredentialRetry
        BY SupervisionAssumption
      <3> QED
        BY <3>1, <3>2, <3>3 DEF Init, TypeOK
    <2>3. InMap
      BY <2>1 DEF Init, InMap, Mapped, Nobody
    <2> QED
      BY <2>1, <2>2, <2>3 DEF Init, SupervisionInv, QueueMatches, RunsRegistered, OneTaskAtATime,
         AllEnded
  <1>2. SupervisionInv /\ [Next]_vars => SupervisionInv'
    <2>1. CASE SupervisionInv /\ Next
      BY <2>1, TypeStep, InMapStep, RunsRegisteredStep, AllEndedStep, QueueStep DEF SupervisionInv
    <2>2. CASE SupervisionInv /\ UNCHANGED vars
      BY <2>2 DEF vars, supervisor, bounds, SupervisionInv, TypeOK, InMap, Mapped, WorkerOf, Alive,
                  QueueMatches, RunsRegistered, OneTaskAtATime, AllEnded, Ended
    <2> QED
      BY <2>1, <2>2
  <1> QED
    BY <1>1, <1>2, PTL DEF Spec

\* A workspace never has two loops (repositoryRelaySupervisor.ts, the map of
\* workers and the test of done before one is deleted from it).
THEOREM OneLoopEach == Spec => []OneLoopPerWorkspace
  <1>1. SupervisionInv => OneLoopPerWorkspace
    BY DEF SupervisionInv, InMap, OneLoopPerWorkspace, Loops, Slots
  <1> QED
    BY <1>1, SupervisionHolds, PTL

\* The device runs one task at a time (serializeRelayWork), whatever loops
\* come, fail and are aborted.
THEOREM TasksTakeTurns == Spec => []OneTaskAtATime
  <1>1. SupervisionInv => OneTaskAtATime
    BY DEF SupervisionInv
  <1> QED
    BY <1>1, SupervisionHolds, PTL

\* Nothing runs and nothing is queued once the supervisor has returned.
THEOREM ReturnsQuietly == Spec => []QuietAfterReturn
  <1>1. SupervisionInv => QuietAfterReturn
    <2> SUFFICES ASSUME SupervisionInv, pc = "returned" PROVE queue = <<>> /\ \A l \in Loops : ~Alive(l)
      BY DEF QuietAfterReturn
    <2>1. \A l \in Loops : ~Alive(l)
      <3> SUFFICES ASSUME NEW l \in Loops, Alive(l) PROVE FALSE
        OBVIOUS
      <3>1. l[1] \in Workspaces /\ l = <<l[1], l[2]>> /\ l[2] \in Slots /\ workers[l[1]] = l[2]
        BY DEF Loops, SupervisionInv, InMap
      <3>2. Ended(l[1])
        BY <3>1, NoneIsNothing DEF SupervisionInv, AllEnded, Mapped
      <3> QED
        BY <3>1, <3>2 DEF Ended, WorkerOf, Alive
    <2>2. queue \in Seq(Loops) /\ \A i \in DOMAIN queue : queue[i] \in Loops /\ Alive(queue[i])
      BY DEF SupervisionInv, TypeOK, QueueMatches
    <2>3. DOMAIN queue = {}
      BY <2>1, <2>2
    <2> QED
      BY <2>1, <2>2, <2>3
  <1> QED
    BY <1>1, SupervisionHolds, PTL

\* All of it together, as the run checks it.
THEOREM RelayIsSafe == Spec => []RelaySafe
  <1>1. SupervisionInv => TypeOK
    BY DEF SupervisionInv
  <1> QED
    BY <1>1, SupervisionHolds, OneLoopEach, TasksTakeTurns, ReturnsQuietly, PTL DEF RelaySafe

\* A task starts only in a loop whose registration the last refresh has
\* confirmed, with no failed reading and no stop since.
THEOREM TasksAuthorized == Spec => AuthorizedTasks
  <1>1. SupervisionInv /\ [Next]_vars =>
          [\A l \in Loops : StartsTask(l) => ~stopped /\ trusted /\ authorized[l[1]] = flight[l].path]_vars
    <2> SUFFICES ASSUME SupervisionInv, Next, NEW l \in Loops, StartsTask(l)
                 PROVE  ~stopped /\ trusted /\ authorized[l[1]] = flight[l].path
      OBVIOUS
    <2>1. flight[l] \in Flight /\ flight[l].at = "queued" /\ flight'[l].at = "task" /\ Alive(l)
          /\ flight \in [Loops -> Flight \cup {None}]
      BY DEF StartsTask, Alive, SupervisionInv, TypeOK
    <2>2. ~Apply
      BY <2>1, ApplyStep
    <2>3. ~(ReadFails \/ Return \/ Stop)
      BY <2>1, AbortAll DEF ReadFails, Return, Stop, Alive
    <2>4. ~(ReadRegistrations \/ NextPeriod \/ Interrupted \/ Change \/ Tick)
      BY <2>1 DEF ReadRegistrations, NextPeriod, Interrupted, Change, Tick
    <2>5. PICK o \in Loops : Alive(o) /\ (Progress(o) \/ OpenFails(o) \/ CycleFails(o))
      BY <2>2, <2>3, <2>4 DEF Next, Supervisor
    <2>6. o = l
      <3>1. PICK r \in Flight : flight' = [flight EXCEPT ![o] = r]
        BY <2>5, LoopStep
      <3> QED
        BY <2>1, <3>1
    <2>7. TakeTurn(l)
      BY <2>1, <2>5, <2>6 DEF Progress, Open, StartCycle, QueueUp, EndTask, Close, OpenFails,
         CycleFails
    <2>8. ~flight[l].aborted
      BY <2>1, <2>7 DEF TakeTurn, GoesTo, Flight
    <2> QED
      BY <2>1, <2>8 DEF SupervisionInv, RunsRegistered
  <1> QED
    BY <1>1, SupervisionHolds, PTL DEF Spec, AuthorizedTasks

-----------------------------------------------------------------------------
(* RelayPresence, for any devices, sockets and gateways and any number of  *)
(* messages, time limits, lost connections and dead gateways: messages are *)
(* answered once and in order, HQ is asked for recorded devices only, and  *)
(* a socket takes back no presence but its own.                            *)

CONSTANTS Gateways, Sockets, Device, Gateway, MaxMessages, MaxFaults
VARIABLES presence, commands, ready, sock, received, current, stage, done, last, answers, recorded, faults

Presence == INSTANCE RelayPresence WITH queue <- commands

\* The chain of a socket handles its messages one after the other.
Chained ==
    \A s \in Sockets :
        /\ done[s] <= received[s]
        /\ current[s] # 0 => current[s] = done[s] + 1 /\ done[s] < received[s]
        /\ current[s] = 0 => stage[s] = "parse"
        /\ sock[s] = "new" => received[s] = 0

Counted ==
    \A s \in Sockets :
        /\ \A i \in DOMAIN answers[s] : answers[s][i][1] = i
        /\ sock[s] # "closed" => Len(answers[s]) = done[s]

\* What is on its way to Redis takes back the presence of closed sockets only.
TakesBack ==
    /\ \A s \in Sockets : last[s] # None => last[s][1] = s
    /\ \A g \in Gateways : \A i \in DOMAIN commands[g] :
           commands[g][i].op = "del" => sock[commands[g][i].value[1]] = "closed"

PresenceInv == Presence!TypeOK /\ Chained /\ Counted /\ Presence!RecordedFirst /\ TakesBack

LEMMA CommandSets ==
    ASSUME NEW c \in Presence!Commands
    PROVE  /\ c.op \in {"set", "del"} /\ c.value \in Presence!Values
           /\ c.value[1] \in Sockets /\ c.value[2] \in 1 .. MaxMessages
           /\ c.value = <<c.value[1], c.value[2]>>
           /\ Device[c.value[1]] \in Presence!Devices
  BY DEF Presence!Commands, Presence!Values, Presence!Devices

\* An answer ends the handling of a message, and counts it.
LEMMA AnswerCounts ==
    ASSUME Presence!PresenceAssumption, Presence!TypeOK, Chained, Counted, NEW s \in Sockets, NEW status \in {200, 400, 503},
           current[s] # 0, Presence!Answer(s, status), UNCHANGED <<sock, received>>
    PROVE  /\ answers' \in [Sockets -> Seq((1 .. MaxMessages) \X {200, 400, 503})]
           /\ current' = [current EXCEPT ![s] = 0] /\ current' \in [Sockets -> 0 .. MaxMessages]
           /\ done' \in [Sockets -> 0 .. MaxMessages]
           /\ stage' = [stage EXCEPT ![s] = "parse"] /\ stage' \in [Sockets -> Presence!Stages]
           /\ Chained' /\ Counted'
  <1>1. current[s] \in 1 .. MaxMessages /\ done[s] \in 0 .. MaxMessages /\ current[s] = done[s] + 1
        /\ done[s] < received[s] /\ received[s] \in 0 .. MaxMessages
    BY DEF Presence!TypeOK, Chained, Presence!PresenceAssumption
  <1>2. /\ current' = [current EXCEPT ![s] = 0] /\ done' = [done EXCEPT ![s] = current[s]]
        /\ stage' = [stage EXCEPT ![s] = "parse"]
    BY DEF Presence!Answer
  <1>3. /\ current' \in [Sockets -> 0 .. MaxMessages] /\ done' \in [Sockets -> 0 .. MaxMessages]
        /\ stage' \in [Sockets -> Presence!Stages]
    BY <1>1, <1>2 DEF Presence!TypeOK, Presence!Stages, Presence!PresenceAssumption
  <1>4. Chained'
    BY <1>1, <1>2 DEF Presence!TypeOK, Chained
  <1> DEFINE E == (1 .. MaxMessages) \X {200, 400, 503}
             a == <<current[s], status>>
  <1>5. a \in E /\ a[1] = current[s] /\ answers[s] \in Seq(E)
    BY <1>1 DEF Presence!TypeOK
  <1>6. CASE sock[s] = "open"
    <2>1. answers' = [answers EXCEPT ![s] = Append(@, a)]
      BY <1>6 DEF Presence!Answer
    <2> HIDE DEF E, a
    <2>2. Append(answers[s], a) \in Seq(E) /\ Len(Append(answers[s], a)) = Len(answers[s]) + 1
          /\ DOMAIN Append(answers[s], a) = 1 .. Len(answers[s]) + 1
          /\ \A i \in 1 .. Len(answers[s]) : Append(answers[s], a)[i] = answers[s][i]
          /\ Append(answers[s], a)[Len(answers[s]) + 1] = a
          /\ Len(answers[s]) \in Nat /\ DOMAIN answers[s] = 1 .. Len(answers[s])
      BY <1>5
    <2>3. answers' \in [Sockets -> Seq(E)]
      BY SMTT(60), <2>1, <2>2 DEF Presence!TypeOK, E
    <2>4. Len(answers[s]) = done[s]
      BY <1>6 DEF Counted
    <2>5. \A i \in DOMAIN answers'[s] : answers'[s][i][1] = i
      BY <2>1, <2>2, <2>4, <1>1, <1>5 DEF Counted, Presence!TypeOK
    <2>6. Len(answers'[s]) = done'[s]
      BY <2>1, <2>2, <2>4, <1>1, <1>2 DEF Presence!TypeOK
    <2>7. ASSUME NEW t \in Sockets, t # s PROVE answers'[t] = answers[t] /\ done'[t] = done[t]
      BY <2>1, <1>2, <2>7 DEF Presence!TypeOK
    <2>8. Counted'
      BY <2>5, <2>6, <2>7 DEF Counted
    <2> QED
      BY <1>2, <1>3, <1>4, <2>3, <2>8 DEF E
  <1>7. CASE sock[s] # "open"
    <2>1. answers' = answers /\ sock[s] = "closed"
      BY <1>1, <1>7 DEF Presence!Answer, Chained, Presence!TypeOK
    <2>2. Counted'
      BY <2>1, <1>2 DEF Counted, Presence!TypeOK
    <2> QED
      BY <1>2, <1>3, <1>4, <2>1, <2>2 DEF Presence!TypeOK
  <1> QED
    BY <1>6, <1>7

LEMMA PresenceBegins == ASSUME Presence!PresenceAssumption, Presence!Init PROVE PresenceInv
  <1>1. Presence!TypeOK
    BY DEF Presence!PresenceAssumption, Presence!Init, Presence!TypeOK, Presence!Stages,
       Presence!Values
  <1>2. Chained /\ Counted /\ Presence!RecordedFirst /\ TakesBack
    BY DEF Presence!Init, Chained, Counted, Presence!RecordedFirst, TakesBack
  <1> QED
    BY <1>1, <1>2 DEF PresenceInv

\* The steps of a socket.
LEMMA SocketSteps ==
    ASSUME Presence!PresenceAssumption, PresenceInv, NEW s \in Sockets,
           Presence!Connect(s) \/ Presence!Receive(s) \/ Presence!NextMessage(s)
    PROVE  PresenceInv'
  <1> USE DEF PresenceInv
  <1>1. CASE Presence!Connect(s)
    <2>1. Presence!TypeOK'
      BY SMTT(60), <1>1 DEF Presence!Connect, Presence!TypeOK, Presence!redis, Presence!chain
    <2>2. Chained' /\ Counted' /\ Presence!RecordedFirst' /\ TakesBack'
      BY <1>1 DEF Presence!Connect, Presence!TypeOK, Presence!redis, Presence!chain, Chained,
         Counted, Presence!RecordedFirst, TakesBack
    <2> QED
      BY <2>1, <2>2
  <1>2. CASE Presence!Receive(s)
    <2>1. Presence!TypeOK'
      BY SMTT(60), <1>2 DEF Presence!Receive, Presence!TypeOK, Presence!redis, Presence!chain,
         Presence!PresenceAssumption
    <2>2. Chained' /\ Counted' /\ Presence!RecordedFirst' /\ TakesBack'
      BY <1>2 DEF Presence!Receive, Presence!TypeOK, Presence!redis, Presence!chain, Chained,
         Counted, Presence!RecordedFirst, TakesBack
    <2> QED
      BY <2>1, <2>2
  <1>3. CASE Presence!NextMessage(s)
    <2>1. Presence!TypeOK'
      BY SMTT(60), <1>3 DEF Presence!NextMessage, Presence!TypeOK, Presence!redis,
         Presence!PresenceAssumption, Presence!Stages
    <2>2. Chained' /\ Counted' /\ TakesBack'
      BY <1>3 DEF Presence!NextMessage, Presence!TypeOK, Presence!redis, Chained, Counted, TakesBack
    <2>3. Presence!RecordedFirst'
      BY <1>3 DEF Presence!NextMessage, Presence!TypeOK, Presence!redis, Presence!RecordedFirst
    <2> QED
      BY <2>1, <2>2, <2>3
  <1> QED
    BY <1>1, <1>2, <1>3

LEMMA AnswerSteps ==
    ASSUME Presence!PresenceAssumption, PresenceInv, NEW s \in Sockets,
           Presence!Refuse(s) \/ Presence!Upstream(s) \/ Presence!TouchTimesOut(s)
    PROVE  PresenceInv'
  <1> USE DEF PresenceInv
  <1>1. PICK status \in {200, 400, 503} :
            current[s] # 0 /\ Presence!Answer(s, status) /\ UNCHANGED <<Presence!redis, sock, received, last>>
            /\ faults' \in 0 .. MaxFaults
    BY DEF Presence!Refuse, Presence!Upstream, Presence!TouchTimesOut, Presence!TypeOK,
       Presence!PresenceAssumption
  <1>2. UNCHANGED <<presence, commands, ready, recorded, sock, received, last>>
    BY <1>1 DEF Presence!redis
  <1>3. /\ answers' \in [Sockets -> Seq((1 .. MaxMessages) \X {200, 400, 503})]
        /\ current' = [current EXCEPT ![s] = 0] /\ current' \in [Sockets -> 0 .. MaxMessages]
        /\ done' \in [Sockets -> 0 .. MaxMessages]
        /\ stage' = [stage EXCEPT ![s] = "parse"] /\ stage' \in [Sockets -> Presence!Stages]
        /\ Chained' /\ Counted'
    BY SMTT(60), <1>1, <1>2, AnswerCounts
  <1>4. Presence!TypeOK'
    BY SMTT(60), <1>1, <1>2, <1>3 DEF Presence!TypeOK
  <1>5. Presence!RecordedFirst'
    BY SMTT(60), <1>2, <1>3 DEF Presence!RecordedFirst, Presence!TypeOK
  <1>6. TakesBack'
    BY <1>2 DEF TakesBack
  <1> QED
    BY <1>3, <1>4, <1>5, <1>6

\* A command at the end of a queue.
LEMMA CommandJoins ==
    ASSUME Presence!PresenceAssumption, Presence!TypeOK, TakesBack, NEW s \in Sockets, NEW op \in {"set", "del"}, NEW value \in Presence!Values,
           Presence!Command(s, op, value), UNCHANGED last, \A t \in Sockets : sock[t] = "closed" => sock'[t] = "closed",
           op = "del" => sock'[value[1]] = "closed"
    PROVE  commands' \in [Gateways -> Seq(Presence!Commands)] /\ TakesBack'
  <1> DEFINE g == Gateway[s]
             c == [op |-> op, value |-> value]
  <1>1. g \in Gateways /\ c \in Presence!Commands /\ commands[g] \in Seq(Presence!Commands)
    BY ZenonT(120) DEF Presence!PresenceAssumption, Presence!TypeOK, Presence!Commands
  <1>2. commands' = [commands EXCEPT ![g] = Append(@, c)]
    BY DEF Presence!Command
  <1>3. c.op = op /\ c.value = value
    OBVIOUS
  <1> HIDE DEF g, c
  <1>4. /\ Append(commands[g], c) \in Seq(Presence!Commands)
        /\ DOMAIN Append(commands[g], c) = 1 .. Len(commands[g]) + 1
        /\ \A i \in 1 .. Len(commands[g]) : Append(commands[g], c)[i] = commands[g][i] /\ commands[g][i] \in Presence!Commands
        /\ Append(commands[g], c)[Len(commands[g]) + 1] = c
        /\ Len(commands[g]) \in Nat /\ DOMAIN commands[g] = 1 .. Len(commands[g])
    BY <1>1
  <1>5. commands' \in [Gateways -> Seq(Presence!Commands)]
    BY ZenonT(120), <1>2, <1>4 DEF Presence!TypeOK
  <1>6. ASSUME NEW h \in Gateways, NEW i \in DOMAIN commands'[h], commands'[h][i].op = "del"
        PROVE  sock'[commands'[h][i].value[1]] = "closed"
    <2>1. CASE h = g /\ i = Len(commands[g]) + 1
      BY <2>1, <1>1, <1>2, <1>3, <1>4, <1>6 DEF Presence!TypeOK
    <2>2. CASE ~(h = g /\ i = Len(commands[g]) + 1)
      <3>1. i \in DOMAIN commands[h] /\ commands'[h][i] = commands[h][i] /\ commands[h] \in Seq(Presence!Commands)
        BY <2>2, <1>1, <1>2, <1>4 DEF Presence!TypeOK
      <3>2. commands[h][i] \in Presence!Commands
        BY <3>1
      <3> QED
        BY <3>1, <3>2, <1>6, CommandSets DEF TakesBack
    <2> QED
      BY <2>1, <2>2
  <1> QED
    BY <1>5, <1>6 DEF TakesBack

LEMMA CommandSteps ==
    ASSUME Presence!PresenceAssumption, PresenceInv, NEW s \in Sockets, Presence!Touch(s) \/ Presence!Close(s)
    PROVE  PresenceInv'
  <1> USE DEF PresenceInv
  <1>1. CASE Presence!Touch(s)
    <2>1. <<s, current[s]>> \in Presence!Values
      BY <1>1 DEF Presence!Touch, Presence!TypeOK, Presence!Values, Presence!PresenceAssumption
    <2>2. commands' \in [Gateways -> Seq(Presence!Commands)] /\ TakesBack'
      BY <1>1, <2>1, CommandJoins DEF Presence!Touch
    <2>3. Presence!TypeOK'
      BY SMTT(60), <1>1, <2>2 DEF Presence!Touch, Presence!TypeOK, Presence!Stages
    <2>4. Chained' /\ Counted' /\ Presence!RecordedFirst'
      BY <1>1 DEF Presence!Touch, Presence!TypeOK, Chained, Counted, Presence!RecordedFirst
    <2> QED
      BY <2>2, <2>3, <2>4
  <1>2. CASE Presence!Close(s)
    <2>1. /\ sock' = [sock EXCEPT ![s] = "closed"]
          /\ UNCHANGED <<presence, ready, recorded, received, current, stage, done, last, answers, faults>>
      BY <1>2 DEF Presence!Close, Presence!chain
    <2>2. \A t \in Sockets : sock[t] = "closed" => sock'[t] = "closed"
      BY <2>1 DEF Presence!TypeOK
    <2>3. sock'[s] = "closed"
      BY <2>1 DEF Presence!TypeOK
    <2>4. commands' \in [Gateways -> Seq(Presence!Commands)] /\ TakesBack'
      <3>1. CASE last[s] # None /\ ready[Gateway[s]]
        <4>1. Presence!Command(s, "del", last[s]) /\ last[s] \in Presence!Values /\ last[s][1] = s
          BY <1>2, <3>1 DEF Presence!Close, Presence!TypeOK, TakesBack
        <4> QED
          BY <4>1, <2>1, <2>2, <2>3, CommandJoins
      <3>2. CASE ~(last[s] # None /\ ready[Gateway[s]])
        <4>1. commands' = commands
          BY <1>2, <3>2 DEF Presence!Close
        <4>2. ASSUME NEW h \in Gateways, NEW i \in DOMAIN commands[h] PROVE commands[h][i].value[1] \in Sockets
          <5>1. commands[h] \in Seq(Presence!Commands)
            BY DEF Presence!TypeOK
          <5>2. commands[h][i] \in Presence!Commands
            BY <5>1
          <5> QED
            BY <5>2, CommandSets
        <4> QED
          BY <4>1, <4>2, <2>1, <2>2 DEF Presence!TypeOK, TakesBack
      <3> QED
        BY <3>1, <3>2
    <2>5. Presence!TypeOK'
      BY SMTT(60), <2>1, <2>4 DEF Presence!TypeOK
    <2>6. Chained' /\ Counted' /\ Presence!RecordedFirst'
      BY <2>1 DEF Presence!TypeOK, Chained, Counted, Presence!RecordedFirst
    <2> QED
      BY <2>4, <2>5, <2>6
  <1> QED
    BY <1>1, <1>2

\* The first command of a queue leaves it.
LEMMA CommandLeaves ==
    ASSUME Presence!PresenceAssumption, Presence!TypeOK, TakesBack, NEW g \in Gateways, commands[g] # <<>>
    PROVE  /\ Head(commands[g]) \in Presence!Commands
           /\ Head(commands[g]).op = "del" => sock[Head(commands[g]).value[1]] = "closed"
           /\ [commands EXCEPT ![g] = Tail(@)] \in [Gateways -> Seq(Presence!Commands)]
           /\ \A h \in Gateways : \A i \in DOMAIN [commands EXCEPT ![g] = Tail(@)][h] :
                  [commands EXCEPT ![g] = Tail(@)][h][i].op = "del"
                      => sock[[commands EXCEPT ![g] = Tail(@)][h][i].value[1]] = "closed"
  <1> DEFINE Q == [commands EXCEPT ![g] = Tail(@)]
  <1>1. commands[g] \in Seq(Presence!Commands)
    BY DEF Presence!TypeOK
  <1>2. /\ Head(commands[g]) \in Presence!Commands /\ Head(commands[g]) = commands[g][1]
        /\ 1 \in DOMAIN commands[g]
        /\ Tail(commands[g]) \in Seq(Presence!Commands)
        /\ \A i \in DOMAIN Tail(commands[g]) : i + 1 \in DOMAIN commands[g] /\ Tail(commands[g])[i] = commands[g][i + 1]
    BY <1>1
  <1>3. Q \in [Gateways -> Seq(Presence!Commands)] /\ Q[g] = Tail(commands[g])
        /\ \A h \in Gateways : h # g => Q[h] = commands[h]
    BY <1>2 DEF Presence!TypeOK
  <1> HIDE DEF Q
  <1>4. ASSUME NEW h \in Gateways, NEW i \in DOMAIN Q[h], Q[h][i].op = "del"
        PROVE  sock[Q[h][i].value[1]] = "closed"
    <2>1. CASE h = g
      BY <2>1, <1>2, <1>3, <1>4 DEF TakesBack
    <2>2. CASE h # g
      BY <2>2, <1>3, <1>4 DEF TakesBack
    <2> QED
      BY <2>1, <2>2
  <1> QED
    BY <1>2, <1>3, <1>4 DEF Q, TakesBack

LEMMA ExecuteSets ==
    ASSUME Presence!PresenceAssumption, Presence!TypeOK, NEW c \in Presence!Commands, Presence!Execute(c)
    PROVE  presence' \in [Presence!Devices -> Presence!Values \cup {None}]
  BY CommandSets DEF Presence!Execute, Presence!TypeOK

LEMMA RedisSteps ==
    ASSUME Presence!PresenceAssumption, PresenceInv, NEW g \in Gateways,
           Presence!RedisExecutes(g) \/ Presence!ConnectionLost(g) \/ Presence!Reconnect(g)
    PROVE  PresenceInv'
  <1> USE DEF PresenceInv
  <1> DEFINE c == Head(commands[g])
             s == c.value[1]
             Q == [commands EXCEPT ![g] = Tail(@)]
  <1>1. CASE Presence!RedisExecutes(g)
    <2>1. /\ commands[g] # <<>> /\ Presence!Execute(c) /\ Presence!Resumed(c) /\ commands' = Q
          /\ recorded' = IF c.op = "set" THEN recorded \cup {c.value} ELSE recorded
          /\ UNCHANGED <<ready, sock, received, current, done, answers, faults>>
      BY <1>1 DEF Presence!RedisExecutes
    <2>2. /\ c \in Presence!Commands /\ Q \in [Gateways -> Seq(Presence!Commands)]
          /\ \A h \in Gateways : \A i \in DOMAIN Q[h] : Q[h][i].op = "del" => sock[Q[h][i].value[1]] = "closed"
      BY <2>1, CommandLeaves
    <2>3. /\ c.value \in Presence!Values /\ s \in Sockets /\ c.value[2] \in 1 .. MaxMessages
          /\ c.value = <<s, c.value[2]>>
      BY <2>2, CommandSets
    <2>4. presence' \in [Presence!Devices -> Presence!Values \cup {None}]
      BY <2>1, <2>2, ExecuteSets
    <2> HIDE DEF c, Q
    <2>5. recorded' \subseteq Presence!Values /\ recorded \subseteq recorded'
      BY <2>1, <2>3 DEF Presence!TypeOK
    <2>6. CASE c.op = "set" /\ Presence!Awaits(c.value)
      <3>1. /\ stage' = [stage EXCEPT ![s] = "upstream"] /\ last' = [last EXCEPT ![s] = c.value]
            /\ current[s] = c.value[2] /\ c.value \in recorded' /\ current[s] # 0
        BY <2>1, <2>3, <2>6 DEF Presence!Resumed, Presence!Awaits, Presence!PresenceAssumption
      <3> HIDE DEF s
      <3>2. Presence!TypeOK'
        BY ZenonT(120), <2>1, <2>2, <2>3, <2>4, <2>5, <3>1 DEF Presence!TypeOK, Presence!Stages
      <3>3. Chained' /\ Counted'
        BY <2>1, <2>3, <3>1 DEF Presence!TypeOK, Chained, Counted
      <3>4. Presence!RecordedFirst'
        BY <2>1, <2>3, <2>5, <3>1 DEF Presence!TypeOK, Presence!RecordedFirst
      <3>5. \A t \in Sockets : last'[t] # None => last'[t][1] = t
        BY <2>3, <3>1 DEF Presence!TypeOK, TakesBack, s
      <3> QED
        BY <2>1, <2>2, <3>2, <3>3, <3>4, <3>5 DEF TakesBack
    <2>7. CASE ~(c.op = "set" /\ Presence!Awaits(c.value))
      <3>1. UNCHANGED <<stage, last>>
        BY <2>1, <2>7 DEF Presence!Resumed
      <3>2. Presence!TypeOK'
        BY <2>1, <2>2, <2>4, <2>5, <3>1 DEF Presence!TypeOK
      <3>3. Chained' /\ Counted' /\ Presence!RecordedFirst'
        BY <2>1, <2>5, <3>1 DEF Chained, Counted, Presence!RecordedFirst
      <3> QED
        BY <2>1, <2>2, <3>1, <3>2, <3>3 DEF TakesBack
    <2> QED
      BY <2>6, <2>7
  <1>2. CASE Presence!ConnectionLost(g) /\ commands[g] = <<>>
    <2>1. /\ ready' = [ready EXCEPT ![g] = FALSE] /\ faults' = faults + 1 /\ faults < MaxFaults
          /\ UNCHANGED <<presence, commands, recorded, current, stage, done, answers, sock, received, last>>
      BY <1>2 DEF Presence!ConnectionLost, Presence!chain
    <2>2. Presence!TypeOK'
      BY <2>1 DEF Presence!TypeOK, Presence!PresenceAssumption
    <2> QED
      BY <2>1, <2>2 DEF Chained, Counted, Presence!RecordedFirst, TakesBack
  <1>3. CASE Presence!ConnectionLost(g) /\ commands[g] # <<>>
    <2>1. /\ commands[g] # <<>> /\ commands' = Q
          /\ \/ Presence!Execute(c) /\ recorded' = IF c.op = "set" THEN recorded \cup {c.value} ELSE recorded
             \/ UNCHANGED <<presence, recorded>>
          /\ IF c.op = "set" /\ Presence!Awaits(c.value) THEN Presence!Answer(s, 503) ELSE UNCHANGED <<Presence!chain, answers>>
          /\ ready' = [ready EXCEPT ![g] = FALSE] /\ faults' = faults + 1 /\ faults < MaxFaults
          /\ UNCHANGED <<sock, received, last>>
      BY <1>3 DEF Presence!ConnectionLost
    <2>2. /\ c \in Presence!Commands /\ Q \in [Gateways -> Seq(Presence!Commands)]
          /\ \A h \in Gateways : \A i \in DOMAIN Q[h] : Q[h][i].op = "del" => sock[Q[h][i].value[1]] = "closed"
      BY <2>1, CommandLeaves
    <2>3. /\ c.value \in Presence!Values /\ s \in Sockets /\ c.value[2] \in 1 .. MaxMessages
      BY <2>2, CommandSets
    <2>4. presence' \in [Presence!Devices -> Presence!Values \cup {None}]
      BY SMTT(60), <2>1, <2>2, ExecuteSets DEF Presence!TypeOK
    <2> HIDE DEF c, Q
    <2>5. recorded' \subseteq Presence!Values /\ recorded \subseteq recorded'
      BY <2>1, <2>3 DEF Presence!TypeOK
    <2>6. /\ answers' \in [Sockets -> Seq((1 .. MaxMessages) \X {200, 400, 503})]
          /\ current' \in [Sockets -> 0 .. MaxMessages] /\ done' \in [Sockets -> 0 .. MaxMessages]
          /\ stage' \in [Sockets -> Presence!Stages] /\ Chained' /\ Counted'
          /\ \A t \in Sockets : stage'[t] = "upstream" => stage[t] = "upstream" /\ current'[t] = current[t]
      <3>1. CASE c.op = "set" /\ Presence!Awaits(c.value)
        <4>1. current[s] # 0 /\ Presence!Answer(s, 503)
          BY <2>1, <2>3, <3>1 DEF Presence!Awaits, Presence!PresenceAssumption
        <4> HIDE DEF s
        <4>2. /\ answers' \in [Sockets -> Seq((1 .. MaxMessages) \X {200, 400, 503})]
              /\ current' = [current EXCEPT ![s] = 0] /\ current' \in [Sockets -> 0 .. MaxMessages]
              /\ done' \in [Sockets -> 0 .. MaxMessages]
              /\ stage' = [stage EXCEPT ![s] = "parse"] /\ stage' \in [Sockets -> Presence!Stages]
              /\ Chained' /\ Counted'
          BY <2>1, <2>3, <4>1, AnswerCounts
        <4> QED
          BY SMTT(60), <4>2 DEF Presence!TypeOK
      <3>2. CASE ~(c.op = "set" /\ Presence!Awaits(c.value))
        <4>1. UNCHANGED <<current, stage, done, answers>>
          BY <2>1, <3>2 DEF Presence!chain
        <4> QED
          BY <4>1, <2>1 DEF Presence!TypeOK, Chained, Counted
      <3> QED
        BY <3>1, <3>2
    <2>7. Presence!TypeOK'
      <3>1. ready' \in [Gateways -> BOOLEAN] /\ faults' \in 0 .. MaxFaults
        BY <2>1 DEF Presence!TypeOK, Presence!PresenceAssumption
      <3>2. commands' \in [Gateways -> Seq(Presence!Commands)]
        BY <2>1, <2>2
      <3>3. UNCHANGED <<sock, received, last>>
        BY <2>1
      <3> QED
        BY <3>1, <3>2, <3>3, <2>4, <2>5, <2>6 DEF Presence!TypeOK
    <2>8. Presence!RecordedFirst'
      BY ZenonT(120), <2>1, <2>5, <2>6 DEF Presence!RecordedFirst
    <2> QED
      BY <2>1, <2>2, <2>6, <2>7, <2>8 DEF TakesBack
  <1>4. CASE Presence!Reconnect(g)
    <2>1. /\ ready' = [ready EXCEPT ![g] = TRUE]
          /\ UNCHANGED <<presence, commands, recorded, current, stage, done, answers, sock, received, last, faults>>
      BY <1>4 DEF Presence!Reconnect, Presence!chain
    <2>2. Presence!TypeOK'
      BY <2>1 DEF Presence!TypeOK
    <2> QED
      BY <2>1, <2>2 DEF Chained, Counted, Presence!RecordedFirst, TakesBack
  <1> QED
    BY <1>1, <1>2, <1>3, <1>4

LEMMA GatewayDies ==
    ASSUME Presence!PresenceAssumption, PresenceInv, NEW g \in Gateways, Presence!Die(g)
    PROVE  PresenceInv'
  <1> USE DEF PresenceInv
  <1>1. /\ commands' = [commands EXCEPT ![g] = <<>>] /\ faults' = faults + 1 /\ faults < MaxFaults
        /\ UNCHANGED <<presence, ready, recorded, received, last, answers>>
    BY DEF Presence!Die
  <1>2. /\ sock' = [s \in Sockets |-> IF Gateway[s] = g THEN "closed" ELSE sock[s]]
        /\ done' = [s \in Sockets |-> IF Gateway[s] = g THEN received[s] ELSE done[s]]
        /\ current' = [s \in Sockets |-> IF Gateway[s] = g THEN 0 ELSE current[s]]
        /\ stage' = [s \in Sockets |-> IF Gateway[s] = g THEN "parse" ELSE stage[s]]
    BY DEF Presence!Die
  <1>3. commands' \in [Gateways -> Seq(Presence!Commands)] /\ faults' \in 0 .. MaxFaults
    BY <1>1 DEF Presence!TypeOK, Presence!PresenceAssumption
  <1>4. Presence!TypeOK'
    BY <1>1, <1>2, <1>3 DEF Presence!TypeOK, Presence!Stages, Presence!PresenceAssumption
  <1>5. Chained' /\ Counted' /\ Presence!RecordedFirst'
    BY <1>1, <1>2 DEF Presence!TypeOK, Chained, Counted, Presence!RecordedFirst
  <1>6. ASSUME NEW h \in Gateways, NEW i \in DOMAIN commands'[h], commands'[h][i].op = "del"
        PROVE  sock'[commands'[h][i].value[1]] = "closed"
    <2>1. h # g /\ commands'[h] = commands[h] /\ commands[h] \in Seq(Presence!Commands)
      BY <1>1, <1>6 DEF Presence!TypeOK
    <2>2. commands[h][i] \in Presence!Commands
      BY <1>6, <2>1
    <2>3. commands[h][i].value[1] \in Sockets /\ sock[commands[h][i].value[1]] = "closed"
      BY <1>6, <2>1, <2>2, CommandSets DEF TakesBack
    <2> QED
      BY <2>1, <2>3, <1>2
  <1> QED
    BY <1>1, <1>4, <1>5, <1>6 DEF TakesBack

LEMMA PresenceSteps ==
    ASSUME Presence!PresenceAssumption, PresenceInv, [Presence!Next]_(Presence!vars) PROVE PresenceInv'
  <1>1. CASE \E s \in Sockets : Presence!Connect(s) \/ Presence!Receive(s) \/ Presence!Close(s) \/ Presence!Handle(s) \/ Presence!TouchTimesOut(s)
    BY <1>1, SocketSteps, AnswerSteps, CommandSteps DEF Presence!Handle
  <1>2. CASE \E g \in Gateways : Presence!RedisExecutes(g) \/ Presence!ConnectionLost(g) \/ Presence!Reconnect(g) \/ Presence!Die(g)
    BY <1>2, RedisSteps, GatewayDies
  <1>3. CASE \E d \in Presence!Devices : Presence!Expire(d)
    <2>1. PICK d \in Presence!Devices : Presence!Expire(d)
      BY <1>3
    <2>2. /\ presence' = [presence EXCEPT ![d] = None]
          /\ UNCHANGED <<commands, ready, recorded, sock, received, current, stage, done, last, answers, faults>>
      BY <2>1 DEF Presence!Expire, Presence!chain
    <2>3. Presence!TypeOK'
      BY <2>2 DEF PresenceInv, Presence!TypeOK
    <2> QED
      BY <2>2, <2>3 DEF PresenceInv, Chained, Counted, Presence!RecordedFirst, TakesBack
  <1>4. CASE UNCHANGED Presence!vars
    <2>1. UNCHANGED <<presence, commands, ready, recorded, sock, received, current, stage, done, last, answers, faults>>
      BY <1>4 DEF Presence!vars, Presence!redis, Presence!chain
    <2> QED
      BY <2>1 DEF PresenceInv, Presence!TypeOK, Chained, Counted, Presence!RecordedFirst, TakesBack
  <1> QED
    BY <1>1, <1>2, <1>3, <1>4 DEF Presence!Next

LEMMA OnlyOwn ==
    ASSUME Presence!PresenceAssumption, PresenceInv, [Presence!Next]_(Presence!vars) PROVE Presence!RemovesOnlyOwn
  <1> SUFFICES ASSUME NEW d \in Presence!Devices, presence[d] # None, presence'[d] = None
               PROVE  Presence!Expire(d) \/ sock[presence[d][1]] = "closed"
    BY DEF Presence!RemovesOnlyOwn
  <1> USE DEF PresenceInv
  <1>1. ASSUME NEW g \in Gateways, commands[g] # <<>>, Presence!Execute(Head(commands[g]))
        PROVE  sock[presence[d][1]] = "closed"
    <2> DEFINE c == Head(commands[g])
    <2>1. c \in Presence!Commands /\ (c.op = "del" => sock[c.value[1]] = "closed")
      BY <1>1, CommandLeaves
    <2>2. c.value \in Presence!Values /\ c.op \in {"set", "del"} /\ Device[c.value[1]] \in Presence!Devices
          /\ Presence!Execute(c)
      BY <1>1, <2>1, CommandSets
    <2>3. None \notin Presence!Values
      BY DEF Presence!PresenceAssumption, Presence!Values
    <2> HIDE DEF c
    <2>4. c.op = "del" /\ presence[d] = c.value
      BY <2>2, <2>3 DEF Presence!Execute, Presence!TypeOK
    <2> QED
      BY <2>1, <2>4
  <1>2. CASE \E s \in Sockets : Presence!Connect(s) \/ Presence!Receive(s) \/ Presence!Close(s) \/ Presence!Handle(s) \/ Presence!TouchTimesOut(s)
    <2>1. presence' = presence
      BY <1>2 DEF Presence!Connect, Presence!Receive, Presence!Close, Presence!Handle,
         Presence!TouchTimesOut, Presence!NextMessage, Presence!Refuse, Presence!Touch,
         Presence!Upstream, Presence!redis
    <2> QED
      BY <2>1
  <1>3. CASE \E g \in Gateways : Presence!RedisExecutes(g)
    BY <1>1, <1>3 DEF Presence!RedisExecutes
  <1>4. CASE \E g \in Gateways : Presence!ConnectionLost(g)
    <2>1. PICK g \in Gateways : Presence!ConnectionLost(g)
      BY <1>4
    <2>2. commands[g] # <<>> /\ Presence!Execute(Head(commands[g]))
      BY <2>1 DEF Presence!ConnectionLost
    <2> QED
      BY <1>1, <2>2
  <1>5. CASE \E g \in Gateways : Presence!Reconnect(g) \/ Presence!Die(g)
    BY <1>5 DEF Presence!Reconnect, Presence!Die
  <1>6. CASE \E e \in Presence!Devices : Presence!Expire(e)
    <2>1. PICK e \in Presence!Devices : Presence!Expire(e)
      BY <1>6
    <2>2. e = d
      BY <2>1 DEF Presence!Expire, Presence!TypeOK
    <2> QED
      BY <2>1, <2>2
  <1>7. CASE UNCHANGED Presence!vars
    BY <1>7 DEF Presence!vars, Presence!redis
  <1> QED
    BY <1>2, <1>3, <1>4, <1>5, <1>6, <1>7 DEF Presence!Next

LEMMA PresenceGives == ASSUME PresenceInv PROVE Presence!PresenceSafe
  BY DEF PresenceInv, Presence!PresenceSafe, Counted, Presence!AnsweredInOrder

\* The inductive invariant: one message of a socket at a time, counted as it is
\* answered, and only closed sockets have removals on their way to Redis.
THEOREM PresenceHolds == ASSUME Presence!PresenceAssumption PROVE Presence!Spec => []PresenceInv
  <1>1. Presence!Init => PresenceInv
    BY PresenceBegins
  <1>2. PresenceInv /\ [Presence!Next]_(Presence!vars) => PresenceInv'
    BY PresenceSteps
  <1> QED
    BY <1>1, <1>2, PTL DEF Presence!Spec

\* Each message is answered once and in the order it came, and HQ is asked only
\* for a device whose presence Redis has held.
THEOREM PresenceIsSafe == ASSUME Presence!PresenceAssumption PROVE Presence!Spec => []Presence!PresenceSafe
  BY PresenceHolds, PresenceGives, PTL

\* A presence disappears by expiry or by the close of the socket that set it,
\* however late its gateway's queue gets to the removal.
THEOREM TakesOnlyItsOwn == ASSUME Presence!PresenceAssumption PROVE Presence!Spec => [][Presence!RemovesOnlyOwn]_(Presence!vars)
  <1>1. PresenceInv /\ [Presence!Next]_(Presence!vars) => Presence!RemovesOnlyOwn
    BY OnlyOwn
  <1> QED
    BY <1>1, PresenceHolds, PTL DEF Presence!Spec

===============================================================================
