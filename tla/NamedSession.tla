----------------------------- MODULE NamedSession -----------------------------
(***************************************************************************)
(* A named session: the service that owns a provider's conversation        *)
(* (cli/src/namedSessionService.ts) with its admission                     *)
(* (namedSessionAdmission.ts), its budget (namedSessionBudget.ts), its     *)
(* maintenance by an owner of a fence (namedSessionMaintenance.ts), and    *)
(* the commands that start, stop, quiesce, resume and recover it           *)
(* (namedSessionCommand in cli/src/index.ts).                              *)
(*                                                                         *)
(* The registration file exists; every turn costs 1 of the budget.  The    *)
(* service's lock and the startup lock are taken as exclusive.             *)
(***************************************************************************)
EXTENDS Integers, Sequences, FiniteSets, TLC

CONSTANTS
    Fences,          \* fence ids, one for each owner of a maintenance
    Works,           \* ids of local work
    MaxTurns,        \* registration.maximumCostCents, in turns
    MaxQueue,        \* NamedSessionAdmission: 8 pending operations
    MaxGenerations,  \* bound: services that come to listen
    MaxAsks,         \* bound: maintenance requests
    MaxStops         \* bound: commands that stop the session without a fence

NamedSessionAssumption == {MaxTurns, MaxQueue, MaxGenerations, MaxAsks, MaxStops} \subseteq Nat

VARIABLES
    reg,       \* registration.json: enabled, maintenanceFence
    svc,       \* the service, its admission and the operation it runs
    handlers,  \* the service's maintenance and stop requests under way
    wire,      \* maintenance commands that have read the status and not yet posted
    boot,      \* who holds the startup lock, and the registration that it read
    stopper,   \* a command that stops the session without a fence
    budget,    \* budget.sqlite: reservations and work receipts
    hist       \* history, for the properties

vars == <<reg, svc, handlers, wire, boot, stopper, budget, hist>>

Open == [enabled |-> TRUE, fence |-> "none", gen |-> 0, permit |-> FALSE]
Fenced(f, g) == [enabled |-> FALSE, fence |-> f, gen |-> g, permit |-> FALSE]
Free == [at |-> "free", seen |-> Open, fence |-> "none"]
Off(g) == [at |-> "off", gen |-> g, fence |-> "none", drained |-> FALSE, stopped |-> FALSE,
           trans |-> "none", queue |-> <<>>, step |-> "idle"]

Init ==
    /\ reg = Open
    /\ svc = Off(0)
    /\ handlers = {} /\ wire = {}
    /\ boot = Free
    /\ stopper = [at |-> "idle", seen |-> Open]
    /\ budget = [reserved |-> {}, receipts |-> [w \in Works |-> "none"]]
    /\ hist = [ran |-> [w \in Works |-> 0], quiet |-> "none", raced |-> FALSE, asks |-> 0, stops |-> 0]

Listening == svc.at \in {"on", "ending"}
Active == svc.at = "on"                                        \* owner.assertActive()
Phase == IF svc.trans # "none" THEN svc.trans
         ELSE IF svc.fence = "none" THEN "open" ELSE IF svc.drained THEN "quiesced" ELSE "draining"

----------------------------------------------------------------------------
\* Admission of work and of inbox polls, and the budget.

Enqueue(item) ==
    /\ Active /\ ~ svc.stopped /\ svc.fence = "none" /\ Len(svc.queue) < MaxQueue
    /\ svc' = [svc EXCEPT !.queue = Append(@, item)]
    /\ UNCHANGED <<reg, handlers, wire, boot, stopper, budget, hist>>

Work == \E w \in Works : Enqueue(w)

\* The service's loop polls its inbox; it waits for one poll before the next.
Poll == ~ (\E i \in DOMAIN svc.queue : svc.queue[i] = "poll") /\ Enqueue("poll")

Head1 == Head(svc.queue)
Settle(s) == [s EXCEPT !.queue = Tail(@), !.step = "idle"]

\* An operation reaches the head of the queue: it is refused if the service stops, and a work
\* that is already recorded, or no longer authorized, goes no further.
Refuse ==
    /\ svc.queue # <<>> /\ svc.step = "idle"
    /\ svc' = Settle(svc)
    /\ UNCHANGED <<reg, handlers, wire, boot, stopper, budget, hist>>

Recorded(w) == budget.receipts[w] # "none"

BeginWork ==
    /\ Active /\ ~ svc.stopped /\ svc.queue # <<>> /\ svc.step = "idle"
    /\ Head1 \in Works /\ ~ Recorded(Head1)
    /\ budget' = [budget EXCEPT !.receipts[Head1] = "executing"]
    /\ svc' = [svc EXCEPT !.step = "begun"]
    /\ UNCHANGED <<reg, handlers, wire, boot, stopper, hist>>

MayReserve(w) == w \notin budget.reserved /\ Cardinality(budget.reserved) < MaxTurns

Turn ==
    /\ Active /\ svc.step = "begun" /\ MayReserve(Head1)
    /\ budget' = [budget EXCEPT !.reserved = @ \cup {Head1}]
    /\ svc' = [svc EXCEPT !.step = "turn"]
    /\ hist' = [hist EXCEPT !.ran[Head1] = @ + 1]
    /\ UNCHANGED <<reg, handlers, wire, boot, stopper>>

\* A poll of the inbox that finds a question runs a turn of its own (SessionInbox).
PollTurn ==
    /\ Active /\ ~ svc.stopped /\ svc.queue # <<>> /\ svc.step = "idle" /\ Head1 = "poll"
    /\ svc' = [svc EXCEPT !.step = "turn"]
    /\ UNCHANGED <<reg, handlers, wire, boot, stopper, budget, hist>>

Finished(state) ==
    IF Head1 \in Works THEN [budget EXCEPT !.receipts[Head1] = state] ELSE budget

\* A refused reservation, or an authority that has gone, leaves the owner in place.
WorkFails ==
    /\ svc.step = "begun"
    /\ budget' = Finished("failed") /\ svc' = Settle(svc)
    /\ UNCHANGED <<reg, handlers, wire, boot, stopper, hist>>

Complete ==
    /\ Active /\ svc.step = "turn"
    /\ budget' = Finished("completed") /\ svc' = Settle(svc)
    /\ UNCHANGED <<reg, handlers, wire, boot, stopper, hist>>

\* A turn fails, or is interrupted: its owner closes, and the service with it.
TurnFails ==
    /\ svc.step = "turn"
    /\ budget' = Finished("failed") /\ svc' = [Settle(svc) EXCEPT !.at = "ending"]
    /\ UNCHANGED <<reg, handlers, wire, boot, stopper, hist>>

----------------------------------------------------------------------------
\* Maintenance: a command reads the status, then posts its action for that generation.

Pending(f) == \E r \in wire \cup handlers : r.act = "resume" /\ r.fence = f /\ r.gen = svc.gen

Ask ==
    \E f \in Fences, act \in {"quiesce", "resume", "stop-drained"} :
        /\ Listening /\ hist.asks < MaxAsks
        /\ wire' = wire \cup {[fence |-> f, act |-> act, gen |-> svc.gen]}
        /\ hist' = [hist EXCEPT !.asks = @ + 1,
                                !.quiet = IF act = "resume" /\ @ = f THEN "none" ELSE @]
        /\ UNCHANGED <<reg, svc, handlers, boot, stopper, budget>>

ChecksNoGeneration(r) == ~ svc.stopped /\ svc.trans = "none"

Check(r) == r.gen = svc.gen /\ ~ svc.stopped /\ svc.trans = "none"

CheckDrained(r) == Check(r) /\ svc.fence = r.fence /\ svc.drained /\ svc.queue = <<>>

Unposted(r) == wire' = wire \ {r}

PostQuiesce ==
    \E r \in wire :
        /\ r.act = "quiesce" /\ Active /\ Check(r) /\ svc.fence \in {"none", r.fence}
        /\ Unposted(r)
        /\ svc' = [svc EXCEPT !.fence = r.fence]
        /\ handlers' = handlers \cup {[fence |-> r.fence, act |-> r.act, gen |-> r.gen, at |-> "wait"]}
        /\ UNCHANGED <<reg, boot, stopper, budget, hist>>

PostResume ==
    \E r \in wire :
        /\ r.act = "resume" /\ Active /\ CheckDrained(r)
        /\ Unposted(r)
        /\ svc' = [svc EXCEPT !.trans = "resuming"]
        /\ handlers' = handlers \cup {[fence |-> r.fence, act |-> r.act, gen |-> r.gen, at |-> "read"]}
        /\ UNCHANGED <<reg, boot, stopper, budget, hist>>

PostStopDrained ==
    \E r \in wire :
        /\ r.act = "stop-drained" /\ Active /\ CheckDrained(r)
        /\ Unposted(r)
        /\ svc' = [svc EXCEPT !.trans = "stopping"]
        /\ handlers' = handlers \cup {[fence |-> r.fence, act |-> r.act, gen |-> r.gen, at |-> "read"]}
        /\ UNCHANGED <<reg, boot, stopper, budget, hist>>

\* A request that meets another generation, another fence or a transition is refused.
Refused ==
    \E r \in wire :
        /\ ~ Active \/ ~ Check(r) \/ (r.act = "quiesce" /\ svc.fence \notin {"none", r.fence})
           \/ (r.act # "quiesce" /\ ~ CheckDrained(r))
        /\ Unposted(r)
        /\ UNCHANGED <<reg, svc, handlers, boot, stopper, budget, hist>>

Moves(h, at) == handlers' = (handlers \ {h}) \cup {[h EXCEPT !.at = at]}
Drops(h) == handlers' = handlers \ {h}

DrainedBetween == svc.step = "idle"

\* quiesce() waits for the operations admitted before the fence.
Drained == svc.queue = <<>>

Drain ==
    \E h \in handlers :
        /\ h.at = "wait" /\ Drained
        /\ IF Check(h) /\ svc.fence = h.fence
           THEN /\ svc' = [svc EXCEPT !.drained = TRUE, !.trans = "quiescing"]
                /\ Moves(h, "read")
           ELSE Drops(h) /\ UNCHANGED svc
        /\ UNCHANGED <<reg, wire, boot, stopper, budget, hist>>

\* maintenanceRegistration: the fence on disk is this one or none.
Reads ==
    \E h \in handlers :
        /\ h.at = "read"
        /\ IF reg.fence = "none" \/ [reg EXCEPT !.enabled = FALSE] = Fenced(h.fence, h.gen)
           THEN Moves(h, IF h.act = "stop-drained" THEN "verify" ELSE "save") /\ UNCHANGED svc
           ELSE Drops(h) /\ svc' = [svc EXCEPT !.trans = "none"]
        /\ UNCHANGED <<reg, wire, boot, stopper, budget, hist>>

Expected(h) == IF h.act = "resume" THEN Open ELSE Fenced(h.fence, h.gen)

Saves ==
    \E h \in handlers :
        /\ h.at = "save" /\ h.act # "stop"
        /\ reg' = Expected(h) /\ Moves(h, "verify")
        /\ UNCHANGED <<svc, wire, boot, stopper, budget, hist>>

SaveFails ==
    \E h \in handlers :
        /\ h.at = "save"
        /\ Drops(h) /\ svc' = [svc EXCEPT !.trans = "none"]
        /\ UNCHANGED <<reg, wire, boot, stopper, budget, hist>>

After(h) ==
    IF reg # Expected(h) THEN [svc EXCEPT !.trans = "none"]
    ELSE IF h.act = "resume" THEN [svc EXCEPT !.trans = "none", !.fence = "none", !.drained = FALSE]
    ELSE IF h.act = "stop-drained" THEN [svc EXCEPT !.trans = "none", !.stopped = TRUE]
    ELSE [svc EXCEPT !.trans = "none"]

\* The registration is read back; an owner that is told "quiesced" may rely on it.
Verify ==
    \E h \in handlers :
        /\ h.at = "verify"
        /\ svc' = After(h) /\ Drops(h)
        /\ hist' = IF h.act = "quiesce" /\ reg = Expected(h) /\ Active /\ ~ Pending(h.fence)
                   THEN [hist EXCEPT !.quiet = h.fence] ELSE hist
        /\ UNCHANGED <<reg, wire, boot, stopper, budget>>

----------------------------------------------------------------------------
\* The service starts, ends and dies.

\* serve holds the startup lock while it reads the registration and takes the service's lock.
Serve ==
    /\ boot = Free /\ svc.gen < MaxGenerations
    /\ boot' = [Free EXCEPT !.at = "serve", !.seen = reg]
    /\ UNCHANGED <<reg, svc, handlers, wire, stopper, budget, hist>>

AdmitsSeen == boot.seen.fence = "none" /\ boot.seen.enabled

\* A startup poll may predate quiescence: the registration is read again under the lock.
Readmitted == reg.fence = "none" /\ reg.enabled /\ reg = boot.seen

ServeLocked ==
    /\ boot.at = "serve" /\ boot' = Free
    /\ svc' = IF svc.at = "off" /\ svc.gen < MaxGenerations /\ Readmitted THEN [svc EXCEPT !.at = "admitted"] ELSE svc
    /\ UNCHANGED <<reg, handlers, wire, stopper, budget, hist>>

Unrecovered(receipt) == receipt

\* recoverInterruptedWork
Recovered(receipt) == IF receipt = "executing" THEN "interrupted" ELSE receipt

Listen ==
    /\ svc.at = "admitted"
    /\ svc' = [Off(svc.gen + 1) EXCEPT !.at = "on"]
    /\ budget' = [budget EXCEPT !.receipts = [w \in Works |-> Recovered(@[w])]]
    /\ UNCHANGED <<reg, handlers, wire, boot, stopper, hist>>

\* A signal, a failed poll or a stop ends the loop; the owner closes first.
Ending ==
    /\ Active
    /\ svc' = [svc EXCEPT !.at = "ending"]
    /\ UNCHANGED <<reg, handlers, wire, boot, stopper, budget, hist>>

\* What was admitted is settled and every caller answered before the socket goes.
End ==
    /\ svc.at = "ending" /\ svc.queue = <<>> /\ handlers = {}
    /\ svc' = Off(svc.gen)
    /\ UNCHANGED <<reg, handlers, wire, boot, stopper, budget, hist>>

Crash ==
    /\ svc.at # "off"
    /\ svc' = Off(svc.gen) /\ handlers' = {}
    /\ UNCHANGED <<reg, wire, boot, stopper, budget, hist>>

----------------------------------------------------------------------------
\* Commands beside the service.

Write(value, seen) ==
    /\ reg' = value
    /\ hist' = [hist EXCEPT !.raced = @ \/ reg # seen]

\* start, under the startup lock, by a user, a supervisor or the owner of a fence.
Start ==
    \E f \in Fences \cup {"none", "supervisor"} :
        /\ boot = Free /\ ~ reg.enabled
        /\ boot' = [at |-> "start", seen |-> reg, fence |-> f]
        /\ hist' = [hist EXCEPT !.quiet = IF @ = f THEN "none" ELSE @]
        /\ UNCHANGED <<reg, svc, handlers, wire, stopper, budget>>

\* activateMaintenanceRestart, for the owner of a fence that was recovered.
Restart ==
    /\ boot.at = "start" /\ boot' = Free
    /\ IF boot.seen.fence = boot.fence /\ boot.seen.permit /\ svc.at = "off" /\ reg = boot.seen
       THEN reg' = Open ELSE UNCHANGED reg
    /\ boot.seen.fence # "none"
    /\ UNCHANGED <<svc, handlers, wire, stopper, budget, hist>>

\* A session that was only stopped is enabled again unless a live service says otherwise.
StartAsks ==
    /\ boot.at = "start" /\ boot.seen.fence = "none"
    /\ boot' = IF boot.fence = "supervisor" \/ (Listening /\ Phase # "open") THEN Free ELSE [boot EXCEPT !.at = "enable"]
    /\ UNCHANGED <<reg, svc, handlers, wire, stopper, budget, hist>>

Enable ==
    /\ boot.at = "enable" /\ boot' = Free
    /\ Write([boot.seen EXCEPT !.enabled = TRUE], boot.seen)
    /\ UNCHANGED <<svc, handlers, wire, stopper, budget>>

\* resume --recover-stopped: the fence of a service that is gone permits its owner a start.
Recover ==
    \E f \in Fences :
        /\ boot = Free /\ reg.fence = f /\ ~ reg.enabled /\ svc.at = "off"
        /\ reg' = [reg EXCEPT !.permit = TRUE]
        /\ UNCHANGED <<svc, handlers, wire, boot, stopper, budget, hist>>

\* stop without a fence: the command reads the registration, then asks a live service.
Stop ==
    /\ stopper.at = "idle" /\ hist.stops < MaxStops
    /\ stopper' = [at |-> "ask", seen |-> reg]
    /\ hist' = [hist EXCEPT !.stops = @ + 1]
    /\ UNCHANGED <<reg, svc, handlers, wire, boot, budget>>

\* A live service refuses it under a fence; otherwise its admission stops at once.
StopLive ==
    /\ stopper.at \in {"ask", "again"} /\ Listening
    /\ stopper' = [stopper EXCEPT !.at = "idle"]
    /\ IF svc.fence # "none" THEN UNCHANGED <<svc, handlers>>
       ELSE /\ svc' = [svc EXCEPT !.stopped = TRUE]
            /\ handlers' = handlers \cup {[fence |-> "none", act |-> "stop", gen |-> svc.gen, at |-> "save"]}
    /\ UNCHANGED <<reg, wire, boot, budget, hist>>

StopSaves ==
    \E h \in handlers :
        /\ h.act = "stop"
        /\ Drops(h)
        /\ Write([Open EXCEPT !.enabled = FALSE], [Open EXCEPT !.enabled = reg.enabled])
        /\ svc' = [svc EXCEPT !.at = "ending"]
        /\ UNCHANGED <<wire, boot, stopper, budget>>

\* No service answers: the command writes what it read, disabled, and asks once more.
StopAlone ==
    /\ stopper.at = "ask" /\ ~ Listening
    /\ stopper' = [stopper EXCEPT !.at = "save"]
    /\ UNCHANGED <<reg, svc, handlers, wire, boot, budget, hist>>

StopWrites ==
    /\ stopper.at = "save"
    /\ stopper' = [stopper EXCEPT !.at = "again"]
    /\ Write([stopper.seen EXCEPT !.enabled = FALSE], stopper.seen)
    /\ UNCHANGED <<svc, handlers, wire, boot, budget>>

StopUnanswered ==
    /\ stopper.at = "again" /\ ~ Listening
    /\ stopper' = [stopper EXCEPT !.at = "idle"]
    /\ UNCHANGED <<reg, svc, handlers, wire, boot, budget, hist>>

----------------------------------------------------------------------------
Next ==
    \/ Work \/ Poll \/ Refuse \/ BeginWork \/ Turn \/ PollTurn \/ WorkFails \/ Complete \/ TurnFails
    \/ Ask \/ PostQuiesce \/ PostResume \/ PostStopDrained \/ Refused
    \/ Drain \/ Reads \/ Saves \/ SaveFails \/ Verify
    \/ Serve \/ ServeLocked \/ Listen \/ Ending \/ End \/ Crash
    \/ Start \/ Restart \/ StartAsks \/ Enable \/ Recover
    \/ Stop \/ StopLive \/ StopSaves \/ StopAlone \/ StopWrites \/ StopUnanswered

Spec == Init /\ [][Next]_vars

----------------------------------------------------------------------------
\* The variables have their types.
TypeOK ==
    /\ reg \in [enabled : BOOLEAN, fence : Fences \cup {"none"}, gen : 0..MaxGenerations, permit : BOOLEAN]
    /\ svc.at \in {"off", "admitted", "on", "ending"} /\ svc.step \in {"idle", "begun", "turn"}
    /\ svc.queue \in Seq(Works \cup {"poll"}) /\ Len(svc.queue) <= MaxQueue
    /\ budget.receipts \in [Works -> {"none", "executing", "completed", "failed", "interrupted"}]

\* The owner of a fence who was told that the session is quiesced, and who has not asked to resume or
\* to start it since, finds it so: whatever restarts, other owners, supervisors and stop commands do,
\* the registration holds the fence, and nothing is admitted or running.  Except after `raced`:
\* a stop or start command without a fence has written a registration over one it had not read.
QuietIsQuiet ==
    hist.quiet # "none" /\ ~ hist.raced =>
        /\ reg.fence = hist.quiet /\ ~ reg.enabled
        /\ svc.at # "admitted" /\ svc.queue = <<>>
        /\ svc.at = "on" => svc.fence = hist.quiet

\* Every turn of local work was paid for before it ran, at most once for each work, whatever dies
\* in between, and the budget is kept.
TurnsArePaid ==
    /\ Cardinality(budget.reserved) <= MaxTurns
    /\ \A w \in Works : hist.ran[w] <= 1 /\ (hist.ran[w] = 1 => w \in budget.reserved)

\* What a service reports as executing is what it executes: receipts that a dead one left are interrupted.
ReceiptsAreLive ==
    \A w \in Works : Listening /\ budget.receipts[w] = "executing" =>
        svc.queue # <<>> /\ Head1 = w /\ svc.step # "idle"

NamedSessionSafe == TypeOK /\ QuietIsQuiet /\ TurnsArePaid /\ ReceiptsAreLive
=============================================================================
