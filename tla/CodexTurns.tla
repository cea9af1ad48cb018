------------------------------ MODULE CodexTurns ------------------------------
(***************************************************************************)
(* The owner of a provider's conversation: the transport to its process    *)
(* (provider-adapters/src/codexAppServerTransport.ts), the turns that run  *)
(* on it (codexAppServerSession.ts) and the session that binds both to a   *)
(* lease in the vault (cli/src/codexBoundSession.ts).                      *)
(*                                                                         *)
(* The provider process is external: it may answer, say nothing, say       *)
(* anything about a turn that it was asked for, or end.  Its output is a   *)
(* pipe of frames in order.  A request is known by its id; the provider    *)
(* turn that it starts has the same name.                                  *)
(***************************************************************************)
EXTENDS Integers, Sequences, FiniteSets, TLC

CONSTANTS
    Questions,   \* ids of peers' questions
    Works,       \* ids of local work, whose turns may call tools
    Texts,       \* texts of final answers
    MaxRuns,     \* bound: runs of questions and work
    MaxFrames,   \* bound: frames that the provider says of a turn
    MaxBudget    \* turns that the budget has room for

CodexTurnsAssumption == Questions \cap Works = {} /\ {MaxRuns, MaxFrames, MaxBudget} \subseteq Nat

Ids == Questions \cup Works
Calls == 1..2        \* ids that the provider gives to the calls of a turn

VARIABLES
    child,    \* the provider process: up or gone
    stopped,  \* the transport admits nothing more
    pipe,     \* frames that the provider has written and the transport not read
    prov,     \* the provider: its turns
    owner,    \* openCodexBoundSession: running, closing, shutdown under way, closed
    lease,    \* the vault's lease: held, lost, released
    turn,     \* the turn that runs
    tool,     \* the call of a tool that is handled
    paid,     \* reservations and claimed questions
    hist      \* history, for the properties

vars == <<child, stopped, pipe, prov, owner, lease, turn, tool, paid, hist>>

NoTurn == [id |-> "none", at |-> "none", active |-> FALSE, done |-> {}, finals |-> [i \in Ids |-> {}], calls |-> {}]
NoTool == [at |-> "none", turn |-> "none", call |-> 0, aborted |-> FALSE]

Init ==
    /\ child = "up" /\ stopped = FALSE /\ pipe = <<>>
    /\ prov = [i \in Ids |-> [at |-> "none", said |-> 0, texts |-> {}, dones |-> {}]]
    /\ owner = [running |-> FALSE, closing |-> FALSE, shutting |-> FALSE, closed |-> FALSE]
    /\ lease = "held"
    /\ turn = NoTurn /\ tool = NoTool
    /\ paid = [reserved |-> {}, claimed |-> {}]
    /\ hist = [starts |-> [i \in Ids |-> 0], answers |-> {}, effects |-> [i \in Works |-> [c \in Calls |-> 0]],
             results |-> {}, runs |-> 0]

Held == lease = "held"
Busy(at) == turn.at = at
To(at) == turn' = [turn EXCEPT !.at = at]

----------------------------------------------------------------------------
\* The provider.

Says(i, frame) ==
    /\ child = "up" /\ prov[i].said < MaxFrames
    /\ pipe' = Append(pipe, frame)
    /\ UNCHANGED <<child, stopped, owner, lease, turn, tool, paid, hist>>

Responds(i) ==
    /\ prov[i].at = "asked"
    /\ Says(i, [is |-> "started", id |-> i])
    /\ prov' = [prov EXCEPT ![i].at = "runs", ![i].said = @ + 1]

\* A final message of the turn; one message may be completed more than once, with another text.
SaysFinal(i) == \E text \in Texts :
    /\ prov[i].at \in {"asked", "runs"}
    /\ Says(i, [is |-> "final", id |-> i, text |-> text])
    /\ prov' = [prov EXCEPT ![i].said = @ + 1, ![i].texts = @ \cup {text}]

SaysDone(i) == \E ok \in BOOLEAN :
    /\ prov[i].at \in {"asked", "runs"}
    /\ Says(i, [is |-> "done", id |-> i, ok |-> ok])
    /\ prov' = [prov EXCEPT ![i].said = @ + 1, ![i].at = IF @ = "runs" THEN "over" ELSE @,
                            ![i].dones = @ \cup {[ok |-> ok, texts |-> prov[i].texts]}]

CallsTool(i) == \E call \in Calls :
    /\ prov[i].at \in {"asked", "runs", "over"}
    /\ Says(i, [is |-> "tool", id |-> i, call |-> call])
    /\ prov' = [prov EXCEPT ![i].said = @ + 1]

\* The process ends, by itself or by a signal; the transport hears of it.
Exits ==
    /\ child = "up" /\ child' = "gone" /\ pipe' = <<>>
    /\ stopped' = TRUE /\ tool' = [tool EXCEPT !.aborted = tool.at # "none"]
    /\ UNCHANGED <<prov, owner, lease, turn, paid, hist>>

----------------------------------------------------------------------------
\* A run of a question or of work, up to the start of its turn.

Run ==
    \E i \in Ids :
        /\ ~ owner.closing /\ ~ owner.running /\ hist.runs < MaxRuns
        /\ owner' = [owner EXCEPT !.running = TRUE]
        /\ turn' = [NoTurn EXCEPT !.id = i, !.at = "profile"]
        /\ hist' = [hist EXCEPT !.runs = @ + 1]
        /\ UNCHANGED <<child, stopped, pipe, prov, lease, tool, paid>>

\* Refusals that leave the owner as it is, and errors after which it closes.
Keeps == turn' = NoTurn /\ owner' = [owner EXCEPT !.running = FALSE]

StopsAdmission ==
    /\ stopped' = TRUE
    /\ tool' = [tool EXCEPT !.aborted = tool.at # "none"]

Closes ==
    /\ turn' = NoTurn /\ StopsAdmission
    /\ owner' = [owner EXCEPT !.closing = TRUE, !.shutting = ~ owner.closed, !.running = ~ owner.closed]

Throws ==
    /\ \/ Busy("profile")
       \/ turn.at \in {"ready", "paid", "claimed"} /\ ~ Held
       \/ turn.at \in {"claimed", "starting"} /\ stopped
    /\ Closes
    /\ UNCHANGED <<child, pipe, prov, lease, paid, hist>>

\* The profile and the thread are read, and the thread is idle.
Profile ==
    /\ Busy("profile") /\ Held /\ ~ stopped
    /\ \A i \in Ids : prov[i].at \notin {"asked", "runs"}
    /\ To("ready")
    /\ UNCHANGED <<child, stopped, pipe, prov, owner, lease, tool, paid, hist>>

\* A work is reserved once, a question again for the same price.
Reservable ==
    \/ turn.id \in paid.reserved /\ turn.id \in Questions
    \/ turn.id \notin paid.reserved /\ Cardinality(paid.reserved) < MaxBudget

Reserve ==
    /\ Busy("ready") /\ Held
    /\ IF Reservable
       THEN To("paid") /\ paid' = [paid EXCEPT !.reserved = @ \cup {turn.id}] /\ UNCHANGED owner
       ELSE Keeps /\ UNCHANGED paid
    /\ UNCHANGED <<child, stopped, pipe, prov, lease, tool, hist>>

ClaimsAnew == TRUE

\* verifySessionQuestionForBinding consumes the question.
Claimable == turn.id \in Works \/ turn.id \notin paid.claimed

Claim ==
    /\ Busy("paid") /\ Held
    /\ IF Claimable
       THEN To("claimed") /\ paid' = [paid EXCEPT !.claimed = @ \cup {turn.id}] /\ UNCHANGED owner
       ELSE Keeps /\ UNCHANGED paid
    /\ UNCHANGED <<child, stopped, pipe, prov, lease, tool, hist>>

Begin ==
    /\ Busy("claimed") /\ Held /\ ~ stopped
    /\ To("starting")
    /\ prov' = [prov EXCEPT ![turn.id].at = "asked"]
    /\ hist' = [hist EXCEPT !.starts[turn.id] = @ + 1]
    /\ UNCHANGED <<child, stopped, pipe, owner, lease, tool, paid>>

----------------------------------------------------------------------------
\* The transport reads a frame.

Frame == Head(pipe)
\* Notifications are heard from before the turn is started.
Subscribed == turn.at \in {"starting", "running"}
Reads(is) == pipe # <<>> /\ ~ stopped /\ Frame.is = is /\ pipe' = Tail(pipe)

Started ==
    /\ Reads("started")
    /\ turn' = IF Busy("starting") /\ turn.id = Frame.id THEN [turn EXCEPT !.at = "running", !.active = TRUE] ELSE turn
    /\ UNCHANGED <<child, stopped, prov, owner, lease, tool, paid, hist>>

Final ==
    /\ Reads("final")
    /\ turn' = IF Subscribed THEN [turn EXCEPT !.finals[Frame.id] = @ \cup {Frame.text}] ELSE turn
    /\ UNCHANGED <<child, stopped, prov, owner, lease, tool, paid, hist>>

Arrives ==
    /\ Reads("done")
    /\ turn' = IF Subscribed THEN [turn EXCEPT !.done = @ \cup {[id |-> Frame.id, ok |-> Frame.ok]}] ELSE turn
    /\ UNCHANGED <<child, stopped, prov, owner, lease, tool, paid, hist>>

\* Requests are handled one at a time, and only while a turn of work has its handler registered.
Requested ==
    /\ Reads("tool")
    /\ IF turn.at \in {"starting", "running"} /\ turn.id \in Works /\ tool.at = "none"
       THEN tool' = [at |-> "asked", turn |-> Frame.id, call |-> Frame.call, aborted |-> FALSE] /\ UNCHANGED stopped
       ELSE StopsAdmission
    /\ UNCHANGED <<child, prov, owner, lease, turn, paid, hist>>

\* A frame too large, a failed write, a request that is not answered in time.
Fails ==
    /\ ~ stopped /\ child = "up" /\ StopsAdmission
    /\ UNCHANGED <<child, pipe, prov, owner, lease, turn, paid, hist>>

----------------------------------------------------------------------------
\* The call of a tool, in the steps between which its turn may end.

ToolRepeats == ~ tool.aborted /\ turn.active /\ tool.turn = turn.id

ToolScoped == ~ tool.aborted /\ turn.active /\ tool.turn = turn.id /\ tool.call \notin turn.calls

Scoped ==
    /\ tool.at = "asked"
    /\ tool' = [tool EXCEPT !.at = IF ToolScoped THEN "scoped" ELSE "refused"]
    /\ UNCHANGED <<child, stopped, pipe, prov, owner, lease, turn, paid, hist>>

\* The lease is awaited; then the handler runs.
Handles ==
    /\ tool.at = "scoped"
    /\ IF Held /\ ~ tool.aborted
       THEN /\ tool' = [tool EXCEPT !.at = "ran"]
            /\ turn' = [turn EXCEPT !.calls = IF turn.id = tool.turn THEN @ \cup {tool.call} ELSE @]
            /\ hist' = [hist EXCEPT !.effects[tool.turn][tool.call] = @ + 1]
       ELSE tool' = [tool EXCEPT !.at = "refused"] /\ UNCHANGED <<turn, hist>>
    /\ UNCHANGED <<child, stopped, pipe, prov, owner, lease, paid>>

\* What the handler returned goes on only if its turn still runs.
Returns ==
    /\ tool.at = "ran"
    /\ tool' = [tool EXCEPT !.at = IF ~ tool.aborted /\ turn.active /\ tool.turn = turn.id THEN "returned" ELSE "refused"]
    /\ UNCHANGED <<child, stopped, pipe, prov, owner, lease, turn, paid, hist>>

\* The lease is awaited again; the result is sent, or a refusal in its place, and nothing after an abort.
Sends ==
    /\ tool.at \in {"returned", "refused"}
    /\ tool' = NoTool
    /\ hist' = IF tool.at = "returned" /\ Held /\ ~ tool.aborted
               THEN [hist EXCEPT !.results = @ \cup {[turn |-> tool.turn, call |-> tool.call]}] ELSE hist
    /\ UNCHANGED <<child, stopped, pipe, prov, owner, lease, turn, paid>>

\* The callback takes longer than its limit: admission stops.
ToolTimesOut ==
    /\ tool.at # "none" /\ ~ tool.aborted
    /\ StopsAdmission
    /\ UNCHANGED <<child, pipe, prov, owner, lease, turn, paid, hist>>

----------------------------------------------------------------------------
\* The turn ends.

AnyDone(d) == TRUE

Completes(d) == d.id = turn.id

AnyFinal == turn.finals[turn.id] # {}

Answerable == Cardinality(turn.finals[turn.id]) = 1

Answer ==
    \E d \in turn.done :
        /\ Busy("running") /\ Completes(d)
        /\ IF Held /\ d.ok /\ Answerable /\ ~ owner.closing
           THEN /\ Keeps /\ UNCHANGED <<stopped, tool>>
                /\ hist' = [hist EXCEPT !.answers = @ \cup {[id |-> turn.id, text |-> CHOOSE x \in turn.finals[turn.id] : TRUE,
                                                             held |-> lease]}]
           ELSE Closes /\ UNCHANGED hist
        /\ UNCHANGED <<child, pipe, prov, lease, paid>>

\* An answer longer than 2000 characters is not given, and the owner kept.
TooLarge ==
    /\ Busy("running") /\ turn.id \in Questions /\ Held /\ Answerable
    /\ \E d \in turn.done : Completes(d) /\ d.ok
    /\ Keeps
    /\ UNCHANGED <<child, stopped, pipe, prov, lease, tool, paid, hist>>

\* No completion in time: the turn is interrupted, as far as it can be, and reported as unconfirmed.
\* An inbox keeps the owner of a timed out question to report the failure.
TimesOut ==
    /\ Busy("running")
    /\ \/ Closes
       \/ turn.id \in Questions /\ Keeps /\ UNCHANGED <<stopped, tool>>
    /\ UNCHANGED <<child, pipe, prov, lease, paid, hist>>

----------------------------------------------------------------------------
\* The owner closes.

Close ==
    /\ ~ owner.closed /\ ~ owner.shutting
    /\ owner' = [owner EXCEPT !.closing = TRUE, !.shutting = TRUE]
    /\ StopsAdmission
    /\ UNCHANGED <<child, pipe, prov, lease, turn, paid, hist>>

ReleasesEarly == TRUE

\* transport.close() waits until the process has closed.
ProcessClosed == child = "gone"

Released ==
    /\ owner.shutting /\ ProcessClosed
    /\ lease' = IF Held THEN "released" ELSE lease
    /\ owner' = [owner EXCEPT !.shutting = FALSE, !.closed = TRUE, !.running = turn.at # "none"]
    /\ UNCHANGED <<child, stopped, pipe, prov, turn, tool, paid, hist>>

\* The process survives both signals for two seconds each: the fence is kept.
Unconfirmed ==
    /\ owner.shutting /\ child = "up"
    /\ owner' = [owner EXCEPT !.shutting = FALSE, !.running = turn.at # "none"]
    /\ UNCHANGED <<child, stopped, pipe, prov, lease, turn, tool, paid, hist>>

LosesLease ==
    /\ Held /\ lease' = "lost"
    /\ UNCHANGED <<child, stopped, pipe, prov, owner, turn, tool, paid, hist>>

----------------------------------------------------------------------------
Next ==
    \/ \E i \in Ids : Responds(i) \/ SaysFinal(i) \/ SaysDone(i) \/ CallsTool(i)
    \/ Exits \/ Run \/ Throws \/ Profile \/ Reserve \/ Claim \/ Begin
    \/ Started \/ Final \/ Arrives \/ Requested \/ Fails
    \/ Scoped \/ Handles \/ Returns \/ Sends \/ ToolTimesOut
    \/ Answer \/ TooLarge \/ TimesOut \/ Close \/ Released \/ Unconfirmed \/ LosesLease

Spec == Init /\ [][Next]_vars

----------------------------------------------------------------------------
\* The variables have their types.
TypeOK ==
    /\ child \in {"up", "gone"} /\ stopped \in BOOLEAN /\ lease \in {"held", "lost", "released"}
    /\ owner \in [running : BOOLEAN, closing : BOOLEAN, shutting : BOOLEAN, closed : BOOLEAN]
    /\ turn.id \in Ids \cup {"none"} /\ tool.at \in {"none", "asked", "scoped", "ran", "returned", "refused"}
    /\ paid.reserved \subseteq Ids /\ paid.claimed \subseteq Ids

\* The fence of a session is never released while its provider process could still accept a turn.
FenceCoversProcess == lease = "released" \/ owner.closed => child = "gone"

\* An answer is that of the turn which was asked for: the provider completed it, and every final text
\* that it had given by then is the one answered; the owner held the lease when it took the answer.
AnswersAreExact ==
    \A a \in hist.answers :
        /\ a.text \in prov[a.id].texts /\ a.held = "held"
        /\ \E d \in prov[a.id].dones : d.ok /\ d.texts \subseteq {a.text}

\* A question or a work starts one turn of the provider at most, and has been paid for and claimed before.
TurnsStartOnce ==
    \A i \in Ids : hist.starts[i] <= 1 /\ (hist.starts[i] = 1 => i \in paid.reserved \cap paid.claimed)

\* Each call of a tool takes effect once at most, whatever the provider repeats; a result that the
\* provider receives is of such a call, in a turn of work that was started.
CallsRunOnce ==
    /\ \A i \in Works, c \in Calls : hist.effects[i][c] <= 1
    /\ \A r \in hist.results : hist.effects[r.turn][r.call] = 1 /\ hist.starts[r.turn] = 1

CodexTurnsSafe == TypeOK /\ FenceCoversProcess /\ AnswersAreExact /\ TurnsStartOnce /\ CallsRunOnce
=============================================================================
