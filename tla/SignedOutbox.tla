---------------------------- MODULE SignedOutbox ----------------------------
(***************************************************************************)
(* The signed request outbox of the relay client (class AgentFabricClient  *)
(* in packages/relay-client/src/index.ts).                                 *)
(*                                                                         *)
(* A client numbers its signed requests within a protocol session, keeps   *)
(* at most one of them pending, and saves its state to a file BEFORE the   *)
(* request leaves the device.  A pending request whose outcome is unknown  *)
(* is sent again, with the same message id, by the next request or by the  *)
(* next process.  Requests that carry content are never saved and never    *)
(* sent twice.  Accepted task completions stay listed in the file until    *)
(* the CLI acknowledges them.                                              *)
(*                                                                         *)
(* Several clients may be open on one state file; each of them works on    *)
(* its own copy in memory and the last one to save wins.  An isolated      *)
(* client starts from an empty state and saves nothing.                    *)
(***************************************************************************)
EXTENDS Integers, FiniteSets

CONSTANTS
    Clients,      \* client objects over one protocol-state file
    Isolated,     \* those opened with isolatedSession
    Requests,     \* application requests: a method, a route and a body
    Kind,         \* what the route of each request stands for
    SessionOpen,  \* the request POST /agent-fabric/sessions
    None,         \* no request, no message
    Capacity,     \* limit on stored task completions (1000 in the code)
    MaxSessions, MaxMessages,  \* bounds on the identifiers drawn
    MaxFaults, MaxDiskFaults   \* bounds on crashes, lost connections, failed saves

Verdicts == {"ok", "unusable", "rejected", "unavailable"}
Kinds == {"plain", "content", "connect", "completion", "enforcement"}

ASSUME OutboxAssumption ==
    /\ Isolated \subseteq Clients
    /\ Kind \in [Requests -> Kinds]
    /\ SessionOpen \notin Requests
    /\ None \notin Requests \cup {SessionOpen} \cup Clients \cup Verdicts
    /\ {Capacity, MaxSessions, MaxMessages, MaxFaults, MaxDiskFaults} \subseteq Nat

AllRequests == Requests \cup {SessionOpen}

Message == [id : Nat, req : AllRequests, session : Nat, seq : Nat]

ASSUME NoneIsNoMessage == None \notin Message

ProtocolState == [session : Nat,    \* 0 is the null session
                  next : Nat,
                  pending : Message \cup {None},
                  recovered : SUBSET Requests]

Phases == {"closed", "opened", "fresh", "ready", "begin", "build", "send", "signed", "await"}

VARIABLES
    disk,       \* the protocol-state file
    mem,        \* each client's copy of it
    pc,         \* where each client is
    call,       \* the request a client is serving
    aim,        \* what the pending request is sent for
    wire,       \* requests under way to HQ
    reply,      \* HQ's answer on a client's current connection
    applied,    \* messages HQ accepted
    refused,    \* messages HQ rejected for good
    sent,       \* every message ever put on the wire
    answered,   \* requests whose caller was told they succeeded
    acked,      \* completions the CLI acknowledged
    ids, sessions, faults, diskFaults   \* counters

vars == <<disk, mem, pc, call, aim, wire, reply, applied, refused, sent,
          answered, acked, ids, sessions, faults, diskFaults>>
hq == <<applied, refused>>
counters == <<ids, sessions, faults, diskFaults>>

-----------------------------------------------------------------------------
KindOf(r) == IF r = SessionOpen THEN "plain" ELSE Kind[r]
IsContentBearing(r) == KindOf(r) = "content"
\* Mutant: an interrupted content request is sent again when a session opens.
RebuildsConnectOnly(r) == KindOf(r) = "connect"
IsExplicitlyRebuilt(r) == KindOf(r) \in {"content", "connect"}

State(session, next, pending, recovered) ==
    [session |-> session, next |-> next, pending |-> pending, recovered |-> recovered]

EmptyState == State(0, 1, None, {})

WithPending(s, m) == State(s.session, s.next, m, s.recovered)

\* Mutants: the receipts are not stored, or are only ever added to.
ForgetsReceipts(s, R) == s
MergesReceipts(s, R) == State(s.session, s.next, s.pending, s.recovered \cup R)

WithRecovered(s, R) == State(s.session, s.next, s.pending, R)

\* Mutant: the sequence number of a dropped request is used again.
SettledInPlace(s) == State(s.session, s.next, None, s.recovered)

\* The state after the pending request is given up or acknowledged.
Settled(s) == State(s.session, s.next + 1, None, s.recovered)

\* What #persist writes for the state s in memory.
Durable(s) ==
    IF s.pending # None /\ IsExplicitlyRebuilt(s.pending.req) THEN Settled(s) ELSE s

\* Mutant: the limit is off by one.
OneTooMany(s, r) ==
    /\ KindOf(r) = "completion"
    /\ r \notin s.recovered
    /\ Cardinality(s.recovered) > Capacity

\* A completion that would not fit among the stored ones.
OverCapacity(s, r) ==
    /\ KindOf(r) = "completion"
    /\ r \notin s.recovered
    /\ Cardinality(s.recovered) >= Capacity

\* Every signed request runs under the device-wide signing control.
UnderControl == {"build", "send", "signed", "await"}
ControlFree(c) == \A d \in Clients \ {c} : pc[d] \notin UnderControl

\* Where an exception leaves the client: openSession gives the object up.
Thrown(c) == IF aim[c] = "open" \/ call[c] = SessionOpen THEN "closed" ELSE "ready"

GoTo(c, p) == pc' = [pc EXCEPT ![c] = p]

\* Mutant: an isolated client saves its state like any other.
SavesIsolated(c, s, next) ==
    /\ mem' = [mem EXCEPT ![c] = s]
    /\ disk' = Durable(s)
    /\ GoTo(c, next)
    /\ UNCHANGED diskFaults

Saved(c, s, next) ==
    /\ mem' = [mem EXCEPT ![c] = s]
    /\ disk' = IF c \in Isolated THEN disk ELSE Durable(s)
    /\ GoTo(c, next)
    /\ UNCHANGED diskFaults

\* #persist throws: before the file is replaced, or after that when the host
\* is withdrawn while its directory is flushed.
SaveFailsTo(c, s, next) ==
    /\ c \notin Isolated
    /\ diskFaults < MaxDiskFaults
    /\ diskFaults' = diskFaults + 1
    /\ mem' = [mem EXCEPT ![c] = s]
    /\ disk' \in {disk, Durable(s)}
    /\ GoTo(c, next)

SaveFails(c, s) == SaveFailsTo(c, s, Thrown(c))

Save(c, s, next) == Saved(c, s, next) \/ SaveFails(c, s)

Init ==
    /\ disk = EmptyState
    /\ mem = [c \in Clients |-> EmptyState]
    /\ pc = [c \in Clients |-> "closed"]
    /\ call = [c \in Clients |-> None]
    /\ aim = [c \in Clients |-> "open"]
    /\ wire = {}
    /\ reply = [c \in Clients |-> None]
    /\ applied = {} /\ refused = {} /\ sent = {}
    /\ answered = {} /\ acked = {}
    /\ ids = 0 /\ sessions = 0 /\ faults = 0 /\ diskFaults = 0

-----------------------------------------------------------------------------
(* The client *)

\* AgentFabricClient.open: read the file, or start from nothing.
Open(c) ==
    /\ pc[c] = "closed"
    /\ mem' = [mem EXCEPT ![c] = IF c \in Isolated THEN EmptyState ELSE disk]
    /\ GoTo(c, "opened")
    /\ UNCHANGED <<disk, call, aim, wire, reply, hq, sent, answered, acked, counters>>

\* openSession, up to the new session: drop or send what is pending.
OpenSession(c) ==
    /\ pc[c] \in {"opened", "ready"}
    /\ call' = [call EXCEPT ![c] = SessionOpen]
    /\ aim' = [aim EXCEPT ![c] = "open"]
    /\ LET p == mem[c].pending
           dropped == WithPending(mem[c], None) IN
       \/ /\ p = None
          /\ GoTo(c, "fresh")
          /\ UNCHANGED <<disk, mem, diskFaults>>
       \/ /\ p # None /\ IsExplicitlyRebuilt(p.req)
          /\ Saved(c, dropped, "fresh") \/ SaveFailsTo(c, dropped, "closed")
       \/ /\ p # None /\ ~IsExplicitlyRebuilt(p.req)
          /\ GoTo(c, "begin")
          /\ UNCHANGED <<disk, mem, diskFaults>>
    /\ UNCHANGED <<wire, reply, hq, sent, answered, acked, ids, sessions, faults>>

\* openSession, the rest: a new session, saved, then announced to HQ.
NewSession(c) ==
    /\ pc[c] = "fresh"
    /\ sessions < MaxSessions
    /\ sessions' = sessions + 1
    /\ Save(c, State(sessions + 1, 1, None, mem[c].recovered), "begin")
    /\ aim' = [aim EXCEPT ![c] = "call"]
    /\ UNCHANGED <<call, wire, reply, hq, sent, answered, acked, ids, faults>>

\* signedGet and signedPost: the request at the head of the client's queue.
\* Only the relay executes tasks, and it posts the completion of a task once
\* more only while no receipt for it is stored.
Request(c, r) ==
    /\ pc[c] = "ready"
    /\ KindOf(r) = "completion" => c \notin Isolated /\ r \notin acked \cup mem[c].recovered
    /\ call' = [call EXCEPT ![c] = r]
    /\ aim' = [aim EXCEPT ![c] = "call"]
    /\ GoTo(c, "begin")
    /\ UNCHANGED <<disk, mem, wire, reply, hq, sent, answered, acked, counters>>

\* withDeviceSigningControl, then the head of #signedRequestWithSigningControl.
TakeControl(c) ==
    /\ pc[c] = "begin"
    /\ ControlFree(c)
    /\ LET p == mem[c].pending IN
       \/ /\ p = None
          /\ GoTo(c, "build")
          /\ UNCHANGED <<disk, mem, diskFaults>>
       \/ /\ p # None /\ aim[c] = "call" /\ IsContentBearing(p.req)
          /\ Save(c, Settled(mem[c]), "build")
       \/ /\ p # None /\ ~(aim[c] = "call" /\ IsContentBearing(p.req))
          /\ GoTo(c, "send")
          /\ UNCHANGED <<disk, mem, diskFaults>>
    /\ UNCHANGED <<call, aim, wire, reply, hq, sent, answered, acked, ids, sessions, faults>>

\* The control is not free before its timeout.
ControlBusy(c) ==
    /\ pc[c] = "begin"
    /\ ~ControlFree(c)
    /\ GoTo(c, Thrown(c))
    /\ UNCHANGED <<disk, mem, call, aim, wire, reply, hq, sent, answered, acked, counters>>

\* Mutant: the room for a completion is not checked before it is signed.
BuildUnchecked(c) ==
    /\ pc[c] = "build"
    /\ ids < MaxMessages
    /\ ids' = ids + 1
    /\ aim' = [aim EXCEPT ![c] = "own"]
    /\ Save(c, WithPending(mem[c], [id |-> ids, req |-> call[c],
                                   session |-> mem[c].session, seq |-> mem[c].next]), "send")
    /\ UNCHANGED <<call, wire, reply, hq, sent, answered, acked, sessions, faults>>

\* Sign a new message for the call and save it as pending.
Build(c) ==
    /\ pc[c] = "build"
    /\ LET m == [id |-> ids, req |-> call[c], session |-> mem[c].session, seq |-> mem[c].next] IN
       \/ /\ OverCapacity(mem[c], call[c])
          /\ GoTo(c, Thrown(c))
          /\ UNCHANGED <<disk, mem, aim, ids, diskFaults>>
       \/ /\ ~OverCapacity(mem[c], call[c])
          /\ ids < MaxMessages
          /\ ids' = ids + 1
          /\ aim' = [aim EXCEPT ![c] = "own"]
          /\ Save(c, WithPending(mem[c], m), "send")
    /\ UNCHANGED <<call, wire, reply, hq, sent, answered, acked, sessions, faults>>

\* An action acknowledgement older than eight minutes becomes a new message.
Refresh(c) ==
    /\ pc[c] = "send"
    /\ LET p == mem[c].pending
           m == [id |-> ids, req |-> p.req, session |-> p.session, seq |-> p.seq + 1] IN
       /\ KindOf(p.req) = "enforcement"
       /\ ids < MaxMessages
       /\ Save(c, State(mem[c].session, p.seq + 1, m, mem[c].recovered), "signed")
    /\ ids' = ids + 1
    /\ UNCHANGED <<call, aim, wire, reply, hq, sent, answered, acked, sessions, faults>>

\* The request leaves for HQ; a signature older than four minutes is renewed
\* under the same message id, which also saves the state once more.  The code
\* first drops a completion that does not fit; PendingFits says it always does.
Transmit(c) ==
    /\ pc[c] \in {"send", "signed"}
    /\ \/ /\ \/ GoTo(c, "await") /\ UNCHANGED <<disk, mem, diskFaults>>
             \/ Saved(c, mem[c], "await")
          /\ wire' = wire \cup {[msg |-> mem[c].pending, to |-> c]}
          /\ sent' = sent \cup {mem[c].pending}
       \/ SaveFails(c, mem[c]) /\ UNCHANGED <<wire, sent>>
    /\ UNCHANGED <<call, aim, reply, hq, answered, acked, ids, sessions, faults>>

\* Mutant: the answer to a recovered request is handed to the next caller.
AnswersNextCaller(c) == IF aim[c] = "open" THEN "fresh" ELSE "ready"

\* What follows an accepted request: the session, the call, or the caller.
Follows(c) ==
    CASE aim[c] = "open" -> "fresh"
      [] aim[c] = "call" /\ mem[c].pending.req # call[c] -> "build"
      [] OTHER -> "ready"

\* HQ accepted the pending request.
Accepted(c) ==
    /\ pc[c] = "await" /\ reply[c] = "ok"
    /\ LET p == mem[c].pending
           s == Settled(IF KindOf(p.req) = "completion"
                        THEN WithRecovered(mem[c], mem[c].recovered \cup {p.req}) ELSE mem[c])
       IN \/ /\ Saved(c, s, Follows(c))
             /\ answered' = IF Follows(c) = "ready" THEN answered \cup {call[c]} ELSE answered
          \/ SaveFails(c, s) /\ UNCHANGED answered
    /\ reply' = [reply EXCEPT ![c] = None]
    /\ UNCHANGED <<call, aim, wire, hq, sent, acked, ids, sessions, faults>>

\* Mutant: a rejected request stays in the outbox.
KeepsRejected(c) ==
    /\ pc[c] = "await" /\ reply[c] = "rejected"
    /\ GoTo(c, Thrown(c))
    /\ reply' = [reply EXCEPT ![c] = None]
    /\ UNCHANGED <<disk, mem, call, aim, wire, hq, sent, answered, acked, counters>>

\* A definitive rejection (4xx except 408 and 429) settles the request too.
Rejected(c) ==
    /\ pc[c] = "await" /\ reply[c] = "rejected"
    /\ Save(c, Settled(mem[c]), Thrown(c))
    /\ reply' = [reply EXCEPT ![c] = None]
    /\ UNCHANGED <<call, aim, wire, hq, sent, answered, acked, ids, sessions, faults>>

\* Mutant: every answer settles the request.
SettlesUnsettled(c) ==
    /\ pc[c] = "await" /\ reply[c] \in {"unusable", "unavailable"}
    /\ Save(c, Settled(mem[c]), Thrown(c))
    /\ reply' = [reply EXCEPT ![c] = None]
    /\ UNCHANGED <<call, aim, wire, hq, sent, answered, acked, ids, sessions, faults>>

\* 408, 429, 5xx, or a completion without a usable receipt: it stays pending.
Unsettled(c) ==
    /\ pc[c] = "await" /\ reply[c] \in {"unusable", "unavailable"}
    /\ GoTo(c, Thrown(c))
    /\ reply' = [reply EXCEPT ![c] = None]
    /\ UNCHANGED <<disk, mem, call, aim, wire, hq, sent, answered, acked, counters>>

\* Mutant: an abandoned connection stays open, and its late answer is read.
NoConnection(c) == {}

Connection(c) == {w \in wire : w.to = c}
Orphaned(c) == (wire \ Connection(c)) \cup {[msg |-> w.msg, to |-> None] : w \in Connection(c)}

\* The connection fails: the request may be lost or still on its way to HQ.
Disconnect(c) ==
    /\ pc[c] = "await"
    /\ faults < MaxFaults
    /\ faults' = faults + 1
    /\ wire' \in {wire \ Connection(c), Orphaned(c)}
    /\ reply' = [reply EXCEPT ![c] = None]
    /\ GoTo(c, Thrown(c))
    /\ UNCHANGED <<disk, mem, call, aim, hq, sent, answered, acked, ids, sessions, diskFaults>>

\* acknowledgeRecoveredTaskCompletion, in the client's queue.
Acknowledge(c, r) ==
    /\ pc[c] = "ready"
    /\ r \in mem[c].recovered
    /\ LET s == WithRecovered(mem[c], mem[c].recovered \ {r}) IN
       \/ Saved(c, s, "ready") /\ acked' = acked \cup {r}
       \/ SaveFails(c, s) /\ UNCHANGED acked
    /\ UNCHANGED <<call, aim, wire, reply, hq, sent, answered, ids, sessions, faults>>

\* The command or the workspace loop that owns the client ends.
Close(c) ==
    /\ pc[c] = "ready"
    /\ GoTo(c, "closed")
    /\ UNCHANGED <<disk, mem, call, aim, wire, reply, hq, sent, answered, acked, counters>>

\* The process dies at any point.
Crash(c) ==
    /\ pc[c] # "closed"
    /\ faults < MaxFaults
    /\ faults' = faults + 1
    /\ wire' \in {wire \ Connection(c), Orphaned(c)}
    /\ reply' = [reply EXCEPT ![c] = None]
    /\ GoTo(c, "closed")
    /\ UNCHANGED <<disk, mem, call, aim, hq, sent, answered, acked, ids, sessions, diskFaults>>

-----------------------------------------------------------------------------
(* HQ, external: at-least-once delivery with a deterministic result per     *)
(* message id and strictly increasing sequences within a session.           *)

Answer(w, v) ==
    /\ wire' = wire \ {w}
    /\ reply' = IF w.to = None THEN reply ELSE [reply EXCEPT ![w.to] = v]
    /\ UNCHANGED <<disk, mem, pc, call, aim, sent, answered, acked, ids, sessions, diskFaults>>

Monotonic(m) == \A a \in applied : a.session = m.session => a.seq < m.seq

HqAccept(w) ==
    /\ w.msg \notin refused
    /\ w.msg \in applied \/ Monotonic(w.msg)
    /\ applied' = applied \cup {w.msg}
    /\ Answer(w, "ok")
    /\ UNCHANGED <<refused, faults>>

HqRefuse(w) ==
    /\ w.msg \notin applied
    /\ refused' = refused \cup {w.msg}
    /\ Answer(w, "rejected")
    /\ UNCHANGED <<applied, faults>>

\* The result is committed, but the answer does not carry a usable receipt.
HqUnusable(w) ==
    /\ faults < MaxFaults
    /\ w.msg \notin refused
    /\ w.msg \in applied \/ Monotonic(w.msg)
    /\ KindOf(w.msg.req) = "completion"
    /\ faults' = faults + 1
    /\ applied' = applied \cup {w.msg}
    /\ Answer(w, "unusable")
    /\ UNCHANGED refused

HqUnavailable(w) ==
    /\ faults < MaxFaults
    /\ faults' = faults + 1
    /\ Answer(w, "unavailable")
    /\ UNCHANGED hq

Hq == \E w \in wire : HqAccept(w) \/ HqRefuse(w) \/ HqUnusable(w) \/ HqUnavailable(w)

-----------------------------------------------------------------------------
\* What the client does without being asked, once a call has begun.
Step(c) ==
    \/ OpenSession(c) \/ NewSession(c) \/ TakeControl(c) \/ ControlBusy(c) \/ Build(c)
    \/ Refresh(c) \/ Transmit(c) \/ Accepted(c) \/ Rejected(c) \/ Unsettled(c)

Next ==
    \/ \E c \in Clients : Open(c) \/ Step(c) \/ Disconnect(c) \/ Close(c) \/ Crash(c)
    \/ \E c \in Clients, r \in Requests : Request(c, r) \/ Acknowledge(c, r)
    \/ Hq

Spec == Init /\ [][Next]_vars

\* A relay is restarted, its loop polls or ends, a started call runs on, and
\* HQ decides on what reaches it.
Fairness ==
    /\ \A c \in Clients :
         /\ WF_vars(Open(c))
         /\ WF_vars(Step(c))
         /\ WF_vars(Close(c) \/ \E r \in Requests : Request(c, r))
    /\ WF_vars(Hq)

FairSpec == Spec /\ Fairness

-----------------------------------------------------------------------------
(* Properties *)

IsCompletion(r) == KindOf(r) = "completion"

\* One client object at a time saves to the file.
SingleWriter == \A c, d \in Clients \ Isolated : c = d

TypeOK ==
    /\ disk \in ProtocolState
    /\ mem \in [Clients -> ProtocolState]
    /\ pc \in [Clients -> Phases]
    /\ call \in [Clients -> AllRequests \cup {None}]
    /\ aim \in [Clients -> {"open", "call", "own"}]
    /\ wire \subseteq [msg : Message, to : Clients \cup {None}]
    /\ reply \in [Clients -> Verdicts \cup {None}]
    /\ applied \subseteq Message /\ refused \subseteq Message /\ sent \subseteq Message
    /\ answered \subseteq AllRequests /\ acked \subseteq Requests
    /\ {ids, sessions, faults, diskFaults} \subseteq Nat

\* No two different messages carry the same sequence number of one session,
\* through drops, rejections, refreshed acknowledgements and restarts: HQ
\* would take the second for a replay of the first.  It needs saves that
\* succeed: after one that failed, memory is ahead of what a restart reads.
SequenceNeverReused ==
    \A m, n \in sent : m.session = n.session /\ m.seq = n.seq => m = n

\* A completion HQ accepted stays in the file, pending or stored with its
\* receipt, until the CLI has acknowledged it: otherwise the trajectory
\* staged for it is never sent.
CompletionRetained ==
    \A m \in applied : IsCompletion(m.req) =>
        m.req \in acked \cup disk.recovered \/ disk.pending = m

\* A completion the CLI has acknowledged is not listed again: the relay
\* refuses to start on a listed completion whose staged evidence is gone.
AcknowledgedForGood ==
    \A r \in acked : r \notin disk.recovered /\ \A c \in Clients : pc[c] # "closed" => r \notin mem[c].recovered

\* Success is reported to a caller, and a completion stored, only for a
\* request HQ accepted, whichever request the answer was fetched by.
AcceptedByHq(r) == \E m \in applied : m.req = r

ReceiptsAreReal ==
    /\ \A r \in answered \cup disk.recovered : AcceptedByHq(r)
    /\ \A c \in Clients : \A r \in mem[c].recovered : AcceptedByHq(r)

\* The stored completions never outgrow their limit: a longer list makes the
\* file invalid and the device cannot open it again.
StoreBounded ==
    /\ IsFiniteSet(disk.recovered) /\ Cardinality(disk.recovered) <= Capacity
    /\ \A c \in Clients : /\ IsFiniteSet(mem[c].recovered)
                          /\ Cardinality(mem[c].recovered) <= Capacity

\* The room for a completion is checked before it is signed and still there
\* whenever it is sent: dropping it at that point could lose an accepted one.
PendingFits ==
    \A c \in Clients : mem[c].pending # None => ~OverCapacity(mem[c], mem[c].pending.req)

\* What holds of every state when one client saves to the file.
OutboxSafe ==
    SequenceNeverReused /\ CompletionRetained /\ AcknowledgedForGood /\ StoreBounded /\ PendingFits

\* A message that carries content goes out once: neither a retry nor another
\* process sends it again without the caller checking the policy anew.
ContentNeverResent ==
    [][\A w \in wire' \ wire : w.to # None /\ IsContentBearing(w.msg.req) => w.msg \notin sent]_vars

\* No request stays in the outbox for ever: rejections, full stores and
\* refreshed acknowledgements must not block the device.
OutboxDrains ==
    \A i \in 0 .. MaxMessages :
        (disk.pending # None /\ disk.pending.id = i)
            ~> (disk.pending = None \/ disk.pending.id # i)

\* The ledger of task completions this outbox keeps: what a restart finds.
Completions == {r \in Requests : IsCompletion(r)}

Stage(t) ==
    CASE t \in acked -> "acknowledged"
      [] t \in disk.recovered \ acked -> "stored"
      [] t \notin acked \cup disk.recovered /\ disk.pending # None /\ disk.pending.req = t ->
            IF disk.pending \in applied THEN "accepted" ELSE "offered"
      [] OTHER -> "new"

Ledger == INSTANCE CompletionLedger WITH stage <- [t \in Completions |-> Stage(t)]

\* The file and HQ together move every completion through the ledger's
\* stages only: none skips, none goes back once accepted.
ImplementsLedger == Ledger!Spec

=============================================================================
