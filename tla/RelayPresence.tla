---------------------------- MODULE RelayPresence ----------------------------
(***************************************************************************)
(* The relay gateway (apps/relay-gateway/src/server.ts, presence.ts,       *)
(* protocol.ts).  A device keeps a socket to some gateway.  The messages   *)
(* of a socket are handled one after the other on a promise chain: each is *)
(* parsed, renews the presence of its device in Redis, goes to HQ and is   *)
(* answered.  Closing a socket takes back the presence it set last, and    *)
(* leaves the chain running.                                               *)
(*                                                                         *)
(* A gateway sends its commands to Redis over one connection, in order.  A *)
(* touch that is given up stays in that queue.  The value of a presence    *)
(* names its session and time; here, the socket and the number of the      *)
(* message.  Whether a message is well formed is a choice.                 *)
(***************************************************************************)
EXTENDS Integers, Sequences, SequencesExt

CONSTANTS
    Gateways,
    Sockets,      \* connections, each used once
    Device,       \* the device of each socket
    Gateway,      \* the gateway of each socket
    None,
    MaxMessages,  \* bound on messages of one socket
    MaxFaults     \* bound on time limits, lost connections and dead gateways

PresenceAssumption ==
    /\ Gateway \in [Sockets -> Gateways]
    /\ MaxMessages \in Nat /\ MaxFaults \in Nat
    /\ None \notin Sockets \X (1 .. MaxMessages)

Devices == {Device[s] : s \in Sockets}
Values == Sockets \X (1 .. MaxMessages)
Commands == [op : {"set", "del"}, value : Values]
Stages == {"parse", "presence", "upstream"}

VARIABLES
    presence,  \* Redis: the value of each device
    queue,     \* of each gateway: commands not yet executed
    ready,     \* of each gateway: its connection to Redis is up
    sock,      \* of each socket: "new", "open" or "closed"
    received,  \* messages received on it
    current,   \* message its chain is handling (0: none) ...
    stage,     \* ... and how far it is
    done,      \* messages whose handling has ended
    last,      \* lastPresence
    answers,   \* what the device has got: <<message, status>>
    recorded,  \* history: values Redis has ever held
    faults

redis == <<presence, queue, ready, recorded>>
chain == <<current, stage, done>>
vars == <<redis, sock, received, chain, last, answers, faults>>

Init ==
    /\ presence = [d \in Devices |-> None]
    /\ queue = [g \in Gateways |-> <<>>]
    /\ ready = [g \in Gateways |-> TRUE]
    /\ sock = [s \in Sockets |-> "new"]
    /\ received = [s \in Sockets |-> 0]
    /\ current = [s \in Sockets |-> 0]
    /\ stage = [s \in Sockets |-> "parse"]
    /\ done = [s \in Sockets |-> 0]
    /\ last = [s \in Sockets |-> None]
    /\ answers = [s \in Sockets |-> <<>>]
    /\ recorded = {}
    /\ faults = 0

-----------------------------------------------------------------------------
(* The device. *)

Connect(s) ==
    /\ sock[s] = "new"
    /\ ready[Gateway[s]]
    /\ sock' = [sock EXCEPT ![s] = "open"]
    /\ UNCHANGED <<redis, received, chain, last, answers, faults>>

Receive(s) ==
    /\ sock[s] = "open"
    /\ received[s] < MaxMessages
    /\ received' = [received EXCEPT ![s] = @ + 1]
    /\ UNCHANGED <<redis, sock, chain, last, answers, faults>>

-----------------------------------------------------------------------------
(* The handling of a message. *)

Command(s, op, value) ==
    queue' = [queue EXCEPT ![Gateway[s]] = Append(@, [op |-> op, value |-> value])]

\* A closed socket drops what is sent.
Answer(s, status) ==
    /\ answers' = IF sock[s] = "open"
                  THEN [answers EXCEPT ![s] = Append(@, <<current[s], status>>)]
                  ELSE answers
    /\ current' = [current EXCEPT ![s] = 0]
    /\ done' = [done EXCEPT ![s] = current[s]]
    /\ stage' = [stage EXCEPT ![s] = "parse"]

\* Mutant: the next message does not wait for the end of the chain.
SkipsTheChain(s) ==
    /\ done[s] < received[s]
    /\ current' = [current EXCEPT ![s] = received[s]]
    /\ stage' = [stage EXCEPT ![s] = "parse"]
    /\ UNCHANGED <<redis, sock, received, done, last, answers, faults>>

NextMessage(s) ==
    /\ current[s] = 0
    /\ done[s] < received[s]
    /\ current' = [current EXCEPT ![s] = done[s] + 1]
    /\ stage' = [stage EXCEPT ![s] = "parse"]
    /\ UNCHANGED <<redis, sock, received, done, last, answers, faults>>

\* parseRelayRequest refuses the message: 400.
Refuse(s) ==
    /\ current[s] # 0 /\ stage[s] = "parse"
    /\ Answer(s, 400)
    /\ UNCHANGED <<redis, sock, received, last, faults>>

Touch(s) ==
    /\ current[s] # 0 /\ stage[s] = "parse"
    /\ Command(s, "set", <<s, current[s]>>)
    /\ stage' = [stage EXCEPT ![s] = "presence"]
    /\ UNCHANGED <<presence, ready, recorded, sock, received, current, done, last, answers, faults>>

\* After five seconds the touch is given up; the command stays where it is.
TouchTimesOut(s) ==
    /\ current[s] # 0 /\ stage[s] = "presence"
    /\ faults < MaxFaults
    /\ faults' = faults + 1
    /\ Answer(s, 503)
    /\ UNCHANGED <<redis, sock, received, last>>

\* HQ answers, or does not within thirty seconds.
Upstream(s) ==
    /\ current[s] # 0 /\ stage[s] = "upstream"
    /\ \/ Answer(s, 200) /\ UNCHANGED faults
       \/ faults < MaxFaults /\ faults' = faults + 1 /\ Answer(s, 503)
    /\ UNCHANGED <<redis, sock, received, last>>

\* The close handler: without a connection to Redis nothing is removed.  The
\* chain goes on with what the socket has received.
Close(s) ==
    /\ sock[s] = "open"
    /\ sock' = [sock EXCEPT ![s] = "closed"]
    /\ IF last[s] # None /\ ready[Gateway[s]]
       THEN Command(s, "del", last[s]) ELSE UNCHANGED queue
    /\ UNCHANGED <<presence, ready, recorded, received, chain, last, answers, faults>>

-----------------------------------------------------------------------------
(* Redis and its connections. *)

\* Mutant: whatever presence there is is removed.
RemovesAny(c) ==
    LET d == Device[c.value[1]]
    IN  presence' = [presence EXCEPT ![d] = IF c.op = "set" THEN c.value ELSE None]

\* SET, or the script that deletes the value it expects.
Execute(c) ==
    LET d == Device[c.value[1]]
    IN  presence' = [presence EXCEPT ![d] = IF c.op = "set" THEN c.value
                                            ELSE IF @ = c.value THEN None ELSE @]

Awaits(value) == current[value[1]] = value[2] /\ stage[value[1]] = "presence"

\* The answer resumes the handler that waits for it, if one still does.
Resumed(c) ==
    IF c.op = "set" /\ Awaits(c.value)
    THEN /\ stage' = [stage EXCEPT ![c.value[1]] = "upstream"]
         /\ last' = [last EXCEPT ![c.value[1]] = c.value]
    ELSE UNCHANGED <<stage, last>>

RedisExecutes(g) ==
    /\ ready[g] /\ queue[g] # <<>>
    /\ LET c == Head(queue[g]) IN
         /\ Execute(c)
         /\ recorded' = IF c.op = "set" THEN recorded \cup {c.value} ELSE recorded
         /\ Resumed(c)
    /\ queue' = [queue EXCEPT ![g] = Tail(@)]
    /\ UNCHANGED <<ready, sock, received, current, done, answers, faults>>

\* The connection breaks: the command on its way is rejected, executed or not;
\* the others wait for the connection to come back.
ConnectionLost(g) ==
    /\ ready[g]
    /\ faults < MaxFaults
    /\ faults' = faults + 1
    /\ ready' = [ready EXCEPT ![g] = FALSE]
    /\ IF queue[g] = <<>>
       THEN UNCHANGED <<presence, queue, recorded, chain, answers>>
       ELSE LET c == Head(queue[g])
                s == c.value[1]
            IN  /\ \/ Execute(c) /\ recorded' = IF c.op = "set" THEN recorded \cup {c.value} ELSE recorded
                   \/ UNCHANGED <<presence, recorded>>
                /\ queue' = [queue EXCEPT ![g] = Tail(@)]
                /\ IF c.op = "set" /\ Awaits(c.value)
                   THEN Answer(s, 503) ELSE UNCHANGED <<chain, answers>>
    /\ UNCHANGED <<sock, received, last>>

Reconnect(g) ==
    /\ ~ready[g]
    /\ ready' = [ready EXCEPT ![g] = TRUE]
    /\ UNCHANGED <<presence, queue, recorded, sock, received, chain, last, answers, faults>>

\* Mutant: the key is set without a time to live.
NeverExpires(d) == presence[d] # None /\ FALSE

\* A key that is not renewed for ninety seconds is gone.
Expire(d) ==
    /\ presence[d] # None
    /\ presence' = [presence EXCEPT ![d] = None]
    /\ UNCHANGED <<queue, ready, recorded, sock, received, chain, last, answers, faults>>

\* A gateway dies, or ends ten seconds after a signal, with what it had queued.
Die(g) ==
    LET its(s) == Gateway[s] = g
    IN  /\ faults < MaxFaults
        /\ faults' = faults + 1
        /\ queue' = [queue EXCEPT ![g] = <<>>]
        /\ sock' = [s \in Sockets |-> IF its(s) THEN "closed" ELSE sock[s]]
        /\ done' = [s \in Sockets |-> IF its(s) THEN received[s] ELSE done[s]]
        /\ current' = [s \in Sockets |-> IF its(s) THEN 0 ELSE current[s]]
        /\ stage' = [s \in Sockets |-> IF its(s) THEN "parse" ELSE stage[s]]
        /\ UNCHANGED <<presence, ready, recorded, received, last, answers>>

-----------------------------------------------------------------------------
Handle(s) == NextMessage(s) \/ Refuse(s) \/ Touch(s) \/ Upstream(s)

Next ==
    \/ \E s \in Sockets : Connect(s) \/ Receive(s) \/ Close(s) \/ Handle(s) \/ TouchTimesOut(s)
    \/ \E g \in Gateways : RedisExecutes(g) \/ ConnectionLost(g) \/ Reconnect(g) \/ Die(g)
    \/ \E d \in Devices : Expire(d)

\* Event loops go on, connections come back, and keys expire.
Fairness ==
    /\ \A s \in Sockets : WF_vars(Handle(s))
    /\ \A g \in Gateways : WF_vars(RedisExecutes(g)) /\ WF_vars(Reconnect(g))
    /\ \A d \in Devices : WF_vars(Expire(d))

Spec == Init /\ [][Next]_vars /\ Fairness

-----------------------------------------------------------------------------
TypeOK ==
    /\ presence \in [Devices -> Values \cup {None}]
    /\ queue \in [Gateways -> Seq(Commands)]
    /\ ready \in [Gateways -> BOOLEAN]
    /\ sock \in [Sockets -> {"new", "open", "closed"}]
    /\ received \in [Sockets -> 0 .. MaxMessages]
    /\ current \in [Sockets -> 0 .. MaxMessages]
    /\ stage \in [Sockets -> Stages]
    /\ done \in [Sockets -> 0 .. MaxMessages]
    /\ last \in [Sockets -> Values \cup {None}]
    /\ answers \in [Sockets -> Seq((1 .. MaxMessages) \X {200, 400, 503})]
    /\ recorded \subseteq Values
    /\ faults \in 0 .. MaxFaults

\* The messages of a socket are answered once each and in the order they came,
\* however long a touch or HQ takes.
AnsweredInOrder ==
    \A s \in Sockets :
        /\ \A i \in DOMAIN answers[s] : answers[s][i][1] = i
        /\ sock[s] = "open" => Len(answers[s]) = done[s]

\* HQ is asked only for a device whose presence has been recorded, and a socket
\* takes back only what it is known to have recorded.
RecordedFirst ==
    \A s \in Sockets :
        /\ stage[s] = "upstream" => last[s] = <<s, current[s]>>
        /\ last[s] # None => last[s] \in recorded

PresenceSafe == TypeOK /\ AnsweredInOrder /\ RecordedFirst

\* A presence disappears by expiry or by the close of the very socket that set
\* it: the old socket of a device that has come back elsewhere takes nothing away.
RemovesOnlyOwn ==
    \A d \in Devices :
        (presence[d] # None /\ presence'[d] = None) => Expire(d) \/ sock[presence[d][1]] = "closed"
RemovesItsOwn == [][RemovesOnlyOwn]_vars

\* Once every socket of a device is closed and none comes, its presence ends,
\* whatever was still queued, given up or lost.
Away(d) == \A s \in Sockets : Device[s] = d => sock[s] # "open"
Absent(d) == presence[d] = None
PresenceEnds == \A d \in Devices : <>[]Away(d) => <>[]Absent(d)
=============================================================================
