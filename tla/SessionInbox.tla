---------------------------- MODULE SessionInbox ----------------------------
(***************************************************************************)
(* The inbox of a named provider session: questions that HQ holds for a    *)
(* binding, answered by the one process that owns the session              *)
(* (cooperativeInboxSession.ts, codexInboxSession.ts, codexBoundSession.ts,*)
(* providerSessionChannel.ts and providerSessionReplyRecovery.ts, with the *)
(* rows they keep in the local vault).                                     *)
(*                                                                         *)
(* In mode "bridge" the owner drives a provider of its own: HQ's answer to *)
(* an acceptance says whether it is the first.  In mode "cooperative" the  *)
(* chat itself answers, at once or later: a checkpoint in the vault stands *)
(* for the offer until its answer is acknowledged.  An answer is staged in *)
(* the vault before it is sent.  Requests and responses get lost or are    *)
(* late, processes die, and the binding expires or is revoked.             *)
(***************************************************************************)
EXTENDS Naturals, FiniteSets

CONSTANTS
    Processes,
    Questions,
    Mortal,      \* the questions whose deadline may pass
    None,
    MaxFaults    \* bound on deaths, losses, failures, renewals and expiries together

InboxAssumption ==
    /\ Mortal \subseteq Questions /\ MaxFaults \in Nat
    /\ None \notin Processes \cup Questions \cup {"open", "settled", "fresh", "replay", "refused"}
    /\ None \notin [owner : Processes, life : Nat]

VARIABLES
    mode,
    hq,         \* of each question: its state at HQ and its answer
    past,       \* questions past their deadline
    wire,       \* acceptances and replies on their way to HQ
    binding,    \* "live", "expired" or "revoked"
    detached,   \* HQ has taken the binding's presence away
    lease,      \* the row of provider_session_leases: a process and its life
    offer,      \* of each question: its checkpoint, None, "open" or "settled"
    handoff,    \* of each question: who it was handed to, or None
    reply,      \* of each question: the staged answer and what became of it
    life, pc, cur, text, heard, consumed,   \* of each process
    turns,      \* history: the times each question was put to a provider or a chat
    faults

rows == <<offer, handoff, reply>>
held == <<binding, detached, lease>>
remote == <<hq, past, wire>>
locals == <<cur, text, heard, consumed>>
vars == <<mode, remote, held, rows, life, pc, locals, turns, faults>>

NoReply == [text |-> None, acked |-> FALSE, quarantined |-> FALSE]

Init ==
    /\ mode \in {"bridge", "cooperative"}
    /\ hq = [q \in Questions |-> [state |-> "queued", text |-> None]]
    /\ past = {} /\ wire = {}
    /\ binding = "live" /\ detached = FALSE /\ lease = None
    /\ offer = [q \in Questions |-> None]
    /\ handoff = [q \in Questions |-> None]
    /\ reply = [q \in Questions |-> NoReply]
    /\ life = [p \in Processes |-> 0]
    /\ pc = [p \in Processes |-> "out"]
    /\ cur = [p \in Processes |-> None] /\ text = [p \in Processes |-> None]
    /\ heard = [p \in Processes |-> None] /\ consumed = [p \in Processes |-> {}]
    /\ turns = [q \in Questions |-> 0]
    /\ faults = 0

Self(p) == [owner |-> p, life |-> life[p]]
Dead(l) == life[l.owner] # l.life
GoTo(p, step) == pc' = [pc EXCEPT ![p] = step]
Owns(p) == lease = Self(p) /\ binding = "live"

Pending == {q \in Questions : reply[q].text # None /\ ~ reply[q].acked /\ ~ reply[q].quarantined}
Open == {q \in Questions : offer[q] = "open"}

-----------------------------------------------------------------------------
(* The owner opens and closes *)

\* Mutant: the row of another owner is replaced.
TakesLease(p) == binding = "live" /\ lease # Self(p)

\* The lease is free, or its process is dead.
MayTake(p) == binding = "live" /\ (lease # None => Dead(lease))

OpenSession(p) ==
    /\ pc[p] = "out" /\ MayTake(p)
    /\ lease' = Self(p)
    /\ GoTo(p, "open")
    /\ UNCHANGED <<mode, remote, binding, detached, rows, life, locals, turns, faults>>

\* The channel reconnects; a detached binding stays away.
Connect(p) ==
    /\ pc[p] = "open"
    /\ GoTo(p, IF Owns(p) /\ ~ detached THEN "idle" ELSE "closing")
    /\ UNCHANGED <<mode, remote, held, rows, life, locals, turns, faults>>

Close(p) ==
    /\ pc[p] = "closing"
    /\ lease' = IF lease = Self(p) THEN None ELSE lease
    /\ GoTo(p, "out")
    /\ cur' = [cur EXCEPT ![p] = None] /\ text' = [text EXCEPT ![p] = None]
    /\ heard' = [heard EXCEPT ![p] = None] /\ consumed' = [consumed EXCEPT ![p] = {}]
    /\ UNCHANGED <<mode, remote, binding, detached, rows, life, turns, faults>>

\* HQ is told that the binding is gone, if it can be; a cooperative session is
\* revoked on the device in any case.
Retire(p) ==
    /\ pc[p] = "idle" /\ faults < MaxFaults /\ faults' = faults + 1
    /\ \E told \in BOOLEAN : detached' = (detached \/ (told /\ Owns(p)))
    /\ binding' = IF mode = "cooperative" THEN "revoked" ELSE binding
    /\ GoTo(p, "closing")
    /\ UNCHANGED <<mode, remote, lease, rows, life, locals, turns>>

-----------------------------------------------------------------------------
(* The channel: acceptances and replies *)

\* A request is sent by the owner only.
Send(p, op, q, what, waiting) ==
    /\ IF Owns(p)
       THEN /\ wire' = wire \cup {[op |-> op, q |-> q, text |-> what, by |-> p]}
            /\ GoTo(p, waiting)
       ELSE GoTo(p, "closing") /\ UNCHANGED wire
    /\ heard' = [heard EXCEPT ![p] = None]

\* What HQ makes of a request, and what it answers.
After(m) ==
    CASE m.op = "accept" /\ hq[m.q].state = "queued" -> [hq EXCEPT ![m.q].state = "accepted"]
      [] m.op = "reply" /\ hq[m.q].state = "accepted" ->
            [hq EXCEPT ![m.q] = [state |-> IF m.text = None THEN "failed" ELSE "answered", text |-> m.text]]
      [] OTHER -> hq
Response(m) ==
    CASE m.op = "accept" /\ hq[m.q].state = "queued" -> "fresh"
      [] m.op = "accept" /\ hq[m.q].state = "accepted" -> "replay"
      [] m.op = "reply" /\ hq[m.q].state = "accepted" -> "fresh"
      [] m.op = "reply" /\ hq[m.q].state \in {"answered", "failed"} /\ hq[m.q].text = m.text -> "replay"
      [] OTHER -> "refused"

Take(m) ==
    /\ m \in wire /\ wire' = wire \ {m}
    /\ hq' = After(m)
    /\ heard' = IF m.by = None THEN heard ELSE [heard EXCEPT ![m.by] = Response(m)]
    /\ UNCHANGED <<mode, past, held, rows, life, pc, cur, text, consumed, turns, faults>>

Waiting == {"accepting", "resending", "replying", "failed"}

\* Nothing comes back: the request is lost, its response is, or it is late.
Lose(p) ==
    /\ pc[p] \in Waiting /\ faults < MaxFaults /\ faults' = faults + 1
    /\ LET mine == {m \in wire : m.by = p} IN
       \/ wire' = wire \ mine
       \/ mine # {} /\ wire' = (wire \ mine) \cup {[m EXCEPT !.by = None] : m \in mine}
    /\ GoTo(p, "closing")
    /\ UNCHANGED <<mode, hq, past, held, rows, life, locals, turns>>

\* A response is good while the sender is the owner, and closes the channel otherwise.
Hear(p, good, next) == GoTo(p, IF heard[p] \in good /\ Owns(p) THEN next ELSE "closing")

-----------------------------------------------------------------------------
(* An answer of an earlier run comes first *)

\* Mutant: only questions are looked for.
SkipsPending(p) ==
    /\ pc[p] = "idle"
    /\ GoTo(p, "inbox") /\ UNCHANGED <<mode, remote, held, rows, life, locals, turns, faults>>

\* The staged answers that nobody has acknowledged, and then the checkpoints:
\* an open one is evidence of an interrupted offer, and ends the session.
Begin(p) ==
    /\ pc[p] = "idle"
    /\ \/ \E q \in Pending : GoTo(p, "read") /\ cur' = [cur EXCEPT ![p] = q]
       \/ /\ Pending = {} /\ cur' = [cur EXCEPT ![p] = None]
          /\ GoTo(p, IF mode = "cooperative" /\ Open # {} THEN "closing" ELSE "inbox")
    /\ text' = [text EXCEPT ![p] = None] /\ heard' = [heard EXCEPT ![p] = None]
    /\ UNCHANGED <<mode, remote, held, rows, life, consumed, turns, faults>>

Delivered(q) == hq[q].state = "answered" /\ hq[q].text = reply[q].text

Acknowledge(q) ==
    /\ reply' = [reply EXCEPT ![q].acked = TRUE]
    /\ offer' = IF offer[q] = "open" THEN [offer EXCEPT ![q] = "settled"] ELSE offer

\* reconcileProviderSessionReply: HQ is asked, and the answer sent again only if
\* HQ has none; what expired there is set apart.
Reconcile(p) ==
    /\ pc[p] \in {"read", "reread"}
    /\ LET q == cur[p] IN
       CASE ~ Owns(p) -> GoTo(p, "closing") /\ UNCHANGED <<wire, reply, offer, heard>>
         [] Owns(p) /\ pc[p] = "read" /\ hq[q].state = "accepted" /\ (handoff[q] = None \/ q \notin past) ->
              Send(p, "reply", q, reply[q].text, "resending") /\ UNCHANGED <<reply, offer>>
         [] Owns(p) /\ hq[q].state = "expired" ->
              /\ GoTo(p, "idle") /\ UNCHANGED <<wire, offer, heard>>
              /\ reply' = IF reply[q].acked THEN reply ELSE [reply EXCEPT ![q].quarantined = TRUE]
         [] Owns(p) /\ Delivered(q) ->
              GoTo(p, "idle") /\ Acknowledge(q) /\ UNCHANGED <<wire, heard>>
         [] OTHER -> GoTo(p, "closing") /\ UNCHANGED <<wire, reply, offer, heard>>
    /\ UNCHANGED <<mode, hq, past, held, handoff, life, cur, text, consumed, turns, faults>>

Resent(p) ==
    /\ pc[p] = "resending" /\ heard[p] # None
    /\ Hear(p, {"fresh", "replay"}, "reread")
    /\ UNCHANGED <<mode, remote, held, rows, life, locals, turns, faults>>

-----------------------------------------------------------------------------
(* A question is accepted *)

\* HQ offers what is queued, and what was accepted before.
Inbox(p) ==
    /\ pc[p] = "inbox"
    /\ \/ /\ Owns(p)
          /\ \E q \in Questions \ past :
               /\ hq[q].state \in {"queued", "accepted"}
               /\ cur' = [cur EXCEPT ![p] = q]
               /\ GoTo(p, IF mode = "bridge" THEN "accept" ELSE "offer")
       \/ GoTo(p, IF Owns(p) THEN "idle" ELSE "closing") /\ UNCHANGED cur
    /\ UNCHANGED <<mode, remote, held, rows, life, text, heard, consumed, turns, faults>>

\* Mutant: no checkpoint is left of the offer.
NoCheckpoint(p) ==
    /\ pc[p] = "offer" /\ GoTo(p, "accept")
    /\ UNCHANGED <<mode, remote, held, rows, life, locals, turns, faults>>

\* The cooperative session leaves a checkpoint before it accepts.
Checkpoint(p) ==
    /\ pc[p] = "offer"
    /\ LET q == cur[p] IN
       IF Owns(p) /\ q \notin past /\ offer[q] # "settled" /\ Open \subseteq {q}
       THEN offer' = [offer EXCEPT ![q] = "open"] /\ GoTo(p, "accept")
       ELSE GoTo(p, "closing") /\ UNCHANGED offer
    /\ UNCHANGED <<mode, remote, held, handoff, reply, life, locals, turns, faults>>

Accept(p) ==
    /\ pc[p] = "accept"
    /\ IF mode = "cooperative" /\ cur[p] \in past
       THEN GoTo(p, "closing") /\ UNCHANGED <<wire, heard>>
       ELSE Send(p, "accept", cur[p], None, "accepting")
    /\ UNCHANGED <<mode, hq, past, held, rows, life, cur, text, consumed, turns, faults>>

\* Mutant: an acceptance that HQ repeats is taken for the first.
AnyAcceptance(p) == heard[p] \in {"fresh", "replay"}

\* The bridge goes on only with the first acceptance; the checkpoint of a
\* cooperative session has been its own.
First(p) == heard[p] = "fresh" \/ (mode = "cooperative" /\ heard[p] = "replay")

\* A question whose context cannot be prepared is accepted only to fail it.
Accepted(p) ==
    /\ pc[p] = "accepting" /\ heard[p] # None
    /\ IF First(p) /\ Owns(p) /\ cur[p] \notin past /\ cur[p] \notin consumed[p]
       THEN /\ consumed' = [consumed EXCEPT ![p] = @ \cup {cur[p]}]
            /\ \/ GoTo(p, "turn") /\ turns' = [turns EXCEPT ![cur[p]] = @ + 1] /\ UNCHANGED handoff
               \/ mode = "bridge" /\ GoTo(p, "failing") /\ UNCHANGED <<turns, handoff>>
               \/ /\ mode = "cooperative" /\ handoff[cur[p]] = None /\ reply[cur[p]].text = None
                  /\ handoff' = [handoff EXCEPT ![cur[p]] = Self(p)]
                  /\ turns' = [turns EXCEPT ![cur[p]] = @ + 1]
                  /\ GoTo(p, "handed")
       ELSE GoTo(p, "closing") /\ UNCHANGED <<consumed, turns, handoff>>
    /\ UNCHANGED <<mode, remote, held, offer, reply, life, cur, text, heard, faults>>

-----------------------------------------------------------------------------
(* ... and answered *)

\* The chat submits its answer: it has to be the one the offer was handed to.
Submit(p) ==
    /\ pc[p] = "handed"
    /\ LET q == cur[p] IN
       IF Owns(p) /\ q \notin past /\ offer[q] = "open" /\ handoff[q] = Self(p)
       THEN GoTo(p, "stage") /\ text' = [text EXCEPT ![p] = Self(p)]
       ELSE GoTo(p, "closing") /\ UNCHANGED text
    /\ UNCHANGED <<mode, remote, held, rows, life, cur, heard, consumed, turns, faults>>

\* The turn ends with an answer, or with a failure to report.
Turn(p) ==
    /\ pc[p] = "turn"
    /\ \/ GoTo(p, "stage") /\ text' = [text EXCEPT ![p] = Self(p)]
       \/ GoTo(p, "failing") /\ UNCHANGED text
    /\ UNCHANGED <<mode, remote, held, rows, life, cur, heard, consumed, turns, faults>>

\* Mutant: the answer is staged when it was sent in vain.
SendsFirst(p) ==
    /\ pc[p] = "stage" /\ GoTo(p, "reply")
    /\ UNCHANGED <<mode, remote, held, rows, life, locals, turns, faults>>

\* The answer is durable before it is sent, whoever owns the session by now.
Stage(p) ==
    /\ pc[p] = "stage"
    /\ LET q == cur[p] IN
       IF binding # "revoked" /\ (mode = "bridge" \/ (Owns(p) /\ q \notin past)) /\ reply[q].text \in {None, text[p]}
       THEN reply' = [reply EXCEPT ![q].text = text[p]] /\ GoTo(p, "reply")
       ELSE GoTo(p, "closing") /\ UNCHANGED reply
    /\ UNCHANGED <<mode, remote, held, offer, handoff, life, locals, turns, faults>>

Reply(p) ==
    /\ pc[p] \in {"reply", "failing"}
    /\ IF mode = "cooperative" /\ cur[p] \in past
       THEN GoTo(p, "closing") /\ UNCHANGED <<wire, heard>>
       ELSE Send(p, "reply", cur[p], text[p], IF pc[p] = "reply" THEN "replying" ELSE "failed")
    /\ UNCHANGED <<mode, hq, past, held, rows, life, cur, text, consumed, turns, faults>>

\* Mutant: a reply is taken for delivered when it was sent.
AcksUnheard(p) ==
    /\ pc[p] = "replying"
    /\ GoTo(p, "idle") /\ Acknowledge(cur[p])
    /\ UNCHANGED <<mode, remote, held, handoff, life, locals, turns, faults>>

\* HQ has the answer: it is acknowledged, with its checkpoint if it has one.
Replied(p) ==
    /\ pc[p] = "replying" /\ heard[p] # None
    /\ IF heard[p] # "refused" /\ Owns(p)
       THEN GoTo(p, "idle") /\ Acknowledge(cur[p])
       ELSE GoTo(p, "closing") /\ UNCHANGED <<reply, offer>>
    /\ UNCHANGED <<mode, remote, held, handoff, life, locals, turns, faults>>

\* A bridge closes after a failure; a cooperative session goes on.
Failed(p) ==
    /\ pc[p] = "failed" /\ heard[p] # None
    /\ GoTo(p, IF mode = "cooperative" /\ heard[p] # "refused" /\ Owns(p) THEN "idle" ELSE "closing")
    /\ UNCHANGED <<mode, remote, held, rows, life, locals, turns, faults>>

-----------------------------------------------------------------------------
(* What may happen meanwhile *)

Forgotten(p) ==
    /\ cur' = [cur EXCEPT ![p] = None] /\ text' = [text EXCEPT ![p] = None]
    /\ heard' = [heard EXCEPT ![p] = None] /\ consumed' = [consumed EXCEPT ![p] = {}]

Crash(p) ==
    /\ pc[p] # "out" /\ faults < MaxFaults /\ faults' = faults + 1
    /\ life' = [life EXCEPT ![p] = @ + 1]
    /\ GoTo(p, "out") /\ Forgotten(p)
    /\ wire' = {IF m.by = p THEN [m EXCEPT !.by = None] ELSE m : m \in wire}
    /\ UNCHANGED <<mode, hq, past, held, rows, turns>>

\* A step throws, or the chat is no longer the active one.
Fail(p) ==
    /\ pc[p] \notin Waiting \cup {"out", "closing"} /\ faults < MaxFaults /\ faults' = faults + 1
    /\ GoTo(p, "closing")
    /\ UNCHANGED <<mode, remote, held, rows, life, locals, turns>>

\* A bridge is closed while it runs: the child is stopped, then the lease goes,
\* and what had its answer goes on without it.
Stop(p) ==
    /\ mode = "bridge" /\ pc[p] \notin {"out", "closing"} /\ lease = Self(p)
    /\ faults < MaxFaults /\ faults' = faults + 1
    /\ lease' = None
    /\ pc' = IF pc[p] = "turn" THEN [pc EXCEPT ![p] = "closing"] ELSE pc
    /\ UNCHANGED <<mode, remote, binding, detached, rows, life, locals, turns>>

\* Time passes for a question, and HQ sees that it did.
Tick(q) ==
    /\ q \in Mortal \ past /\ past' = past \cup {q}
    /\ UNCHANGED <<mode, hq, wire, held, rows, life, pc, locals, turns, faults>>
Expire(q) ==
    /\ q \in past /\ hq[q].state \in {"queued", "accepted"}
    /\ hq' = [hq EXCEPT ![q].state = "expired"]
    /\ UNCHANGED <<mode, past, wire, held, rows, life, pc, locals, turns, faults>>

\* The binding expires, or is revoked by a command.
EndBinding ==
    /\ faults < MaxFaults /\ faults' = faults + 1
    /\ \/ binding = "live" /\ binding' = "expired"
       \/ binding # "revoked" /\ binding' = "revoked"
    /\ UNCHANGED <<mode, remote, detached, lease, rows, life, pc, locals, turns>>

\* Only the binding of a bridge is renewed, by no process but its owner's.
Renew(p) ==
    /\ mode = "bridge" /\ binding = "expired"
    /\ lease # None => lease.owner = p \/ Dead(lease)
    /\ binding' = "live"
    /\ UNCHANGED <<mode, remote, detached, lease, rows, life, pc, locals, turns, faults>>

Step(p) ==
    \/ OpenSession(p) \/ Connect(p) \/ Close(p) \/ Begin(p) \/ Reconcile(p) \/ Resent(p)
    \/ Inbox(p) \/ Checkpoint(p) \/ Accept(p) \/ Accepted(p)
    \/ Submit(p) \/ Turn(p) \/ Stage(p) \/ Reply(p) \/ Replied(p) \/ Failed(p)
Fault(p) == Retire(p) \/ Lose(p) \/ Crash(p) \/ Fail(p) \/ Stop(p)

Next ==
    \/ \E p \in Processes : Step(p) \/ Fault(p) \/ Renew(p)
    \/ \E m \in wire : Take(m)
    \/ \E q \in Questions : Tick(q) \/ Expire(q)
    \/ EndBinding

\* Whoever may own the session opens it again, and goes on; what is on its way
\* arrives, and HQ watches its deadlines.  Nothing makes a chat submit an answer.
Fairness ==
    /\ \A p \in Processes : WF_vars(Step(p) /\ pc[p] # "handed")
    /\ WF_vars(\E m \in wire : Take(m))
    /\ \A q \in Questions : WF_vars(Expire(q))

Spec == Init /\ [][Next]_vars /\ Fairness

-----------------------------------------------------------------------------
(* Properties *)

States == {"queued", "accepted", "answered", "failed", "expired"}
Selves == [owner : Processes, life : 0 .. MaxFaults]
TypeOK ==
    /\ hq \in [Questions -> [state : States, text : Selves \cup {None}]]
    /\ wire \subseteq [op : {"accept", "reply"}, q : Questions, text : Selves \cup {None}, by : Processes \cup {None}]
    /\ lease \in Selves \cup {None}
    /\ offer \in [Questions -> {None, "open", "settled"}]
    /\ handoff \in [Questions -> Selves \cup {None}]
    /\ reply \in [Questions -> [text : Selves \cup {None}, acked : BOOLEAN, quarantined : BOOLEAN]]
    /\ cur \in [Processes -> Questions \cup {None}] /\ consumed \in [Processes -> SUBSET Questions]

\* A question is put to a provider or a chat once at most, whatever was lost and
\* whoever died: nobody pays for it twice, and HQ hears one answer.
AskedOnce == \A q \in Questions : turns[q] <= 1

\* What the vault calls acknowledged HQ has, word for word.
AcksAreTrue == \A q \in Questions : reply[q].acked => Delivered(q)

\* HQ has no answer that is not also in the vault.
AnswersAreKept == \A q \in Questions : hq[q].text # None => reply[q].text = hq[q].text

\* An answer is acknowledged or set apart, never both, and set apart only when
\* HQ can no longer take it.
Disposed ==
    \A q \in Questions : reply[q].quarantined => ~ reply[q].acked /\ hq[q].state = "expired"

\* A checkpoint is settled together with its reply.
SettledTogether ==
    \A q \in Questions : offer[q] # None => (offer[q] = "settled" <=> reply[q].acked)

\* Only the owner has a turn under way.
OneOwner == \A p \in Processes : pc[p] = "turn" => lease = Self(p)

InboxSafe ==
    TypeOK /\ AskedOnce /\ AcksAreTrue /\ AnswersAreKept /\ Disposed /\ SettledTogether /\ OneOwner

\* An answer that was paid for does not lie in the vault for good: while the
\* binding lives and HQ knows it, it is acknowledged in the end, or set apart.
Unsettled(q) == q \in Pending /\ binding = "live" /\ ~ detached
AnswerSettled == \A q \in Questions : Unsettled(q) ~> ~ Unsettled(q)

=============================================================================
