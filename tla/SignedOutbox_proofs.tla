------------------------- MODULE SignedOutbox_proofs ------------------------
(***************************************************************************)
(* Proofs about the signed outbox, for any set of clients and requests and *)
(* any bounds: its type correctness and the properties that hold whatever  *)
(* the clients on the file and the saves do.                               *)
(***************************************************************************)
EXTENDS SignedOutboxInv, FiniteSetTheorems, TLAPS

(***************************************************************************)
(* Types of the states the client computes.                                *)
(***************************************************************************)
LEMMA SettledType ==
  ASSUME NEW s \in ProtocolState
  PROVE  Settled(s) \in ProtocolState /\ Durable(s) \in ProtocolState
  BY DEF Durable, Settled, State, ProtocolState

LEMMA StateFields ==
  ASSUME NEW s \in ProtocolState
  PROVE  /\ s.session \in Nat
         /\ s.next \in Nat
         /\ s.pending \in Message \cup {None}
         /\ s.recovered \in SUBSET Requests
  BY DEF ProtocolState

LEMMA EmptyType == EmptyState \in ProtocolState
  BY DEF EmptyState, State, ProtocolState

LEMMA ThrownType == ASSUME NEW c PROVE Thrown(c) \in {"closed", "ready"}
  BY DEF Thrown

LEMMA SavedType ==
  ASSUME TypeOK, NEW c \in Clients, NEW s \in ProtocolState, NEW p \in Phases, Saved(c, s, p)
  PROVE  /\ disk' \in ProtocolState
         /\ mem' \in [Clients -> ProtocolState]
         /\ pc' \in [Clients -> Phases]
         /\ diskFaults' \in Nat
  BY SettledType DEF Saved, GoTo, TypeOK

LEMMA SaveFailsType ==
  ASSUME TypeOK, NEW c \in Clients, NEW s \in ProtocolState, NEW p \in Phases, SaveFailsTo(c, s, p)
  PROVE  /\ disk' \in ProtocolState
         /\ mem' \in [Clients -> ProtocolState]
         /\ pc' \in [Clients -> Phases]
         /\ diskFaults' \in Nat
  BY SettledType DEF SaveFailsTo, GoTo, TypeOK

LEMMA SaveType ==
  ASSUME TypeOK, NEW c \in Clients, NEW s \in ProtocolState, NEW p \in Phases,
         Save(c, s, p)
  PROVE  /\ disk' \in ProtocolState
         /\ mem' \in [Clients -> ProtocolState]
         /\ pc' \in [Clients -> Phases]
         /\ diskFaults' \in Nat
  <1>1. Thrown(c) \in Phases
    BY ThrownType DEF Phases
  <1> QED
    BY <1>1, SavedType, SaveFailsType DEF Save, SaveFails

LEMMA TypeStep == ASSUME Inv, Next, OutboxAssumption, NoneIsNoMessage PROVE TypeOK'
  <1> USE DEF Inv
  <1>1. ASSUME NEW c \in Clients, Open(c) PROVE TypeOK'
    BY <1>1, EmptyType DEF Open, TypeOK, GoTo, Phases, hq, counters
  <1>2. ASSUME NEW c \in Clients, OpenSession(c) PROVE TypeOK'
    <2> DEFINE dropped == WithPending(mem[c], None)
    <2>1. dropped \in ProtocolState
      BY StateFields DEF TypeOK, WithPending, State, ProtocolState
    <2>2. /\ disk' \in ProtocolState
          /\ mem' \in [Clients -> ProtocolState]
          /\ pc' \in [Clients -> Phases]
          /\ diskFaults' \in Nat
      <3> HIDE DEF dropped
      <3>1. \/ Saved(c, dropped, "fresh")
            \/ SaveFailsTo(c, dropped, "closed")
            \/ GoTo(c, "fresh") /\ UNCHANGED <<disk, mem, diskFaults>>
            \/ GoTo(c, "begin") /\ UNCHANGED <<disk, mem, diskFaults>>
        BY <1>2, Zenon DEF OpenSession, dropped
      <3> QED
        BY <3>1, <2>1, SavedType, SaveFailsType DEF Phases, GoTo, TypeOK
    <2> QED
      BY ZenonT(60), <1>2, <2>2 DEF OpenSession, TypeOK, hq, AllRequests
  <1>3. ASSUME NEW c \in Clients, NewSession(c) PROVE TypeOK'
    <2> DEFINE s == State(sessions + 1, 1, None, mem[c].recovered)
    <2>1. s \in ProtocolState
      BY StateFields DEF TypeOK, State, ProtocolState
    <2>2. Save(c, s, "begin")
      BY <1>3 DEF NewSession
    <2> HIDE DEF s
    <2> QED
      BY <1>3, <2>1, <2>2, SaveType DEF NewSession, TypeOK, Phases, hq
  <1>4. ASSUME NEW c \in Clients, NEW r \in Requests, Request(c, r) PROVE TypeOK'
    BY <1>4 DEF Request, TypeOK, GoTo, Phases, hq, counters, AllRequests
  <1>5. ASSUME NEW c \in Clients, TakeControl(c) PROVE TypeOK'
    BY <1>5, SaveType, SettledType DEF TakeControl, TypeOK, GoTo, Phases, hq, counters
  <1>6. ASSUME NEW c \in Clients, ControlBusy(c) PROVE TypeOK'
    BY <1>6 DEF ControlBusy, TypeOK, GoTo, Phases, hq, counters, Thrown
  <1>7. ASSUME NEW c \in Clients, Build(c) PROVE TypeOK'
    <2> DEFINE m == [id |-> ids, req |-> call[c], session |-> mem[c].session, seq |-> mem[c].next]
    <2>1. m \in Message
      BY <1>7, StateFields DEF Build, TypeOK, PendingShape, Message
    <2>2. CASE Save(c, WithPending(mem[c], m), "send") /\ ids' = ids + 1
      <3>1. WithPending(mem[c], m) \in ProtocolState
        BY <2>1, StateFields DEF TypeOK, WithPending, State, ProtocolState
      <3> QED
        BY SMTT(60), <1>7, <2>2, <3>1, SaveType DEF Build, TypeOK, Phases, hq
    <2>3. CASE GoTo(c, Thrown(c)) /\ UNCHANGED <<disk, mem, aim, ids, diskFaults>>
      BY <1>7, <2>3, ThrownType DEF Build, TypeOK, Phases, hq, GoTo
    <2> QED
      BY <1>7, <2>2, <2>3 DEF Build
  <1>8. ASSUME NEW c \in Clients, Refresh(c) PROVE TypeOK'
    <2> DEFINE p == mem[c].pending
               m == [id |-> ids, req |-> p.req, session |-> p.session, seq |-> p.seq + 1]
    <2>1. p \in Message
      BY <1>8, StateFields DEF Refresh, TypeOK, PendingShape, Sending
    <2>2. m \in Message /\ p.seq + 1 \in Nat
      BY <2>1 DEF TypeOK, Message
    <2>3. State(mem[c].session, p.seq + 1, m, mem[c].recovered) \in ProtocolState
      BY <2>2, StateFields DEF TypeOK, State, ProtocolState
    <2> QED
      BY <1>8, <2>3, SaveType DEF Refresh, TypeOK, Phases, hq
  <1>9. ASSUME NEW c \in Clients, Transmit(c) PROVE TypeOK'
    BY SMTT(60), <1>9, SaveType DEF Transmit, Save, TypeOK, GoTo, Phases, hq, counters, PendingShape, ProtocolState, Sending
  <1>10. ASSUME NEW c \in Clients, Accepted(c) PROVE TypeOK'
    <2> DEFINE p == mem[c].pending
               s == Settled(IF KindOf(p.req) = "completion"
                            THEN WithRecovered(mem[c], mem[c].recovered \cup {p.req}) ELSE mem[c])
    <2>1. p \in Message
      BY <1>10, StateFields DEF Accepted, TypeOK, PendingShape, Sending
    <2>2. KindOf(p.req) = "completion" => mem[c].recovered \cup {p.req} \in SUBSET Requests
      BY <2>1, StateFields DEF TypeOK, KindOf, Message, AllRequests
    <2>3. s \in ProtocolState
      BY <2>2, StateFields DEF TypeOK, Settled, WithRecovered, State, ProtocolState
    <2>4. Follows(c) \in Phases
      BY DEF Follows, Phases
    <2>5. Saved(c, s, Follows(c)) \/ SaveFails(c, s)
      BY <1>10 DEF Accepted
    <2>6. answered' \subseteq AllRequests
      <3>1. call[c] \in AllRequests
        BY <1>10 DEF Accepted, TypeOK, PendingShape
      <3>2. answered' = answered \/ answered' = answered \cup {call[c]}
        BY <1>10, Zenon DEF Accepted
      <3> QED
        BY <3>1, <3>2 DEF TypeOK
    <2>7. /\ disk' \in ProtocolState
          /\ mem' \in [Clients -> ProtocolState]
          /\ pc' \in [Clients -> Phases]
          /\ diskFaults' \in Nat
      <3> HIDE DEF s
      <3> QED
        BY <2>3, <2>4, <2>5, SaveType DEF Save
    <2>8. /\ reply' = [reply EXCEPT ![c] = None]
          /\ UNCHANGED <<call, aim, wire, hq, sent, acked, ids, sessions, faults>>
      BY <1>10, Zenon DEF Accepted
    <2> HIDE DEF s, p
    <2> QED
      BY <2>6, <2>7, <2>8 DEF TypeOK, hq
  <1>11. ASSUME NEW c \in Clients, Rejected(c) PROVE TypeOK'
    BY <1>11, SaveType, SettledType, ThrownType DEF Rejected, TypeOK, Phases, hq, counters
  <1>12. ASSUME NEW c \in Clients, Unsettled(c) PROVE TypeOK'
    BY <1>12 DEF Unsettled, TypeOK, GoTo, Phases, hq, counters, Thrown
  <1>13. ASSUME NEW c \in Clients, Disconnect(c) PROVE TypeOK'
    BY <1>13 DEF Disconnect, Orphaned, Connection, TypeOK, GoTo, Phases, hq, counters, Thrown
  <1>14. ASSUME NEW c \in Clients, Crash(c) PROVE TypeOK'
    BY <1>14 DEF Crash, Orphaned, Connection, TypeOK, GoTo, Phases, hq, counters, Thrown
  <1>15. ASSUME NEW c \in Clients, NEW r \in Requests, Acknowledge(c, r) PROVE TypeOK'
    <2> DEFINE s == WithRecovered(mem[c], mem[c].recovered \ {r})
    <2>1. s \in ProtocolState
      BY StateFields DEF TypeOK, WithRecovered, State, ProtocolState
    <2>2. Saved(c, s, "ready") \/ SaveFails(c, s)
      BY <1>15 DEF Acknowledge
    <2>3. acked' \subseteq Requests
      BY <1>15 DEF Acknowledge, TypeOK
    <2> HIDE DEF s
    <2> QED
      BY <1>15, <2>1, <2>2, <2>3, SaveType DEF Acknowledge, Save, TypeOK, Phases, hq
  <1>16. ASSUME NEW c \in Clients, Close(c) PROVE TypeOK'
    BY <1>16 DEF Close, TypeOK, GoTo, Phases, hq, counters
  <1>17. ASSUME Hq PROVE TypeOK'
    BY <1>17 DEF Hq, HqAccept, HqRefuse, HqUnusable, HqUnavailable, Answer, TypeOK, Verdicts, hq
  <1> QED
    BY <1>1, <1>2, <1>3, <1>4, <1>5, <1>6, <1>7, <1>8, <1>9, <1>10, <1>11, <1>12,
       <1>13, <1>14, <1>15, <1>16, <1>17 DEF Next, Step

(***************************************************************************)
(* The other parts of the invariant, one lemma each: a case per action.    *)
(***************************************************************************)
LEMMA BuiltMessage ==
  ASSUME TypeOK, PendingShape, OutboxAssumption, NoneIsNoMessage, NEW c \in Clients, Build(c),
         NEW m, m = [id |-> ids, req |-> call[c], session |-> mem[c].session, seq |-> mem[c].next]
  PROVE  m \in Message /\ m # None /\ m.id = ids /\ m.req = call[c]
  <1>1. mem[c].session \in Nat /\ mem[c].next \in Nat
    BY StateFields DEF TypeOK
  <1>2. m \in Message
    BY <1>1 DEF Build, TypeOK, PendingShape, Message
  <1> QED
    BY <1>2, NoneIsNoMessage

LEMMA RefreshedMessage ==
  ASSUME TypeOK, PendingShape, OutboxAssumption, NoneIsNoMessage, NEW c \in Clients, Refresh(c),
         NEW m, m = [id |-> ids, req |-> mem[c].pending.req, session |-> mem[c].pending.session,
                     seq |-> mem[c].pending.seq + 1]
  PROVE  m \in Message /\ m # None /\ m.id = ids /\ m.req = mem[c].pending.req
  <1>1. mem[c].pending \in Message
    BY StateFields DEF TypeOK, Refresh, PendingShape, Sending
  <1>2. m \in Message
    BY SMTT(60), <1>1 DEF TypeOK, Message
  <1> QED
    BY <1>2, NoneIsNoMessage

LEMMA PendingShapeStep ==
  ASSUME TypeOK, PendingShape, Next, OutboxAssumption, NoneIsNoMessage
  PROVE  PendingShape'
  <1> USE OutboxAssumption DEF Verdicts, GoTo, State, Settled, Durable, hq, counters,
           TypeOK, PendingShape, Sending
  <1>1. ASSUME NEW c \in Clients, Open(c) PROVE PendingShape'
    BY <1>1 DEF Open, EmptyState
  <1>2. ASSUME NEW c \in Clients, OpenSession(c) PROVE PendingShape'
    BY <1>2 DEF OpenSession, Saved, SaveFailsTo, WithPending
  <1>3. ASSUME NEW c \in Clients, NewSession(c) PROVE PendingShape'
    BY <1>3 DEF NewSession, Save, Saved, SaveFails, SaveFailsTo, Thrown
  <1>4. ASSUME NEW c \in Clients, TakeControl(c) PROVE PendingShape'
    BY <1>4 DEF TakeControl, Save, Saved, SaveFails, SaveFailsTo, Thrown, ControlFree
  <1>5. ASSUME NEW c \in Clients, ControlBusy(c) PROVE PendingShape'
    BY <1>5 DEF ControlBusy, Thrown
  <1>6. ASSUME NEW c \in Clients, Build(c) PROVE PendingShape'
    <2> DEFINE m == [id |-> ids, req |-> call[c], session |-> mem[c].session, seq |-> mem[c].next]
    <2>1. m \in Message /\ m # None /\ m.id = ids /\ m.req = call[c]
      BY <1>6, BuiltMessage
    <2>2. \/ /\ UNCHANGED <<disk, mem, aim, ids>>
             /\ pc' = [pc EXCEPT ![c] = Thrown(c)]
          \/ /\ ids' = ids + 1
             /\ aim' = [aim EXCEPT ![c] = "own"]
             /\ Save(c, WithPending(mem[c], m), "send")
             /\ ~OverCapacity(mem[c], call[c])
      BY <1>6 DEF Build
    <2>3. UNCHANGED <<call, wire, reply, applied, refused, sent, answered, acked>>
      BY <1>6 DEF Build
    <2>4. pc[c] = "build"
      BY <1>6 DEF Build
    <2> HIDE DEF m
    <2> QED
      BY <2>1, <2>2, <2>3, <2>4 DEF Save, Saved, SaveFails, SaveFailsTo, Thrown, WithPending
  <1>7. ASSUME NEW c \in Clients, Refresh(c) PROVE PendingShape'
    <2> DEFINE m == [id |-> ids, req |-> mem[c].pending.req, session |-> mem[c].pending.session,
                 seq |-> mem[c].pending.seq + 1]
    <2>1. m \in Message /\ m # None /\ m.id = ids /\ m.req = mem[c].pending.req
      BY <1>7, RefreshedMessage
    <2>2. /\ ids' = ids + 1
          /\ Save(c, State(mem[c].session, mem[c].pending.seq + 1, m, mem[c].recovered), "signed")
          /\ UNCHANGED aim
          /\ KindOf(mem[c].pending.req) = "enforcement"
      BY <1>7 DEF Refresh
    <2>3. UNCHANGED <<call, wire, reply, applied, refused, sent, answered, acked>>
      BY <1>7 DEF Refresh
    <2>4. pc[c] = "send"
      BY <1>7 DEF Refresh
    <2> HIDE DEF m
    <2> QED
      BY <2>1, <2>2, <2>3, <2>4 DEF Save, Saved, SaveFails, SaveFailsTo, Thrown
  <1>8. ASSUME NEW c \in Clients, Transmit(c) PROVE PendingShape'
    BY <1>8 DEF Transmit, Saved, SaveFails, SaveFailsTo, Thrown
  <1>9. ASSUME NEW c \in Clients, Accepted(c) PROVE PendingShape'
    BY <1>9 DEF Accepted, Saved, SaveFails, SaveFailsTo, Thrown, WithRecovered, Follows
  <1>10. ASSUME NEW c \in Clients, Rejected(c) PROVE PendingShape'
    BY <1>10 DEF Rejected, Save, Saved, SaveFails, SaveFailsTo, Thrown
  <1>11. ASSUME NEW c \in Clients, Unsettled(c) PROVE PendingShape'
    BY <1>11 DEF Unsettled, Thrown
  <1>12. ASSUME NEW c \in Clients, Disconnect(c) PROVE PendingShape'
    BY <1>12 DEF Disconnect, Thrown, Connection, Orphaned
  <1>13. ASSUME NEW c \in Clients, Crash(c) PROVE PendingShape'
    BY <1>13 DEF Crash, Connection, Orphaned
  <1>14. ASSUME NEW c \in Clients, Close(c) PROVE PendingShape'
    BY <1>14 DEF Close
  <1>15. ASSUME NEW c \in Clients, NEW r \in Requests, Request(c, r) PROVE PendingShape'
    BY <1>15 DEF Request
  <1>16. ASSUME NEW c \in Clients, NEW r \in Requests, Acknowledge(c, r) PROVE PendingShape'
    BY <1>16 DEF Acknowledge, Saved, SaveFails, SaveFailsTo, Thrown, WithRecovered
  <1>17. ASSUME Hq PROVE PendingShape'
    BY <1>17 DEF Hq, HqAccept, HqRefuse, HqUnusable, HqUnavailable, Answer, Monotonic
  <1> QED
    BY <1>1, <1>2, <1>3, <1>4, <1>5, <1>6, <1>7, <1>8, <1>9, <1>10, <1>11, <1>12,
       <1>13, <1>14, <1>15, <1>16, <1>17 DEF Next, Step

LEMMA ConnectionShapeStep ==
  ASSUME TypeOK, PendingShape, ConnectionShape, Next, OutboxAssumption, NoneIsNoMessage
  PROVE  ConnectionShape'
  <1> USE OutboxAssumption DEF Verdicts, GoTo, State, Settled, Durable, hq, counters,
           TypeOK, ConnectionShape, PendingShape, Sending, Connection
  <1>1. ASSUME NEW c \in Clients, Open(c) PROVE ConnectionShape'
    BY <1>1 DEF Open, EmptyState
  <1>2. ASSUME NEW c \in Clients, OpenSession(c) PROVE ConnectionShape'
    BY <1>2 DEF OpenSession, Saved, SaveFailsTo, WithPending
  <1>3. ASSUME NEW c \in Clients, NewSession(c) PROVE ConnectionShape'
    BY <1>3 DEF NewSession, Save, Saved, SaveFails, SaveFailsTo, Thrown
  <1>4. ASSUME NEW c \in Clients, TakeControl(c) PROVE ConnectionShape'
    BY <1>4 DEF TakeControl, Save, Saved, SaveFails, SaveFailsTo, Thrown, ControlFree
  <1>5. ASSUME NEW c \in Clients, ControlBusy(c) PROVE ConnectionShape'
    BY <1>5 DEF ControlBusy, Thrown
  <1>6. ASSUME NEW c \in Clients, Build(c) PROVE ConnectionShape'
    BY SMTT(60), <1>6 DEF Build, Save, Saved, SaveFails, SaveFailsTo, Thrown, WithPending
  <1>7. ASSUME NEW c \in Clients, Refresh(c) PROVE ConnectionShape'
    BY <1>7 DEF Refresh, Save, Saved, SaveFails, SaveFailsTo, Thrown
  <1>8. ASSUME NEW c \in Clients, Transmit(c) PROVE ConnectionShape'
    BY <1>8 DEF Transmit, Saved, SaveFails, SaveFailsTo, Thrown
  <1>9. ASSUME NEW c \in Clients, Accepted(c) PROVE ConnectionShape'
    BY <1>9 DEF Accepted, Saved, SaveFails, SaveFailsTo, Thrown, WithRecovered, Follows
  <1>10. ASSUME NEW c \in Clients, Rejected(c) PROVE ConnectionShape'
    BY <1>10 DEF Rejected, Save, Saved, SaveFails, SaveFailsTo, Thrown
  <1>11. ASSUME NEW c \in Clients, Unsettled(c) PROVE ConnectionShape'
    BY <1>11 DEF Unsettled, Thrown
  <1>12. ASSUME NEW c \in Clients, Disconnect(c) PROVE ConnectionShape'
    BY <1>12 DEF Disconnect, Thrown, Connection, Orphaned
  <1>13. ASSUME NEW c \in Clients, Crash(c) PROVE ConnectionShape'
    BY <1>13 DEF Crash, Connection, Orphaned
  <1>14. ASSUME NEW c \in Clients, Close(c) PROVE ConnectionShape'
    BY <1>14 DEF Close
  <1>15. ASSUME NEW c \in Clients, NEW r \in Requests, Request(c, r) PROVE ConnectionShape'
    BY <1>15 DEF Request
  <1>16. ASSUME NEW c \in Clients, NEW r \in Requests, Acknowledge(c, r) PROVE ConnectionShape'
    BY <1>16 DEF Acknowledge, Saved, SaveFails, SaveFailsTo, Thrown, WithRecovered
  <1>17. ASSUME Hq PROVE ConnectionShape'
    BY <1>17 DEF Hq, HqAccept, HqRefuse, HqUnusable, HqUnavailable, Answer, Monotonic
  <1> QED
    BY <1>1, <1>2, <1>3, <1>4, <1>5, <1>6, <1>7, <1>8, <1>9, <1>10, <1>11, <1>12,
       <1>13, <1>14, <1>15, <1>16, <1>17 DEF Next, Step

LEMMA IdsFreshStep ==
  ASSUME TypeOK, PendingShape, ConnectionShape, IdsFresh, Next, OutboxAssumption, NoneIsNoMessage
  PROVE  IdsFresh'
  <1> USE OutboxAssumption DEF Verdicts, GoTo, State, Settled, Durable, hq, counters,
           TypeOK, ConnectionShape, PendingShape, Sending, IdsFresh
  <1>1. ASSUME NEW c \in Clients, Open(c) PROVE IdsFresh'
    BY <1>1 DEF Open, EmptyState
  <1>2. ASSUME NEW c \in Clients, OpenSession(c) PROVE IdsFresh'
    BY <1>2 DEF OpenSession, Saved, SaveFailsTo, WithPending
  <1>3. ASSUME NEW c \in Clients, NewSession(c) PROVE IdsFresh'
    BY <1>3 DEF NewSession, Save, Saved, SaveFails, SaveFailsTo, Thrown
  <1>4. ASSUME NEW c \in Clients, TakeControl(c) PROVE IdsFresh'
    BY <1>4 DEF TakeControl, Save, Saved, SaveFails, SaveFailsTo, Thrown, ControlFree
  <1>5. ASSUME NEW c \in Clients, ControlBusy(c) PROVE IdsFresh'
    BY <1>5 DEF ControlBusy, Thrown
  <1>6. ASSUME NEW c \in Clients, Build(c) PROVE IdsFresh'
    <2> DEFINE m == [id |-> ids, req |-> call[c], session |-> mem[c].session, seq |-> mem[c].next]
    <2>1. m \in Message /\ m # None /\ m.id = ids /\ m.req = call[c]
      BY <1>6, BuiltMessage
    <2>2. \/ /\ UNCHANGED <<disk, mem, aim, ids>>
             /\ pc' = [pc EXCEPT ![c] = Thrown(c)]
          \/ /\ ids' = ids + 1
             /\ aim' = [aim EXCEPT ![c] = "own"]
             /\ Save(c, WithPending(mem[c], m), "send")
             /\ ~OverCapacity(mem[c], call[c])
      BY <1>6 DEF Build
    <2>5. /\ \A x \in sent : x.id \in Nat
          /\ \A d \in Clients : mem[d].pending # None => mem[d].pending.id \in Nat
          /\ disk.pending # None => disk.pending.id \in Nat
          /\ ids \in Nat
      BY StateFields DEF Message
    <2>3. UNCHANGED <<call, wire, reply, applied, refused, sent, answered, acked>>
      BY <1>6 DEF Build
    <2>4. pc[c] = "build"
      BY <1>6 DEF Build
    <2> HIDE DEF m
    <2> QED
      BY <2>1, <2>2, <2>3, <2>4, <2>5 DEF Save, Saved, SaveFails, SaveFailsTo, Thrown, WithPending
  <1>7. ASSUME NEW c \in Clients, Refresh(c) PROVE IdsFresh'
    <2> DEFINE m == [id |-> ids, req |-> mem[c].pending.req, session |-> mem[c].pending.session,
                 seq |-> mem[c].pending.seq + 1]
    <2>1. m \in Message /\ m # None /\ m.id = ids /\ m.req = mem[c].pending.req
      BY <1>7, RefreshedMessage
    <2>2. /\ ids' = ids + 1
          /\ Save(c, State(mem[c].session, mem[c].pending.seq + 1, m, mem[c].recovered), "signed")
          /\ UNCHANGED aim
          /\ KindOf(mem[c].pending.req) = "enforcement"
      BY <1>7 DEF Refresh
    <2>5. /\ \A x \in sent : x.id \in Nat
          /\ \A d \in Clients : mem[d].pending # None => mem[d].pending.id \in Nat
          /\ disk.pending # None => disk.pending.id \in Nat
          /\ ids \in Nat
      BY StateFields DEF Message
    <2>3. UNCHANGED <<call, wire, reply, applied, refused, sent, answered, acked>>
      BY <1>7 DEF Refresh
    <2>4. pc[c] = "send"
      BY <1>7 DEF Refresh
    <2> HIDE DEF m
    <2> QED
      BY <2>1, <2>2, <2>3, <2>4, <2>5 DEF Save, Saved, SaveFails, SaveFailsTo, Thrown
  <1>8. ASSUME NEW c \in Clients, Transmit(c) PROVE IdsFresh'
    BY <1>8 DEF Transmit, Saved, SaveFails, SaveFailsTo, Thrown
  <1>9. ASSUME NEW c \in Clients, Accepted(c) PROVE IdsFresh'
    BY <1>9 DEF Accepted, Saved, SaveFails, SaveFailsTo, Thrown, WithRecovered, Follows
  <1>10. ASSUME NEW c \in Clients, Rejected(c) PROVE IdsFresh'
    BY <1>10 DEF Rejected, Save, Saved, SaveFails, SaveFailsTo, Thrown
  <1>11. ASSUME NEW c \in Clients, Unsettled(c) PROVE IdsFresh'
    BY <1>11 DEF Unsettled, Thrown
  <1>12. ASSUME NEW c \in Clients, Disconnect(c) PROVE IdsFresh'
    BY <1>12 DEF Disconnect, Thrown, Connection, Orphaned
  <1>13. ASSUME NEW c \in Clients, Crash(c) PROVE IdsFresh'
    BY <1>13 DEF Crash, Connection, Orphaned
  <1>14. ASSUME NEW c \in Clients, Close(c) PROVE IdsFresh'
    BY <1>14 DEF Close
  <1>15. ASSUME NEW c \in Clients, NEW r \in Requests, Request(c, r) PROVE IdsFresh'
    BY <1>15 DEF Request
  <1>16. ASSUME NEW c \in Clients, NEW r \in Requests, Acknowledge(c, r) PROVE IdsFresh'
    BY SMTT(60), <1>16 DEF Acknowledge, Saved, SaveFails, SaveFailsTo, Thrown, WithRecovered
  <1>17. ASSUME Hq PROVE IdsFresh'
    BY <1>17 DEF Hq, HqAccept, HqRefuse, HqUnusable, HqUnavailable, Answer, Monotonic
  <1> QED
    BY <1>1, <1>2, <1>3, <1>4, <1>5, <1>6, <1>7, <1>8, <1>9, <1>10, <1>11, <1>12,
       <1>13, <1>14, <1>15, <1>16, <1>17 DEF Next, Step

LEMMA ContentShapeStep ==
  ASSUME TypeOK, PendingShape, ConnectionShape, IdsFresh, ContentShape, Next, OutboxAssumption, NoneIsNoMessage
  PROVE  ContentShape'
  <1> USE OutboxAssumption DEF Verdicts, GoTo, State, Settled, Durable, hq, counters,
           TypeOK, ConnectionShape, PendingShape, Sending, IdsFresh, ContentShape,
           IsContentBearing, IsExplicitlyRebuilt
  <1>1. ASSUME NEW c \in Clients, Open(c) PROVE ContentShape'
    BY <1>1 DEF Open, EmptyState
  <1>2. ASSUME NEW c \in Clients, OpenSession(c) PROVE ContentShape'
    BY SMTT(60), <1>2 DEF OpenSession, Saved, SaveFailsTo, WithPending
  <1>3. ASSUME NEW c \in Clients, NewSession(c) PROVE ContentShape'
    BY SMTT(60), <1>3 DEF NewSession, Save, Saved, SaveFails, SaveFailsTo, Thrown
  <1>4. ASSUME NEW c \in Clients, TakeControl(c) PROVE ContentShape'
    BY SMTT(60), <1>4 DEF TakeControl, Save, Saved, SaveFails, SaveFailsTo, Thrown, ControlFree
  <1>5. ASSUME NEW c \in Clients, ControlBusy(c) PROVE ContentShape'
    BY <1>5 DEF ControlBusy, Thrown
  <1>6. ASSUME NEW c \in Clients, Build(c) PROVE ContentShape'
    BY SMTT(60), <1>6 DEF Build, Save, Saved, SaveFails, SaveFailsTo, Thrown, WithPending
  <1>7. ASSUME NEW c \in Clients, Refresh(c) PROVE ContentShape'
    <2> DEFINE m == [id |-> ids, req |-> mem[c].pending.req, session |-> mem[c].pending.session,
                 seq |-> mem[c].pending.seq + 1]
    <2>1. m \in Message /\ m # None /\ m.id = ids /\ m.req = mem[c].pending.req
      BY <1>7, RefreshedMessage
    <2>2. /\ ids' = ids + 1
          /\ Save(c, State(mem[c].session, mem[c].pending.seq + 1, m, mem[c].recovered), "signed")
          /\ UNCHANGED aim
          /\ KindOf(mem[c].pending.req) = "enforcement"
      BY <1>7 DEF Refresh
    <2>3. UNCHANGED <<call, wire, reply, applied, refused, sent, answered, acked>>
      BY <1>7 DEF Refresh
    <2>4. pc[c] = "send"
      BY <1>7 DEF Refresh
    <2> HIDE DEF m
    <2> QED
      BY SMTT(60), <2>1, <2>2, <2>3, <2>4 DEF Save, Saved, SaveFails, SaveFailsTo, Thrown
  <1>8. ASSUME NEW c \in Clients, Transmit(c) PROVE ContentShape'
    <2>1. pc'[c] \in {"await", "closed", "ready"} /\ \A d \in Clients \ {c} : pc'[d] = pc[d]
      BY <1>8 DEF Transmit, Saved, SaveFails, SaveFailsTo, Thrown
    <2>2. mem' = mem /\ UNCHANGED aim /\ sent' \in {sent, sent \cup {mem[c].pending}}
      BY <1>8 DEF Transmit, Saved, SaveFails, SaveFailsTo
    <2>3. disk'.pending # None => ~IsExplicitlyRebuilt(disk'.pending.req)
      BY <1>8 DEF Transmit, Saved, SaveFails, SaveFailsTo
    <2> QED
      BY <1>8, <2>1, <2>2, <2>3 DEF Transmit
  <1>9. ASSUME NEW c \in Clients, Accepted(c) PROVE ContentShape'
    BY SMTT(60), <1>9 DEF Accepted, Saved, SaveFails, SaveFailsTo, Thrown, WithRecovered, Follows
  <1>10. ASSUME NEW c \in Clients, Rejected(c) PROVE ContentShape'
    BY SMTT(60), <1>10 DEF Rejected, Save, Saved, SaveFails, SaveFailsTo, Thrown
  <1>11. ASSUME NEW c \in Clients, Unsettled(c) PROVE ContentShape'
    BY <1>11 DEF Unsettled, Thrown
  <1>12. ASSUME NEW c \in Clients, Disconnect(c) PROVE ContentShape'
    BY <1>12 DEF Disconnect, Thrown, Connection, Orphaned
  <1>13. ASSUME NEW c \in Clients, Crash(c) PROVE ContentShape'
    BY <1>13 DEF Crash, Connection, Orphaned
  <1>14. ASSUME NEW c \in Clients, Close(c) PROVE ContentShape'
    BY <1>14 DEF Close
  <1>15. ASSUME NEW c \in Clients, NEW r \in Requests, Request(c, r) PROVE ContentShape'
    BY <1>15 DEF Request
  <1>16. ASSUME NEW c \in Clients, NEW r \in Requests, Acknowledge(c, r) PROVE ContentShape'
    BY SMTT(60), <1>16 DEF Acknowledge, Saved, SaveFails, SaveFailsTo, Thrown, WithRecovered
  <1>17. ASSUME Hq PROVE ContentShape'
    BY <1>17 DEF Hq, HqAccept, HqRefuse, HqUnusable, HqUnavailable, Answer, Monotonic
  <1> QED
    BY <1>1, <1>2, <1>3, <1>4, <1>5, <1>6, <1>7, <1>8, <1>9, <1>10, <1>11, <1>12,
       <1>13, <1>14, <1>15, <1>16, <1>17 DEF Next, Step

LEMMA ReceiptsStep ==
  ASSUME TypeOK, PendingShape, ConnectionShape, ReceiptsAreReal, Next, OutboxAssumption, NoneIsNoMessage
  PROVE  ReceiptsAreReal'
  <1> USE OutboxAssumption DEF Verdicts, GoTo, State, Settled, Durable, hq, counters,
           TypeOK, ConnectionShape, PendingShape, Sending, ReceiptsAreReal, AcceptedByHq
  <1>1. ASSUME NEW c \in Clients, Open(c) PROVE ReceiptsAreReal'
    BY <1>1 DEF Open, EmptyState
  <1>2. ASSUME NEW c \in Clients, OpenSession(c) PROVE ReceiptsAreReal'
    BY <1>2 DEF OpenSession, Saved, SaveFailsTo, WithPending
  <1>3. ASSUME NEW c \in Clients, NewSession(c) PROVE ReceiptsAreReal'
    BY <1>3 DEF NewSession, Save, Saved, SaveFails, SaveFailsTo, Thrown
  <1>4. ASSUME NEW c \in Clients, TakeControl(c) PROVE ReceiptsAreReal'
    BY <1>4 DEF TakeControl, Save, Saved, SaveFails, SaveFailsTo, Thrown, ControlFree
  <1>5. ASSUME NEW c \in Clients, ControlBusy(c) PROVE ReceiptsAreReal'
    BY <1>5 DEF ControlBusy, Thrown
  <1>6. ASSUME NEW c \in Clients, Build(c) PROVE ReceiptsAreReal'
    BY <1>6 DEF Build, Save, Saved, SaveFails, SaveFailsTo, Thrown, WithPending
  <1>7. ASSUME NEW c \in Clients, Refresh(c) PROVE ReceiptsAreReal'
    BY <1>7 DEF Refresh, Save, Saved, SaveFails, SaveFailsTo, Thrown
  <1>8. ASSUME NEW c \in Clients, Transmit(c) PROVE ReceiptsAreReal'
    BY <1>8 DEF Transmit, Saved, SaveFails, SaveFailsTo, Thrown
  <1>9. ASSUME NEW c \in Clients, Accepted(c) PROVE ReceiptsAreReal'
    BY <1>9 DEF Accepted, Saved, SaveFails, SaveFailsTo, Thrown, WithRecovered, Follows
  <1>10. ASSUME NEW c \in Clients, Rejected(c) PROVE ReceiptsAreReal'
    BY <1>10 DEF Rejected, Save, Saved, SaveFails, SaveFailsTo, Thrown
  <1>11. ASSUME NEW c \in Clients, Unsettled(c) PROVE ReceiptsAreReal'
    BY <1>11 DEF Unsettled, Thrown
  <1>12. ASSUME NEW c \in Clients, Disconnect(c) PROVE ReceiptsAreReal'
    BY <1>12 DEF Disconnect, Thrown, Connection, Orphaned
  <1>13. ASSUME NEW c \in Clients, Crash(c) PROVE ReceiptsAreReal'
    BY <1>13 DEF Crash, Connection, Orphaned
  <1>14. ASSUME NEW c \in Clients, Close(c) PROVE ReceiptsAreReal'
    BY <1>14 DEF Close
  <1>15. ASSUME NEW c \in Clients, NEW r \in Requests, Request(c, r) PROVE ReceiptsAreReal'
    BY <1>15 DEF Request
  <1>16. ASSUME NEW c \in Clients, NEW r \in Requests, Acknowledge(c, r) PROVE ReceiptsAreReal'
    BY <1>16 DEF Acknowledge, Saved, SaveFails, SaveFailsTo, Thrown, WithRecovered
  <1>17. ASSUME Hq PROVE ReceiptsAreReal'
    BY <1>17 DEF Hq, HqAccept, HqRefuse, HqUnusable, HqUnavailable, Answer, Monotonic
  <1> QED
    BY <1>1, <1>2, <1>3, <1>4, <1>5, <1>6, <1>7, <1>8, <1>9, <1>10, <1>11, <1>12,
       <1>13, <1>14, <1>15, <1>16, <1>17 DEF Next, Step

LEMMA StoreStep ==
  ASSUME TypeOK, PendingShape, StoreBounded, PendingFits, DiskFits, Next, OutboxAssumption, NoneIsNoMessage
  PROVE  StoreBounded'
  <1> USE OutboxAssumption DEF Verdicts, GoTo, State, Settled, Durable, hq, counters,
           TypeOK, PendingShape, Sending, PendingFits, DiskFits, StoreBounded, OverCapacity
  <1>1. ASSUME NEW c \in Clients, Open(c) PROVE StoreBounded'
    <2>1. IsFiniteSet({}) /\ Cardinality({}) = 0 /\ 0 <= Capacity
      BY FS_EmptySet
    <2> QED
      BY <1>1, <2>1 DEF Open, EmptyState
  <1>2. ASSUME NEW c \in Clients, OpenSession(c) PROVE StoreBounded'
    BY <1>2 DEF OpenSession, Saved, SaveFailsTo, WithPending
  <1>3. ASSUME NEW c \in Clients, NewSession(c) PROVE StoreBounded'
    BY SMTT(60), <1>3 DEF NewSession, Save, Saved, SaveFails, SaveFailsTo, Thrown
  <1>4. ASSUME NEW c \in Clients, TakeControl(c) PROVE StoreBounded'
    BY <1>4 DEF TakeControl, Save, Saved, SaveFails, SaveFailsTo, Thrown, ControlFree
  <1>5. ASSUME NEW c \in Clients, ControlBusy(c) PROVE StoreBounded'
    BY <1>5 DEF ControlBusy, Thrown
  <1>6. ASSUME NEW c \in Clients, Build(c) PROVE StoreBounded'
    BY <1>6 DEF Build, Save, Saved, SaveFails, SaveFailsTo, Thrown, WithPending
  <1>7. ASSUME NEW c \in Clients, Refresh(c) PROVE StoreBounded'
    BY SMTT(60), <1>7 DEF Refresh, Save, Saved, SaveFails, SaveFailsTo, Thrown
  <1>8. ASSUME NEW c \in Clients, Transmit(c) PROVE StoreBounded'
    BY <1>8 DEF Transmit, Saved, SaveFails, SaveFailsTo, Thrown
  <1>9. ASSUME NEW c \in Clients, Accepted(c) PROVE StoreBounded'
    <2> DEFINE p == mem[c].pending
               R == IF KindOf(p.req) = "completion" THEN mem[c].recovered \cup {p.req}
                                                     ELSE mem[c].recovered
    <2>1. p # None
      BY <1>9 DEF Accepted
    <2>2. IsFiniteSet(R) /\ Cardinality(R) <= Capacity
      <3>1. /\ IsFiniteSet(mem[c].recovered)
            /\ Cardinality(mem[c].recovered) \in Nat
            /\ Cardinality(mem[c].recovered) <= Capacity
            /\ Capacity \in Nat
        BY FS_CardinalityType
      <3>2. KindOf(p.req) = "completion" =>
               p.req \in mem[c].recovered \/ Cardinality(mem[c].recovered) < Capacity
        BY <2>1, <3>1
      <3>3. CASE KindOf(p.req) = "completion"
        <4> DEFINE Q == mem[c].recovered
        <4>1. /\ IsFiniteSet(Q \cup {p.req})
              /\ Cardinality(Q \cup {p.req}) = IF p.req \in Q THEN Cardinality(Q) ELSE Cardinality(Q) + 1
          BY <3>1, FS_AddElement
        <4>2. R = Q \cup {p.req}
          BY <3>3
        <4> HIDE DEF p, Q, R
        <4> QED
          BY <3>3, <4>1, <4>2, <3>1, <3>2 DEF Q
      <3>4. CASE KindOf(p.req) # "completion"
        BY <3>1, <3>4
      <3> QED
        BY <3>3, <3>4
    <2>3. /\ mem' = [mem EXCEPT ![c] = State(mem[c].session, mem[c].next + 1, None, R)]
          /\ disk' \in {disk, State(mem[c].session, mem[c].next + 1, None, R)}
      BY <1>9 DEF Accepted, Saved, SaveFails, SaveFailsTo, WithRecovered
    <2> HIDE DEF R
    <2> QED
      BY <1>9, <2>2, <2>3 DEF Accepted
  <1>10. ASSUME NEW c \in Clients, Rejected(c) PROVE StoreBounded'
    BY <1>10 DEF Rejected, Save, Saved, SaveFails, SaveFailsTo, Thrown
  <1>11. ASSUME NEW c \in Clients, Unsettled(c) PROVE StoreBounded'
    BY <1>11 DEF Unsettled, Thrown
  <1>12. ASSUME NEW c \in Clients, Disconnect(c) PROVE StoreBounded'
    BY <1>12 DEF Disconnect, Thrown, Connection, Orphaned
  <1>13. ASSUME NEW c \in Clients, Crash(c) PROVE StoreBounded'
    BY <1>13 DEF Crash, Connection, Orphaned
  <1>14. ASSUME NEW c \in Clients, Close(c) PROVE StoreBounded'
    BY <1>14 DEF Close
  <1>15. ASSUME NEW c \in Clients, NEW r \in Requests, Request(c, r) PROVE StoreBounded'
    BY <1>15 DEF Request
  <1>16. ASSUME NEW c \in Clients, NEW r \in Requests, Acknowledge(c, r) PROVE StoreBounded'
    <2> DEFINE R == mem[c].recovered \ {r}
    <2>1. IsFiniteSet(R) /\ Cardinality(R) = Cardinality(mem[c].recovered) - 1
      BY ZenonT(60), <1>16, FS_RemoveElement DEF Acknowledge
    <2>2. Cardinality(R) \in Nat /\ Cardinality(mem[c].recovered) \in Nat
      BY <2>1, FS_CardinalityType
    <2>3. /\ mem' = [mem EXCEPT ![c] = WithRecovered(mem[c], R)]
          /\ disk' \in {disk, Durable(WithRecovered(mem[c], R))}
      BY <1>16 DEF Acknowledge, Saved, SaveFails, SaveFailsTo
    <2>4. mem[c].recovered = R \cup {r} /\ R \subseteq mem[c].recovered
      BY <1>16 DEF Acknowledge
    <2>5. \A d \in Clients : /\ mem'[d].recovered = IF d = c THEN R ELSE mem[d].recovered
                            /\ mem'[d].pending = mem[d].pending
      BY <2>3 DEF WithRecovered
    <2>6. \/ disk' = disk
          \/ disk'.recovered = R /\ disk'.pending \in {None, mem[c].pending}
      BY <2>3 DEF WithRecovered
    <2>7. Cardinality(mem[c].recovered) <= Capacity /\ Capacity \in Nat
      OBVIOUS
    <2>8. mem[c].pending # None /\ KindOf(mem[c].pending.req) = "completion" =>
            mem[c].pending.req \in R \/ Cardinality(R) < Capacity
      BY <2>1, <2>2, <2>4, <2>7
    <2> HIDE DEF R
    <2> QED
      BY <2>1, <2>2, <2>5, <2>6, <2>7, <2>8
  <1>17. ASSUME Hq PROVE StoreBounded'
    BY <1>17 DEF Hq, HqAccept, HqRefuse, HqUnusable, HqUnavailable, Answer, Monotonic
  <1> QED
    BY <1>1, <1>2, <1>3, <1>4, <1>5, <1>6, <1>7, <1>8, <1>9, <1>10, <1>11, <1>12,
       <1>13, <1>14, <1>15, <1>16, <1>17 DEF Next, Step

LEMMA PendingFitsStep ==
  ASSUME TypeOK, PendingShape, StoreBounded, PendingFits, DiskFits, Next, OutboxAssumption, NoneIsNoMessage
  PROVE  PendingFits'
  <1> USE OutboxAssumption DEF Verdicts, GoTo, State, Settled, Durable, hq, counters,
           TypeOK, PendingShape, Sending, PendingFits, DiskFits, StoreBounded, OverCapacity
  <1>1. ASSUME NEW c \in Clients, Open(c) PROVE PendingFits'
    BY <1>1 DEF Open, EmptyState
  <1>2. ASSUME NEW c \in Clients, OpenSession(c) PROVE PendingFits'
    BY <1>2 DEF OpenSession, Saved, SaveFailsTo, WithPending
  <1>3. ASSUME NEW c \in Clients, NewSession(c) PROVE PendingFits'
    BY <1>3 DEF NewSession, Save, Saved, SaveFails, SaveFailsTo, Thrown
  <1>4. ASSUME NEW c \in Clients, TakeControl(c) PROVE PendingFits'
    BY <1>4 DEF TakeControl, Save, Saved, SaveFails, SaveFailsTo, Thrown, ControlFree
  <1>5. ASSUME NEW c \in Clients, ControlBusy(c) PROVE PendingFits'
    BY <1>5 DEF ControlBusy, Thrown
  <1>6. ASSUME NEW c \in Clients, Build(c) PROVE PendingFits'
    BY <1>6 DEF Build, Save, Saved, SaveFails, SaveFailsTo, Thrown, WithPending
  <1>7. ASSUME NEW c \in Clients, Refresh(c) PROVE PendingFits'
    BY <1>7 DEF Refresh, Save, Saved, SaveFails, SaveFailsTo, Thrown
  <1>8. ASSUME NEW c \in Clients, Transmit(c) PROVE PendingFits'
    BY <1>8 DEF Transmit, Saved, SaveFails, SaveFailsTo, Thrown
  <1>9. ASSUME NEW c \in Clients, Accepted(c) PROVE PendingFits'
    BY <1>9 DEF Accepted, Saved, SaveFails, SaveFailsTo, Thrown, WithRecovered, Follows
  <1>10. ASSUME NEW c \in Clients, Rejected(c) PROVE PendingFits'
    BY <1>10 DEF Rejected, Save, Saved, SaveFails, SaveFailsTo, Thrown
  <1>11. ASSUME NEW c \in Clients, Unsettled(c) PROVE PendingFits'
    BY <1>11 DEF Unsettled, Thrown
  <1>12. ASSUME NEW c \in Clients, Disconnect(c) PROVE PendingFits'
    BY <1>12 DEF Disconnect, Thrown, Connection, Orphaned
  <1>13. ASSUME NEW c \in Clients, Crash(c) PROVE PendingFits'
    BY <1>13 DEF Crash, Connection, Orphaned
  <1>14. ASSUME NEW c \in Clients, Close(c) PROVE PendingFits'
    BY <1>14 DEF Close
  <1>15. ASSUME NEW c \in Clients, NEW r \in Requests, Request(c, r) PROVE PendingFits'
    BY <1>15 DEF Request
  <1>16. ASSUME NEW c \in Clients, NEW r \in Requests, Acknowledge(c, r) PROVE PendingFits'
    <2> DEFINE R == mem[c].recovered \ {r}
    <2>1. IsFiniteSet(R) /\ Cardinality(R) = Cardinality(mem[c].recovered) - 1
      BY ZenonT(60), <1>16, FS_RemoveElement DEF Acknowledge
    <2>2. Cardinality(R) \in Nat /\ Cardinality(mem[c].recovered) \in Nat
      BY <2>1, FS_CardinalityType
    <2>3. /\ mem' = [mem EXCEPT ![c] = WithRecovered(mem[c], R)]
          /\ disk' \in {disk, Durable(WithRecovered(mem[c], R))}
      BY <1>16 DEF Acknowledge, Saved, SaveFails, SaveFailsTo
    <2>4. mem[c].recovered = R \cup {r} /\ R \subseteq mem[c].recovered
      BY <1>16 DEF Acknowledge
    <2>5. \A d \in Clients : /\ mem'[d].recovered = IF d = c THEN R ELSE mem[d].recovered
                            /\ mem'[d].pending = mem[d].pending
      BY <2>3 DEF WithRecovered
    <2>6. \/ disk' = disk
          \/ disk'.recovered = R /\ disk'.pending \in {None, mem[c].pending}
      BY <2>3 DEF WithRecovered
    <2>7. Cardinality(mem[c].recovered) <= Capacity /\ Capacity \in Nat
      OBVIOUS
    <2>8. mem[c].pending # None /\ KindOf(mem[c].pending.req) = "completion" =>
            mem[c].pending.req \in R \/ Cardinality(R) < Capacity
      BY <2>1, <2>2, <2>4, <2>7
    <2> HIDE DEF R
    <2> QED
      BY <2>1, <2>2, <2>5, <2>6, <2>7, <2>8
  <1>17. ASSUME Hq PROVE PendingFits'
    BY <1>17 DEF Hq, HqAccept, HqRefuse, HqUnusable, HqUnavailable, Answer, Monotonic
  <1> QED
    BY <1>1, <1>2, <1>3, <1>4, <1>5, <1>6, <1>7, <1>8, <1>9, <1>10, <1>11, <1>12,
       <1>13, <1>14, <1>15, <1>16, <1>17 DEF Next, Step

LEMMA DiskFitsStep ==
  ASSUME TypeOK, PendingShape, StoreBounded, PendingFits, DiskFits, Next, OutboxAssumption, NoneIsNoMessage
  PROVE  DiskFits'
  <1> USE OutboxAssumption DEF Verdicts, GoTo, State, Settled, Durable, hq, counters,
           TypeOK, PendingShape, Sending, PendingFits, DiskFits, StoreBounded, OverCapacity
  <1>1. ASSUME NEW c \in Clients, Open(c) PROVE DiskFits'
    BY <1>1 DEF Open, EmptyState
  <1>2. ASSUME NEW c \in Clients, OpenSession(c) PROVE DiskFits'
    BY <1>2 DEF OpenSession, Saved, SaveFailsTo, WithPending
  <1>3. ASSUME NEW c \in Clients, NewSession(c) PROVE DiskFits'
    BY <1>3 DEF NewSession, Save, Saved, SaveFails, SaveFailsTo, Thrown
  <1>4. ASSUME NEW c \in Clients, TakeControl(c) PROVE DiskFits'
    BY <1>4 DEF TakeControl, Save, Saved, SaveFails, SaveFailsTo, Thrown, ControlFree
  <1>5. ASSUME NEW c \in Clients, ControlBusy(c) PROVE DiskFits'
    BY <1>5 DEF ControlBusy, Thrown
  <1>6. ASSUME NEW c \in Clients, Build(c) PROVE DiskFits'
    BY <1>6 DEF Build, Save, Saved, SaveFails, SaveFailsTo, Thrown, WithPending
  <1>7. ASSUME NEW c \in Clients, Refresh(c) PROVE DiskFits'
    BY <1>7 DEF Refresh, Save, Saved, SaveFails, SaveFailsTo, Thrown
  <1>8. ASSUME NEW c \in Clients, Transmit(c) PROVE DiskFits'
    BY <1>8 DEF Transmit, Saved, SaveFails, SaveFailsTo, Thrown
  <1>9. ASSUME NEW c \in Clients, Accepted(c) PROVE DiskFits'
    BY <1>9 DEF Accepted, Saved, SaveFails, SaveFailsTo, Thrown, WithRecovered, Follows
  <1>10. ASSUME NEW c \in Clients, Rejected(c) PROVE DiskFits'
    BY <1>10 DEF Rejected, Save, Saved, SaveFails, SaveFailsTo, Thrown
  <1>11. ASSUME NEW c \in Clients, Unsettled(c) PROVE DiskFits'
    BY <1>11 DEF Unsettled, Thrown
  <1>12. ASSUME NEW c \in Clients, Disconnect(c) PROVE DiskFits'
    BY <1>12 DEF Disconnect, Thrown, Connection, Orphaned
  <1>13. ASSUME NEW c \in Clients, Crash(c) PROVE DiskFits'
    BY <1>13 DEF Crash, Connection, Orphaned
  <1>14. ASSUME NEW c \in Clients, Close(c) PROVE DiskFits'
    BY <1>14 DEF Close
  <1>15. ASSUME NEW c \in Clients, NEW r \in Requests, Request(c, r) PROVE DiskFits'
    BY <1>15 DEF Request
  <1>16. ASSUME NEW c \in Clients, NEW r \in Requests, Acknowledge(c, r) PROVE DiskFits'
    <2> DEFINE R == mem[c].recovered \ {r}
    <2>1. IsFiniteSet(R) /\ Cardinality(R) = Cardinality(mem[c].recovered) - 1
      BY ZenonT(60), <1>16, FS_RemoveElement DEF Acknowledge
    <2>2. Cardinality(R) \in Nat /\ Cardinality(mem[c].recovered) \in Nat
      BY <2>1, FS_CardinalityType
    <2>3. /\ mem' = [mem EXCEPT ![c] = WithRecovered(mem[c], R)]
          /\ disk' \in {disk, Durable(WithRecovered(mem[c], R))}
      BY <1>16 DEF Acknowledge, Saved, SaveFails, SaveFailsTo
    <2>4. mem[c].recovered = R \cup {r} /\ R \subseteq mem[c].recovered
      BY <1>16 DEF Acknowledge
    <2>5. \A d \in Clients : /\ mem'[d].recovered = IF d = c THEN R ELSE mem[d].recovered
                            /\ mem'[d].pending = mem[d].pending
      BY <2>3 DEF WithRecovered
    <2>6. \/ disk' = disk
          \/ disk'.recovered = R /\ disk'.pending \in {None, mem[c].pending}
      BY <2>3 DEF WithRecovered
    <2>7. Cardinality(mem[c].recovered) <= Capacity /\ Capacity \in Nat
      OBVIOUS
    <2>8. mem[c].pending # None /\ KindOf(mem[c].pending.req) = "completion" =>
            mem[c].pending.req \in R \/ Cardinality(R) < Capacity
      BY <2>1, <2>2, <2>4, <2>7
    <2> HIDE DEF R
    <2> QED
      BY <2>1, <2>2, <2>5, <2>6, <2>7, <2>8
  <1>17. ASSUME Hq PROVE DiskFits'
    BY <1>17 DEF Hq, HqAccept, HqRefuse, HqUnusable, HqUnavailable, Answer, Monotonic
  <1> QED
    BY <1>1, <1>2, <1>3, <1>4, <1>5, <1>6, <1>7, <1>8, <1>9, <1>10, <1>11, <1>12,
       <1>13, <1>14, <1>15, <1>16, <1>17 DEF Next, Step

(***************************************************************************)
(* The invariant, and the properties that follow from it.                  *)
(***************************************************************************)
LEMMA InvInit == ASSUME Init, OutboxAssumption, NoneIsNoMessage PROVE Inv
  <1>1. TypeOK
    BY EmptyType DEF Init, TypeOK, Phases
  <1>2. IsFiniteSet({}) /\ Cardinality({}) = 0 /\ 0 <= Capacity
    BY FS_EmptySet DEF OutboxAssumption
  <1>6. /\ disk.pending = None /\ disk.recovered = {} /\ answered = {} /\ wire = {}
        /\ applied = {} /\ refused = {} /\ sent = {}
    BY DEF Init, EmptyState, State
  <1>8. ASSUME NEW c \in Clients
        PROVE  /\ mem[c].pending = None /\ mem[c].recovered = {}
               /\ pc[c] = "closed" /\ reply[c] = None
    BY DEF Init, EmptyState, State
  <1>3. PendingShape /\ ConnectionShape /\ IdsFresh
    BY <1>6, <1>8, OutboxAssumption
       DEF PendingShape, ConnectionShape, IdsFresh, Sending, OutboxAssumption, Verdicts
  <1>4. ContentShape /\ PendingFits /\ DiskFits
    BY <1>6, <1>8 DEF ContentShape, PendingFits, DiskFits
  <1>7. ReceiptsAreReal
    <2>1. answered \cup disk.recovered = {}
      BY <1>6
    <2> QED
      BY <1>6, <1>8, <2>1, Zenon DEF ReceiptsAreReal
  <1>5. StoreBounded
    BY <1>2 DEF Init, EmptyState, State, StoreBounded
  <1> QED
    BY <1>1, <1>3, <1>4, <1>5, <1>7 DEF Inv

LEMMA InvStep == ASSUME Inv, [Next]_vars, OutboxAssumption, NoneIsNoMessage PROVE Inv'
  <1>1. CASE Next
    BY <1>1, TypeStep, PendingShapeStep, ConnectionShapeStep, IdsFreshStep, ContentShapeStep,
       ReceiptsStep, StoreStep, PendingFitsStep, DiskFitsStep DEF Inv
  <1>2. CASE UNCHANGED vars
    BY <1>2 DEF vars, hq, counters, Inv, TypeOK, PendingShape, ConnectionShape, IdsFresh, Sending,
       ContentShape, PendingFits, DiskFits, ReceiptsAreReal, AcceptedByHq, StoreBounded
  <1> QED
    BY <1>1, <1>2

THEOREM InvHolds == Spec => []Inv
  <1>1. Init => Inv
    BY InvInit, OutboxAssumption, NoneIsNoMessage
  <1>2. Inv /\ [Next]_vars => Inv'
    BY InvStep, OutboxAssumption, NoneIsNoMessage
  <1> QED
    BY <1>1, <1>2, PTL DEF Spec

\* Every reachable state is well formed: what the code's own validation of
\* the protocol-state file (assertProtocolState) would accept.
THEOREM TypeCorrect == Spec => []TypeOK
  <1>1. Inv => TypeOK
    BY DEF Inv
  <1> QED
    BY <1>1, InvHolds, PTL

\* A caller is told of success, and a completion is stored, only for a request
\* HQ accepted: for any number of clients on the file, and failing saves.
THEOREM ReceiptsReal == Spec => []ReceiptsAreReal
  <1>1. Inv => ReceiptsAreReal
    BY DEF Inv
  <1> QED
    BY <1>1, InvHolds, PTL

\* The list of stored completions keeps its limit, and a completion that was
\* let in still fits when it is sent.
THEOREM StoreKeepsItsLimit == Spec => [](StoreBounded /\ PendingFits)
  <1>1. Inv => StoreBounded /\ PendingFits
    BY DEF Inv
  <1> QED
    BY <1>1, InvHolds, PTL

\* A message that carries content is put on the wire once, whatever clients,
\* restarts and failing saves do.
THEOREM ContentSentOnce == Spec => ContentNeverResent
  <1> DEFINE Fresh == \A w \in wire' \ wire :
                        w.to # None /\ IsContentBearing(w.msg.req) => w.msg \notin sent
  <1>1. ASSUME Inv, [Next]_vars PROVE Fresh
    <2>1. CASE \E c \in Clients : Transmit(c)
      <3>1. PICK c \in Clients : Transmit(c)
        BY <2>1
      <3>2. wire' \subseteq wire \cup {[msg |-> mem[c].pending, to |-> c]}
        BY <3>1 DEF Transmit
      <3>3. mem[c].pending # None /\ pc[c] \in {"send", "signed"}
        BY <1>1, <3>1 DEF Transmit, Inv, PendingShape, Sending
      <3> QED
        BY <1>1, <3>2, <3>3 DEF Inv, ContentShape
    <2>2. CASE \E c \in Clients : Disconnect(c) \/ Crash(c)
      BY <2>2 DEF Disconnect, Crash, Orphaned, Connection
    <2>3. CASE ~ \E c \in Clients : Transmit(c) \/ Disconnect(c) \/ Crash(c)
      <3>1. wire' \subseteq wire
        BY ZenonT(60), <1>1, <2>3 DEF Next, Step, Open, OpenSession, NewSession, Request, TakeControl, ControlBusy,
           Build, Refresh, Accepted, Rejected, Unsettled, Acknowledge, Close, Hq, HqAccept, HqRefuse,
           HqUnusable, HqUnavailable, Answer, vars
      <3> QED
        BY SMTT(60), <3>1
    <2> QED
      BY <2>1, <2>2, <2>3
  <1>2. Inv /\ [Next]_vars => [Fresh]_vars
    BY <1>1
  <1> QED
    BY <1>2, InvHolds, PTL DEF Spec, ContentNeverResent


(***************************************************************************)
(* One client at a time saves to the file (SingleWriter) and every save    *)
(* has reached it (diskFaults = 0): then the file is as good as its        *)
(* client's memory, and what SignedOutbox promises of sequence numbers and *)
(* of task completions holds, for any set of isolated clients beside it,   *)
(* any requests and any bounds.                                            *)
(***************************************************************************)

(***************************************************************************)
(* The file and the memory of the client that saves to it.                 *)
(***************************************************************************)
\* What the file has of the client that saves to it.
LEMMA DiskCopy ==
  ASSUME TypeOK, Synced, NEW c \in Writers, Active(c)
  PROVE  /\ disk.session = mem[c].session
         /\ disk.recovered = mem[c].recovered
         /\ disk.pending # None => disk = mem[c]
         /\ mem[c].pending # None /\ ~IsExplicitlyRebuilt(mem[c].pending.req) => disk = mem[c]
  BY DEF Synced, Durable, Settled, State, TypeOK, ProtocolState, Writers

\* A save that succeeds leaves the file as its client would save it.
LEMMA SavedSynced ==
  ASSUME TypeOK, Synced, SingleWriter, NEW c \in Clients, NEW s, NEW p, Saved(c, s, p)
  PROVE  Synced'
  BY SMTT(60) DEF TypeOK, Synced, SingleWriter, Writers, Active, Saved, GoTo

\* Synced is preserved: every change of the writer's memory ends in a save,
\* and isolated clients never touch the file.
LEMMA SyncedStep ==
  ASSUME TypeOK, PendingShape, ContentShape, Synced, SingleWriter, Next, diskFaults = 0, diskFaults' = 0,
         OutboxAssumption, NoneIsNoMessage
  PROVE  Synced'
  <1> USE OutboxAssumption DEF GoTo, State, Settled, Durable, hq, counters,
           TypeOK, PendingShape, Sending, Synced, SingleWriter, Writers, Active
  <1>1. ASSUME NEW c \in Clients, Open(c) PROVE Synced'
    BY <1>1 DEF Open, EmptyState, ContentShape
  <1>2. ASSUME NEW c \in Clients, OpenSession(c) PROVE Synced'
    BY <1>2 DEF OpenSession, Saved, SaveFailsTo, WithPending
  <1>3. ASSUME NEW c \in Clients, NewSession(c) PROVE Synced'
    BY <1>3 DEF NewSession, Save, Saved, SaveFails, SaveFailsTo, Thrown
  <1>4. ASSUME NEW c \in Clients, TakeControl(c) PROVE Synced'
    BY <1>4 DEF TakeControl, Save, Saved, SaveFails, SaveFailsTo, Thrown
  <1>5. ASSUME NEW c \in Clients, ControlBusy(c) PROVE Synced'
    BY <1>5 DEF ControlBusy, Thrown
  <1>6. ASSUME NEW c \in Clients, Build(c) PROVE Synced'
    BY <1>6 DEF Build, Save, Saved, SaveFails, SaveFailsTo, Thrown, WithPending
  <1>7. ASSUME NEW c \in Clients, Refresh(c) PROVE Synced'
    BY <1>7 DEF Refresh, Save, Saved, SaveFails, SaveFailsTo, Thrown
  <1>8. ASSUME NEW c \in Clients, Transmit(c) PROVE Synced'
    BY <1>8 DEF Transmit, Saved, SaveFails, SaveFailsTo, Thrown
  <1>9. ASSUME NEW c \in Clients, Accepted(c) PROVE Synced'
    <2>1. PICK s : Saved(c, s, Follows(c)) \/ SaveFails(c, s)
      BY <1>9 DEF Accepted
    <2> QED
      BY <2>1, SavedSynced DEF SaveFails, SaveFailsTo
  <1>10. ASSUME NEW c \in Clients, Rejected(c) PROVE Synced'
    BY <1>10 DEF Rejected, Save, Saved, SaveFails, SaveFailsTo, Thrown
  <1>11. ASSUME NEW c \in Clients, Unsettled(c) PROVE Synced'
    BY <1>11 DEF Unsettled, Thrown
  <1>12. ASSUME NEW c \in Clients, Disconnect(c) PROVE Synced'
    BY <1>12 DEF Disconnect, Thrown, Connection, Orphaned
  <1>13. ASSUME NEW c \in Clients, Crash(c) PROVE Synced'
    BY <1>13 DEF Crash, Connection, Orphaned
  <1>14. ASSUME NEW c \in Clients, Close(c) PROVE Synced'
    BY <1>14 DEF Close
  <1>15. ASSUME NEW c \in Clients, NEW r \in Requests, Request(c, r) PROVE Synced'
    BY <1>15 DEF Request
  <1>16. ASSUME NEW c \in Clients, NEW r \in Requests, Acknowledge(c, r) PROVE Synced'
    <2>1. PICK s : Saved(c, s, "ready") \/ SaveFails(c, s)
      BY <1>16 DEF Acknowledge
    <2> QED
      BY <2>1, SavedSynced DEF SaveFails, SaveFailsTo
  <1>17. ASSUME Hq PROVE Synced'
    BY <1>17 DEF Hq, HqAccept, HqRefuse, HqUnusable, HqUnavailable, Answer
  <1> QED
    BY <1>1, <1>2, <1>3, <1>4, <1>5, <1>6, <1>7, <1>8, <1>9, <1>10, <1>11, <1>12,
       <1>13, <1>14, <1>15, <1>16, <1>17 DEF Next, Step

(***************************************************************************)
(* Where openSession stands, and what isolated clients never handle.       *)
(***************************************************************************)
\* OpeningShape is preserved.
LEMMA OpeningStep ==
  ASSUME TypeOK, PendingShape, OpeningShape, Next, diskFaults = 0, diskFaults' = 0,
         OutboxAssumption, NoneIsNoMessage
  PROVE  OpeningShape'
  <1> USE OutboxAssumption DEF GoTo, State, Settled, Durable, hq, counters,
           TypeOK, PendingShape, Sending, OpeningShape, UnderControl
  <1>1. ASSUME NEW c \in Clients, Open(c) PROVE OpeningShape'
    BY <1>1 DEF Open, EmptyState
  <1>2. ASSUME NEW c \in Clients, OpenSession(c) PROVE OpeningShape'
    BY <1>2 DEF OpenSession, Saved, SaveFailsTo, WithPending
  <1>3. ASSUME NEW c \in Clients, NewSession(c) PROVE OpeningShape'
    BY <1>3 DEF NewSession, Save, Saved, SaveFails, SaveFailsTo, Thrown
  <1>4. ASSUME NEW c \in Clients, TakeControl(c) PROVE OpeningShape'
    BY <1>4 DEF TakeControl, Save, Saved, SaveFails, SaveFailsTo, Thrown
  <1>5. ASSUME NEW c \in Clients, ControlBusy(c) PROVE OpeningShape'
    BY <1>5 DEF ControlBusy, Thrown
  <1>6. ASSUME NEW c \in Clients, Build(c) PROVE OpeningShape'
    BY <1>6 DEF Build, Save, Saved, SaveFails, SaveFailsTo, Thrown, WithPending
  <1>7. ASSUME NEW c \in Clients, Refresh(c) PROVE OpeningShape'
    BY <1>7 DEF Refresh, Save, Saved, SaveFails, SaveFailsTo, Thrown
  <1>8. ASSUME NEW c \in Clients, Transmit(c) PROVE OpeningShape'
    BY <1>8 DEF Transmit, Saved, SaveFails, SaveFailsTo, Thrown
  <1>9. ASSUME NEW c \in Clients, Accepted(c) PROVE OpeningShape'
    BY <1>9 DEF Accepted, Saved, SaveFails, SaveFailsTo, Thrown, WithRecovered, Follows
  <1>10. ASSUME NEW c \in Clients, Rejected(c) PROVE OpeningShape'
    BY <1>10 DEF Rejected, Save, Saved, SaveFails, SaveFailsTo, Thrown
  <1>11. ASSUME NEW c \in Clients, Unsettled(c) PROVE OpeningShape'
    BY <1>11 DEF Unsettled, Thrown
  <1>12. ASSUME NEW c \in Clients, Disconnect(c) PROVE OpeningShape'
    BY <1>12 DEF Disconnect, Thrown, Connection, Orphaned
  <1>13. ASSUME NEW c \in Clients, Crash(c) PROVE OpeningShape'
    BY <1>13 DEF Crash, Connection, Orphaned
  <1>14. ASSUME NEW c \in Clients, Close(c) PROVE OpeningShape'
    BY <1>14 DEF Close
  <1>15. ASSUME NEW c \in Clients, NEW r \in Requests, Request(c, r) PROVE OpeningShape'
    BY <1>15 DEF Request
  <1>16. ASSUME NEW c \in Clients, NEW r \in Requests, Acknowledge(c, r) PROVE OpeningShape'
    BY <1>16 DEF Acknowledge, Saved, SaveFails, SaveFailsTo, Thrown, WithRecovered
  <1>17. ASSUME Hq PROVE OpeningShape'
    BY SMTT(60), <1>17 DEF Hq, HqAccept, HqRefuse, HqUnusable, HqUnavailable, Answer
  <1> QED
    BY <1>1, <1>2, <1>3, <1>4, <1>5, <1>6, <1>7, <1>8, <1>9, <1>10, <1>11, <1>12,
       <1>13, <1>14, <1>15, <1>16, <1>17 DEF Next, Step

\* IsolatedShape is preserved.
LEMMA IsolatedStep ==
  ASSUME TypeOK, PendingShape, IsolatedShape, Next, diskFaults = 0, diskFaults' = 0,
         OutboxAssumption, NoneIsNoMessage
  PROVE  IsolatedShape'
  <1> USE OutboxAssumption DEF GoTo, State, Settled, Durable, hq, counters,
           TypeOK, PendingShape, Sending, IsolatedShape, IsCompletion, KindOf
  <1>1. ASSUME NEW c \in Clients, Open(c) PROVE IsolatedShape'
    BY <1>1 DEF Open, EmptyState
  <1>2. ASSUME NEW c \in Clients, OpenSession(c) PROVE IsolatedShape'
    BY <1>2 DEF OpenSession, Saved, SaveFailsTo, WithPending
  <1>3. ASSUME NEW c \in Clients, NewSession(c) PROVE IsolatedShape'
    BY <1>3 DEF NewSession, Save, Saved, SaveFails, SaveFailsTo, Thrown
  <1>4. ASSUME NEW c \in Clients, TakeControl(c) PROVE IsolatedShape'
    BY <1>4 DEF TakeControl, Save, Saved, SaveFails, SaveFailsTo, Thrown
  <1>5. ASSUME NEW c \in Clients, ControlBusy(c) PROVE IsolatedShape'
    BY <1>5 DEF ControlBusy, Thrown
  <1>6. ASSUME NEW c \in Clients, Build(c) PROVE IsolatedShape'
    BY <1>6 DEF Build, Save, Saved, SaveFails, SaveFailsTo, Thrown, WithPending
  <1>7. ASSUME NEW c \in Clients, Refresh(c) PROVE IsolatedShape'
    BY <1>7 DEF Refresh, Save, Saved, SaveFails, SaveFailsTo, Thrown
  <1>8. ASSUME NEW c \in Clients, Transmit(c) PROVE IsolatedShape'
    BY <1>8 DEF Transmit, Saved, SaveFails, SaveFailsTo, Thrown
  <1>9. ASSUME NEW c \in Clients, Accepted(c) PROVE IsolatedShape'
    BY <1>9 DEF Accepted, Saved, SaveFails, SaveFailsTo, Thrown, WithRecovered, Follows
  <1>10. ASSUME NEW c \in Clients, Rejected(c) PROVE IsolatedShape'
    BY <1>10 DEF Rejected, Save, Saved, SaveFails, SaveFailsTo, Thrown
  <1>11. ASSUME NEW c \in Clients, Unsettled(c) PROVE IsolatedShape'
    BY <1>11 DEF Unsettled, Thrown
  <1>12. ASSUME NEW c \in Clients, Disconnect(c) PROVE IsolatedShape'
    BY <1>12 DEF Disconnect, Thrown, Connection, Orphaned
  <1>13. ASSUME NEW c \in Clients, Crash(c) PROVE IsolatedShape'
    BY <1>13 DEF Crash, Connection, Orphaned
  <1>14. ASSUME NEW c \in Clients, Close(c) PROVE IsolatedShape'
    BY <1>14 DEF Close
  <1>15. ASSUME NEW c \in Clients, NEW r \in Requests, Request(c, r) PROVE IsolatedShape'
    BY <1>15 DEF Request
  <1>16. ASSUME NEW c \in Clients, NEW r \in Requests, Acknowledge(c, r) PROVE IsolatedShape'
    BY <1>16 DEF Acknowledge, Saved, SaveFails, SaveFailsTo, Thrown, WithRecovered
  <1>17. ASSUME Hq PROVE IsolatedShape'
    BY <1>17 DEF Hq, HqAccept, HqRefuse, HqUnusable, HqUnavailable, Answer
  <1> QED
    BY <1>1, <1>2, <1>3, <1>4, <1>5, <1>6, <1>7, <1>8, <1>9, <1>10, <1>11, <1>12,
       <1>13, <1>14, <1>15, <1>16, <1>17 DEF Next, Step

(***************************************************************************)
(* Completions: the file keeps what was sent until it is acknowledged.     *)
(***************************************************************************)
\* A completion is neither content nor rebuilt, nor the request for a session.
LEMMA CompletionKind ==
  ASSUME NEW r, IsCompletion(r)
  PROVE  ~IsExplicitlyRebuilt(r) /\ ~IsContentBearing(r) /\ r # SessionOpen /\ KindOf(r) # "enforcement"
  BY DEF IsCompletion, IsExplicitlyRebuilt, IsContentBearing, KindOf

\* SentCompletionsKept is preserved: a completion leaves the pending slot
\* only with its receipt or with HQ's rejection.
LEMMA SentStep ==
  ASSUME TypeOK, PendingShape, ConnectionShape, OpeningShape, IsolatedShape, Synced, SingleWriter,
         SentCompletionsKept, Next, diskFaults = 0, diskFaults' = 0, OutboxAssumption, NoneIsNoMessage
  PROVE  SentCompletionsKept'
  <1> USE OutboxAssumption DEF GoTo, State, Settled, Durable, hq, counters,
           TypeOK, PendingShape, Sending, OpeningShape, SingleWriter, Writers, Active, SentCompletionsKept
  <1>1. ASSUME NEW c \in Clients, Open(c) PROVE SentCompletionsKept'
    BY <1>1, DiskCopy, CompletionKind DEF Open, EmptyState
  <1>2. ASSUME NEW c \in Clients, OpenSession(c) PROVE SentCompletionsKept'
    BY <1>2, DiskCopy, CompletionKind DEF OpenSession, Saved, SaveFailsTo, WithPending
  <1>3. ASSUME NEW c \in Clients, NewSession(c) PROVE SentCompletionsKept'
    BY <1>3, DiskCopy, CompletionKind DEF NewSession, Save, Saved, SaveFails, SaveFailsTo, Thrown
  <1>4. ASSUME NEW c \in Clients, TakeControl(c) PROVE SentCompletionsKept'
    BY <1>4, DiskCopy, CompletionKind DEF TakeControl, Save, Saved, SaveFails, SaveFailsTo, Thrown
  <1>5. ASSUME NEW c \in Clients, ControlBusy(c) PROVE SentCompletionsKept'
    BY <1>5, DiskCopy, CompletionKind DEF ControlBusy, Thrown
  <1>6. ASSUME NEW c \in Clients, Build(c) PROVE SentCompletionsKept'
    BY <1>6, DiskCopy, CompletionKind DEF Build, Save, Saved, SaveFails, SaveFailsTo, Thrown, WithPending
  <1>7. ASSUME NEW c \in Clients, Refresh(c) PROVE SentCompletionsKept'
    BY <1>7, DiskCopy, CompletionKind DEF Refresh, Save, Saved, SaveFails, SaveFailsTo, Thrown
  <1>8. ASSUME NEW c \in Clients, Transmit(c) PROVE SentCompletionsKept'
    <2>1. pc[c] \in {"send", "signed"} /\ mem[c].pending # None
      BY <1>8 DEF Transmit
    <2>2. UNCHANGED <<disk, acked, refused>> /\ sent' \subseteq sent \cup {mem[c].pending}
      BY <1>8, <2>1 DEF Transmit, Saved, SaveFails, SaveFailsTo, Synced
    <2>3. IsCompletion(mem[c].pending.req) => disk.pending = mem[c].pending
      BY <2>1, DiskCopy, CompletionKind DEF IsolatedShape
    <2> QED
      BY <2>2, <2>3
  <1>9. ASSUME NEW c \in Clients, Accepted(c) PROVE SentCompletionsKept'
    <2> DEFINE p == mem[c].pending
               s == IF KindOf(p.req) = "completion"
                    THEN WithRecovered(mem[c], mem[c].recovered \cup {p.req}) ELSE mem[c]
    <2>1. /\ pc[c] = "await" /\ p # None
          /\ Saved(c, Settled(s), Follows(c))
          /\ UNCHANGED <<acked, refused, sent>>
      BY <1>9 DEF Accepted, SaveFails, SaveFailsTo
    <2>2. CASE c \in Isolated
      BY <2>1, <2>2 DEF Saved
    <2>3. CASE c \notin Isolated
      <3>1. disk' = Settled(s)
        BY <2>1, <2>3 DEF Saved
      <3>2. disk.recovered \subseteq disk'.recovered
        BY <3>1, <2>1, <2>3, DiskCopy DEF WithRecovered
      <3>3. disk.pending # None /\ IsCompletion(disk.pending.req) => disk.pending.req \in disk'.recovered
        BY <3>1, <2>1, <2>3, DiskCopy DEF WithRecovered, IsCompletion
      <3> QED
        BY <2>1, <3>2, <3>3, NoneIsNoMessage
    <2> QED
      BY <2>2, <2>3
  <1>10. ASSUME NEW c \in Clients, Rejected(c) PROVE SentCompletionsKept'
    <2>1. /\ pc[c] = "await" /\ mem[c].pending # None /\ mem[c].pending \in refused
          /\ Saved(c, Settled(mem[c]), Thrown(c))
          /\ UNCHANGED <<acked, refused, sent>>
      BY <1>10 DEF Rejected, Save, SaveFails, SaveFailsTo, ConnectionShape
    <2>2. CASE c \in Isolated
      BY <2>1, <2>2 DEF Saved
    <2>3. CASE c \notin Isolated
      <3>1. disk'.recovered = disk.recovered
        BY <2>1, <2>3, DiskCopy DEF Saved
      <3>2. disk.pending # None => disk.pending \in refused
        BY <2>1, <2>3, DiskCopy
      <3> QED
        BY <2>1, <3>1, <3>2, NoneIsNoMessage
    <2> QED
      BY <2>2, <2>3
  <1>11. ASSUME NEW c \in Clients, Unsettled(c) PROVE SentCompletionsKept'
    BY <1>11, DiskCopy, CompletionKind DEF Unsettled, Thrown
  <1>12. ASSUME NEW c \in Clients, Disconnect(c) PROVE SentCompletionsKept'
    BY <1>12, DiskCopy, CompletionKind DEF Disconnect, Thrown, Connection, Orphaned
  <1>13. ASSUME NEW c \in Clients, Crash(c) PROVE SentCompletionsKept'
    BY <1>13, DiskCopy, CompletionKind DEF Crash, Connection, Orphaned
  <1>14. ASSUME NEW c \in Clients, Close(c) PROVE SentCompletionsKept'
    BY <1>14, DiskCopy, CompletionKind DEF Close
  <1>15. ASSUME NEW c \in Clients, NEW r \in Requests, Request(c, r) PROVE SentCompletionsKept'
    BY <1>15, DiskCopy, CompletionKind DEF Request
  <1>16. ASSUME NEW c \in Clients, NEW r \in Requests, Acknowledge(c, r) PROVE SentCompletionsKept'
    BY <1>16, DiskCopy, CompletionKind DEF Acknowledge, Saved, SaveFails, SaveFailsTo, Thrown, WithRecovered
  <1>17. ASSUME Hq PROVE SentCompletionsKept'
    BY SMTT(60), <1>17, DiskCopy, CompletionKind DEF Hq, HqAccept, HqRefuse, HqUnusable, HqUnavailable, Answer
  <1> QED
    BY <1>1, <1>2, <1>3, <1>4, <1>5, <1>6, <1>7, <1>8, <1>9, <1>10, <1>11, <1>12,
       <1>13, <1>14, <1>15, <1>16, <1>17 DEF Next, Step

\* CompletionOpen is preserved: what is stored or acknowledged is not posted
\* once more.
LEMMA CompletionOpenStep ==
  ASSUME TypeOK, PendingShape, OpeningShape, IsolatedShape, Synced, SingleWriter, CompletionOpen,
         Next, diskFaults = 0, diskFaults' = 0, OutboxAssumption, NoneIsNoMessage
  PROVE  CompletionOpen'
  <1> USE OutboxAssumption DEF GoTo, State, Settled, Durable, hq, counters,
           TypeOK, PendingShape, Sending, OpeningShape, SingleWriter, Writers, Active, CompletionOpen
  <1>1. ASSUME NEW c \in Clients, Open(c) PROVE CompletionOpen'
    BY <1>1, DiskCopy, CompletionKind DEF Open, EmptyState
  <1>2. ASSUME NEW c \in Clients, OpenSession(c) PROVE CompletionOpen'
    BY <1>2, DiskCopy, CompletionKind DEF OpenSession, Saved, SaveFailsTo, WithPending
  <1>3. ASSUME NEW c \in Clients, NewSession(c) PROVE CompletionOpen'
    BY <1>3, DiskCopy, CompletionKind DEF NewSession, Save, Saved, SaveFails, SaveFailsTo, Thrown
  <1>4. ASSUME NEW c \in Clients, TakeControl(c) PROVE CompletionOpen'
    BY <1>4, DiskCopy, CompletionKind DEF TakeControl, Save, Saved, SaveFails, SaveFailsTo, Thrown
  <1>5. ASSUME NEW c \in Clients, ControlBusy(c) PROVE CompletionOpen'
    BY <1>5, DiskCopy, CompletionKind DEF ControlBusy, Thrown
  <1>6. ASSUME NEW c \in Clients, Build(c) PROVE CompletionOpen'
    BY <1>6, DiskCopy, CompletionKind DEF Build, Save, Saved, SaveFails, SaveFailsTo, Thrown, WithPending
  <1>7. ASSUME NEW c \in Clients, Refresh(c) PROVE CompletionOpen'
    BY <1>7, DiskCopy, CompletionKind DEF Refresh, Save, Saved, SaveFails, SaveFailsTo, Thrown
  <1>8. ASSUME NEW c \in Clients, Transmit(c) PROVE CompletionOpen'
    BY <1>8, DiskCopy, CompletionKind DEF Transmit, Saved, SaveFails, SaveFailsTo, Thrown
  <1>9. ASSUME NEW c \in Clients, Accepted(c) PROVE CompletionOpen'
    <2> DEFINE p == mem[c].pending
               s == IF KindOf(p.req) = "completion"
                    THEN WithRecovered(mem[c], mem[c].recovered \cup {p.req}) ELSE mem[c]
    <2>1. /\ pc[c] = "await" /\ p # None /\ Active(c)
          /\ Saved(c, Settled(s), Follows(c))
          /\ UNCHANGED <<acked, aim, call>>
      BY SMTT(60), <1>9 DEF Accepted, SaveFails, SaveFailsTo
    <2>2. CASE c \in Isolated
      BY <2>1, <2>2 DEF Saved
    <2>3. CASE c \notin Isolated
      <3>1. disk' = Settled(s) /\ mem' = [mem EXCEPT ![c] = Settled(s)] /\ disk'.pending = None
        BY <2>1, <2>3 DEF Saved
      <3>2. disk'.recovered = IF IsCompletion(p.req) THEN mem[c].recovered \cup {p.req} ELSE mem[c].recovered
        BY <3>1 DEF WithRecovered, IsCompletion
      <3>3. disk'.recovered \subseteq Completions /\ acked \cap disk'.recovered = {}
        <4>1. disk.recovered = mem[c].recovered
          BY <2>1, <2>3, DiskCopy
        <4>2. IsCompletion(p.req) => p.req \in Completions /\ p.req \notin acked
          <5>1. p.req \in AllRequests
            BY <2>1 DEF ProtocolState, Message
          <5> QED
            BY <2>1, <2>3, <5>1, CompletionKind DEF Completions, AllRequests
        <4> QED
          BY <4>1, <4>2, <3>2
      <3>4. mem'[c].pending = None /\ mem'[c].recovered = disk'.recovered
        BY <3>1
      <3>5. pc' = [pc EXCEPT ![c] = Follows(c)]
        BY <2>1 DEF Saved
      <3>6. Follows(c) = "build" /\ IsCompletion(call[c]) => call[c] \notin disk'.recovered \cup acked
        <4>1. Follows(c) = "build" => aim[c] = "call" /\ p.req # call[c]
          BY DEF Follows
        <4> QED
          BY <4>1, <3>2, <2>1, <2>3
      <3>7. Follows(c) \in {"fresh", "build", "ready"}
        BY DEF Follows
      <3>8. disk'.recovered \subseteq Completions /\ acked' \cap disk'.recovered = {}
        BY <2>1, <3>3
      <3>9. \A d \in Writers : d = c
        BY <2>3
      <3>10. pc'[c] = "build" => aim'[c] = aim[c] /\ call'[c] = call[c]
        BY <2>1
      <3> HIDE DEF s, p
      <3> QED
        BY SMTT(60), <2>1, <3>1, <3>4, <3>5, <3>6, <3>7, <3>8, <3>9, <3>10
    <2> QED
      BY SMTT(60), <2>2, <2>3
  <1>10. ASSUME NEW c \in Clients, Rejected(c) PROVE CompletionOpen'
    BY <1>10, DiskCopy, CompletionKind DEF Rejected, Save, Saved, SaveFails, SaveFailsTo, Thrown
  <1>11. ASSUME NEW c \in Clients, Unsettled(c) PROVE CompletionOpen'
    BY <1>11, DiskCopy, CompletionKind DEF Unsettled, Thrown
  <1>12. ASSUME NEW c \in Clients, Disconnect(c) PROVE CompletionOpen'
    BY <1>12, DiskCopy, CompletionKind DEF Disconnect, Thrown, Connection, Orphaned
  <1>13. ASSUME NEW c \in Clients, Crash(c) PROVE CompletionOpen'
    BY <1>13, DiskCopy, CompletionKind DEF Crash, Connection, Orphaned
  <1>14. ASSUME NEW c \in Clients, Close(c) PROVE CompletionOpen'
    BY <1>14, DiskCopy, CompletionKind DEF Close
  <1>15. ASSUME NEW c \in Clients, NEW r \in Requests, Request(c, r) PROVE CompletionOpen'
    BY <1>15 DEF Request, IsCompletion
  <1>16. ASSUME NEW c \in Clients, NEW r \in Requests, Acknowledge(c, r) PROVE CompletionOpen'
    <2> DEFINE s == WithRecovered(mem[c], mem[c].recovered \ {r})
    <2>1. /\ pc[c] = "ready" /\ r \in mem[c].recovered /\ c \in Writers
          /\ Saved(c, s, "ready") /\ acked' = acked \cup {r}
          /\ UNCHANGED <<aim, call>>
      BY <1>16 DEF Acknowledge, SaveFails, SaveFailsTo, IsolatedShape
    <2>2. disk' = Durable(s) /\ mem' = [mem EXCEPT ![c] = s] /\ pc' = [pc EXCEPT ![c] = "ready"]
      BY <2>1 DEF Saved
    <2>3. s.pending = mem[c].pending /\ s.recovered = mem[c].recovered \ {r}
      BY DEF WithRecovered
    <2>4. disk.recovered = mem[c].recovered
      BY <2>1, DiskCopy
    <2>5. disk'.recovered = disk.recovered \ {r} /\ disk'.pending \in {None, s.pending}
      BY <2>2, <2>3, <2>4
    <2> HIDE DEF s
    <2> QED
      BY <2>1, <2>2, <2>3, <2>4, <2>5
  <1>17. ASSUME Hq PROVE CompletionOpen'
    BY <1>17, DiskCopy, CompletionKind DEF Hq, HqAccept, HqRefuse, HqUnusable, HqUnavailable, Answer
  <1> QED
    BY <1>1, <1>2, <1>3, <1>4, <1>5, <1>6, <1>7, <1>8, <1>9, <1>10, <1>11, <1>12,
       <1>13, <1>14, <1>15, <1>16, <1>17 DEF Next, Step

(***************************************************************************)
(* Sequence numbers.                                                       *)
(***************************************************************************)
\* Giving up or acknowledging what is pending leaves its number unused.
LEMMA SettledSequence ==
  ASSUME NEW s \in ProtocolState, sent \subseteq Message, SequenceShape(s), BelowNext(s),
         OutboxAssumption, NoneIsNoMessage
  PROVE  /\ Settled(s).session = s.session /\ Settled(s).pending = None
         /\ SequenceShape(Settled(s)) /\ BelowNext(Settled(s))
  <1> USE DEF ProtocolState, Message, SequenceShape, BelowNext, Settled, State
  <1>1. SequenceShape(Settled(s))
    OBVIOUS
  <1>2. BelowNext(Settled(s))
    BY s.next \in Nat
  <1> QED
    BY <1>1, <1>2

\* Whoever saves a state with sound numbers leaves sound numbers.
LEMMA SavedSequences ==
  ASSUME TypeOK, ClientSequences, NEW c \in Clients, NEW s \in ProtocolState, NEW p \in Phases,
         Saved(c, s, p), UNCHANGED <<sent, sessions>>, SequenceShape(s),
         s.pending # None \/ p \notin {"closed", "opened", "fresh"} => BelowNext(s) /\ s.session > 0
  PROVE  ClientSequences'
  <1>1. \A d \in Clients : /\ mem'[d] = IF d = c THEN s ELSE mem[d]
                           /\ pc'[d] = IF d = c THEN p ELSE pc[d]
    BY DEF Saved, GoTo, TypeOK
  <1> QED
    BY <1>1 DEF ClientSequences, SequenceShape, BelowNext, Active, InSession

\* Saving within a session keeps the sessions of isolated clients apart.
LEMMA SavedApart ==
  ASSUME TypeOK, SessionsApart, Synced, SingleWriter, OutboxAssumption, NEW c \in Clients,
         NEW s \in ProtocolState, NEW p, Saved(c, s, p), Active(c), s.session = mem[c].session
  PROVE  SessionsApart'
  <1>1. \A d \in Clients : /\ mem'[d].session = mem[d].session
                           /\ d # c => pc'[d] = pc[d]
    BY DEF Saved, GoTo, TypeOK
  <1>2. disk'.session = disk.session
    <2>1. CASE c \in Isolated
      BY <2>1 DEF Saved
    <2>2. CASE c \in Writers
      BY <2>2, DiskCopy DEF Saved, Writers, Durable, Settled, State
    <2> QED
      BY <2>1, <2>2 DEF Writers
  <1> QED
    BY <1>1, <1>2 DEF SessionsApart, Active, OutboxAssumption

\* SentSessions is preserved.
LEMMA SentSessionsStep ==
  ASSUME TypeOK, PendingShape, OpeningShape, Synced, SingleWriter, SequencesFresh, Next,
         diskFaults = 0, diskFaults' = 0, OutboxAssumption, NoneIsNoMessage
  PROVE  SentSessions'
  <1> USE OutboxAssumption DEF GoTo, State, Settled, Durable, hq, counters,
           TypeOK, PendingShape, Sending, OpeningShape, SingleWriter, Writers, Active, SequencesFresh,
           Message, ProtocolState, SentSessions, FileSequence, ClientSequences, SequenceShape
  <1>1. ASSUME NEW c \in Clients, Open(c) PROVE SentSessions'
    BY <1>1, DiskCopy DEF Open, EmptyState
  <1>2. ASSUME NEW c \in Clients, OpenSession(c) PROVE SentSessions'
    BY <1>2, DiskCopy DEF OpenSession, Saved, SaveFailsTo, WithPending
  <1>3. ASSUME NEW c \in Clients, NewSession(c) PROVE SentSessions'
    BY <1>3, DiskCopy DEF NewSession, Save, Saved, SaveFails, SaveFailsTo, Thrown
  <1>4. ASSUME NEW c \in Clients, TakeControl(c) PROVE SentSessions'
    BY <1>4, DiskCopy DEF TakeControl, Save, Saved, SaveFails, SaveFailsTo, Thrown
  <1>5. ASSUME NEW c \in Clients, ControlBusy(c) PROVE SentSessions'
    BY <1>5, DiskCopy DEF ControlBusy, Thrown
  <1>6. ASSUME NEW c \in Clients, Build(c) PROVE SentSessions'
    BY <1>6, DiskCopy DEF Build, Save, Saved, SaveFails, SaveFailsTo, Thrown, WithPending
  <1>7. ASSUME NEW c \in Clients, Refresh(c) PROVE SentSessions'
    BY <1>7, DiskCopy DEF Refresh, Save, Saved, SaveFails, SaveFailsTo, Thrown
  <1>8. ASSUME NEW c \in Clients, Transmit(c) PROVE SentSessions'
    BY <1>8, DiskCopy DEF Transmit, Saved, SaveFails, SaveFailsTo, Thrown
  <1>9. ASSUME NEW c \in Clients, Accepted(c) PROVE SentSessions'
    BY <1>9, DiskCopy DEF Accepted, Saved, SaveFails, SaveFailsTo, Thrown, WithRecovered, Follows
  <1>10. ASSUME NEW c \in Clients, Rejected(c) PROVE SentSessions'
    BY <1>10, DiskCopy DEF Rejected, Save, Saved, SaveFails, SaveFailsTo, Thrown
  <1>11. ASSUME NEW c \in Clients, Unsettled(c) PROVE SentSessions'
    BY <1>11, DiskCopy DEF Unsettled, Thrown
  <1>12. ASSUME NEW c \in Clients, Disconnect(c) PROVE SentSessions'
    BY <1>12, DiskCopy DEF Disconnect, Thrown, Connection, Orphaned
  <1>13. ASSUME NEW c \in Clients, Crash(c) PROVE SentSessions'
    BY <1>13, DiskCopy DEF Crash, Connection, Orphaned
  <1>14. ASSUME NEW c \in Clients, Close(c) PROVE SentSessions'
    BY <1>14, DiskCopy DEF Close
  <1>15. ASSUME NEW c \in Clients, NEW r \in Requests, Request(c, r) PROVE SentSessions'
    BY <1>15, DiskCopy DEF Request
  <1>16. ASSUME NEW c \in Clients, NEW r \in Requests, Acknowledge(c, r) PROVE SentSessions'
    BY <1>16, DiskCopy DEF Acknowledge, Saved, SaveFails, SaveFailsTo, Thrown, WithRecovered
  <1>17. ASSUME Hq PROVE SentSessions'
    BY <1>17, DiskCopy DEF Hq, HqAccept, HqRefuse, HqUnusable, HqUnavailable, Answer
  <1> QED
    BY <1>1, <1>2, <1>3, <1>4, <1>5, <1>6, <1>7, <1>8, <1>9, <1>10, <1>11, <1>12,
       <1>13, <1>14, <1>15, <1>16, <1>17 DEF Next, Step

\* FileSequence is preserved: only the writer's sound state reaches the file.
LEMMA FileSequenceStep ==
  ASSUME TypeOK, PendingShape, OpeningShape, Synced, SingleWriter, SequencesFresh, Next,
         diskFaults = 0, diskFaults' = 0, OutboxAssumption, NoneIsNoMessage
  PROVE  FileSequence'
  <1> USE OutboxAssumption DEF GoTo, State, Settled, Durable, hq, counters,
           TypeOK, PendingShape, Sending, OpeningShape, SingleWriter, Writers, Active, SequencesFresh,
           Message, ProtocolState, SentSessions, FileSequence, ClientSequences, SessionsApart, SequenceShape, BelowNext, InSession
  <1>1. ASSUME NEW c \in Clients, Open(c) PROVE FileSequence'
    BY <1>1, DiskCopy DEF Open, EmptyState
  <1>2. ASSUME NEW c \in Clients, OpenSession(c) PROVE FileSequence'
    BY <1>2, DiskCopy DEF OpenSession, Saved, SaveFailsTo, WithPending
  <1>3. ASSUME NEW c \in Clients, NewSession(c) PROVE FileSequence'
    BY <1>3, DiskCopy DEF NewSession, Save, Saved, SaveFails, SaveFailsTo, Thrown
  <1>4. ASSUME NEW c \in Clients, TakeControl(c) PROVE FileSequence'
    BY <1>4, DiskCopy DEF TakeControl, Save, Saved, SaveFails, SaveFailsTo, Thrown
  <1>5. ASSUME NEW c \in Clients, ControlBusy(c) PROVE FileSequence'
    BY <1>5, DiskCopy DEF ControlBusy, Thrown
  <1>6. ASSUME NEW c \in Clients, Build(c) PROVE FileSequence'
    <2> DEFINE m == [id |-> ids, req |-> call[c], session |-> mem[c].session, seq |-> mem[c].next]
               s == WithPending(mem[c], m)
    <2>0. UNCHANGED <<sent, sessions>> /\ (disk' = disk \/ Saved(c, s, "send"))
      BY <1>6 DEF Build, Save, SaveFails, SaveFailsTo
    <2>1. UNCHANGED <<sent, sessions>> /\ (disk' = disk \/ (c \in Writers /\ disk' = Durable(s)))
      <3> HIDE DEF s, m
      <3> QED
        BY <2>0 DEF Saved
    <2>2. /\ mem[c] \in ProtocolState /\ mem[c].pending = None /\ SequenceShape(mem[c])
          /\ BelowNext(mem[c]) /\ mem[c].session > 0
      BY SMTT(60), <1>6 DEF Build
    <2>3. SequenceShape(s) /\ BelowNext(s) /\ s.session > 0
      BY <2>2, NoneIsNoMessage DEF WithPending
    <2>4. SequenceShape(Durable(s)) /\ (Durable(s).pending # None => Durable(s) = s)
      BY <2>3
    <2> HIDE DEF s, m
    <2> QED
      BY <2>1, <2>3, <2>4
  <1>7. ASSUME NEW c \in Clients, Refresh(c) PROVE FileSequence'
    BY <1>7, DiskCopy DEF Refresh, Save, Saved, SaveFails, SaveFailsTo, Thrown
  <1>8. ASSUME NEW c \in Clients, Transmit(c) PROVE FileSequence'
    BY <1>8, DiskCopy DEF Transmit, Saved, SaveFails, SaveFailsTo, Thrown
  <1>9. ASSUME NEW c \in Clients, Accepted(c) PROVE FileSequence'
    BY <1>9, DiskCopy DEF Accepted, Saved, SaveFails, SaveFailsTo, Thrown, WithRecovered, Follows
  <1>10. ASSUME NEW c \in Clients, Rejected(c) PROVE FileSequence'
    BY <1>10, DiskCopy DEF Rejected, Save, Saved, SaveFails, SaveFailsTo, Thrown
  <1>11. ASSUME NEW c \in Clients, Unsettled(c) PROVE FileSequence'
    BY <1>11, DiskCopy DEF Unsettled, Thrown
  <1>12. ASSUME NEW c \in Clients, Disconnect(c) PROVE FileSequence'
    BY <1>12, DiskCopy DEF Disconnect, Thrown, Connection, Orphaned
  <1>13. ASSUME NEW c \in Clients, Crash(c) PROVE FileSequence'
    BY <1>13, DiskCopy DEF Crash, Connection, Orphaned
  <1>14. ASSUME NEW c \in Clients, Close(c) PROVE FileSequence'
    BY <1>14, DiskCopy DEF Close
  <1>15. ASSUME NEW c \in Clients, NEW r \in Requests, Request(c, r) PROVE FileSequence'
    BY <1>15, DiskCopy DEF Request
  <1>16. ASSUME NEW c \in Clients, NEW r \in Requests, Acknowledge(c, r) PROVE FileSequence'
    BY <1>16, DiskCopy DEF Acknowledge, Saved, SaveFails, SaveFailsTo, Thrown, WithRecovered
  <1>17. ASSUME Hq PROVE FileSequence'
    BY SMTT(60), <1>17, DiskCopy DEF Hq, HqAccept, HqRefuse, HqUnusable, HqUnavailable, Answer
  <1> QED
    BY SMTT(60), <1>1, <1>2, <1>3, <1>4, <1>5, <1>6, <1>7, <1>8, <1>9, <1>10, <1>11, <1>12,
       <1>13, <1>14, <1>15, <1>16, <1>17 DEF Next, Step

\* ClientSequences is preserved.
LEMMA ClientSequencesStep ==
  ASSUME TypeOK, PendingShape, OpeningShape, Synced, SingleWriter, SequencesFresh, Next,
         diskFaults = 0, diskFaults' = 0, OutboxAssumption, NoneIsNoMessage
  PROVE  ClientSequences'
  <1> USE OutboxAssumption DEF GoTo, State, Settled, Durable, hq, counters,
           TypeOK, PendingShape, Sending, OpeningShape, SingleWriter, Writers, Active, SequencesFresh,
           Message, ProtocolState, SentSessions, FileSequence, ClientSequences, SessionsApart, SequenceShape, BelowNext, InSession
  <1>1. ASSUME NEW c \in Clients, Open(c) PROVE ClientSequences'
    BY <1>1, DiskCopy DEF Open, EmptyState
  <1>2. ASSUME NEW c \in Clients, OpenSession(c) PROVE ClientSequences'
    BY <1>2, DiskCopy DEF OpenSession, Saved, SaveFailsTo, WithPending
  <1>3. ASSUME NEW c \in Clients, NewSession(c) PROVE ClientSequences'
    BY <1>3, DiskCopy DEF NewSession, Save, Saved, SaveFails, SaveFailsTo, Thrown
  <1>4. ASSUME NEW c \in Clients, TakeControl(c) PROVE ClientSequences'
    <2>1. CASE UNCHANGED mem
      BY SMTT(60), <1>4, <2>1 DEF TakeControl, Save, Saved, SaveFails, SaveFailsTo, Thrown
    <2> DEFINE s == Settled(mem[c])
    <2>2. CASE Saved(c, s, "build")
      <3>1. SequenceShape(mem[c]) /\ BelowNext(mem[c]) /\ mem[c].session > 0 /\ mem[c] \in ProtocolState
        BY <1>4 DEF TakeControl
      <3>2. UNCHANGED <<sent, sessions>> /\ s \in ProtocolState
        BY <1>4 DEF TakeControl
      <3>3. SequenceShape(s) /\ BelowNext(s) /\ s.session > 0
        BY <3>1, SettledSequence
      <3> HIDE DEF s
      <3> QED
        BY <2>2, <3>2, <3>3, SavedSequences DEF Phases
    <2> QED
      BY SMTT(60), <1>4, <2>1, <2>2 DEF TakeControl, Save, SaveFails, SaveFailsTo
  <1>5. ASSUME NEW c \in Clients, ControlBusy(c) PROVE ClientSequences'
    BY <1>5, DiskCopy DEF ControlBusy, Thrown
  <1>6. ASSUME NEW c \in Clients, Build(c) PROVE ClientSequences'
    <2> DEFINE m == [id |-> ids, req |-> call[c], session |-> mem[c].session, seq |-> mem[c].next]
               s == WithPending(mem[c], m)
    <2>1. CASE UNCHANGED mem
      BY SMTT(60), <1>6, <2>1 DEF Build, Save, Saved, SaveFails, SaveFailsTo, Thrown
    <2>2. CASE Saved(c, s, "send")
      <3>1. SequenceShape(mem[c]) /\ BelowNext(mem[c]) /\ mem[c].session > 0 /\ mem[c] \in ProtocolState /\ mem[c].pending = None
        BY <1>6 DEF Build
      <3>2. UNCHANGED <<sent, sessions>>
        BY <1>6 DEF Build
      <3>3. m \in Message
        BY <1>6, <3>1 DEF Build
      <3>4. s \in ProtocolState /\ SequenceShape(s) /\ BelowNext(s) /\ s.session > 0
        BY SMTT(60), <3>1, <3>3, NoneIsNoMessage DEF WithPending
      <3> HIDE DEF s
      <3> QED
        BY <2>2, <3>2, <3>4, SavedSequences DEF Phases
    <2> QED
      BY <1>6, <2>1, <2>2 DEF Build, Save, SaveFails, SaveFailsTo
  <1>7. ASSUME NEW c \in Clients, Refresh(c) PROVE ClientSequences'
    <2> DEFINE p == mem[c].pending
               m == [id |-> ids, req |-> p.req, session |-> p.session, seq |-> p.seq + 1]
               s == State(mem[c].session, p.seq + 1, m, mem[c].recovered)
    <2>1. Saved(c, s, "signed") /\ UNCHANGED <<sent, sessions>>
      BY <1>7 DEF Refresh, Save, SaveFails, SaveFailsTo
    <2>2. SequenceShape(mem[c]) /\ BelowNext(mem[c]) /\ mem[c].session > 0 /\ mem[c] \in ProtocolState /\ p \in Message
      BY <1>7 DEF Refresh
    <2>3. m \in Message /\ p.seq = mem[c].next /\ p.session = mem[c].session
      BY <2>2, NoneIsNoMessage
    <2>4. s \in ProtocolState /\ SequenceShape(s) /\ s.session > 0
      BY <2>2, <2>3
    <2>5. BelowNext(s)
      BY <2>2, <2>3, NoneIsNoMessage
    <2> HIDE DEF s
    <2> QED
      BY <2>1, <2>4, <2>5, SavedSequences DEF Phases
  <1>8. ASSUME NEW c \in Clients, Transmit(c) PROVE ClientSequences'
    BY <1>8, DiskCopy DEF Transmit, Saved, SaveFails, SaveFailsTo, Thrown
  <1>9. ASSUME NEW c \in Clients, Accepted(c) PROVE ClientSequences'
    BY SMTT(60), <1>9, DiskCopy DEF Accepted, Saved, SaveFails, SaveFailsTo, Thrown, WithRecovered, Follows
  <1>10. ASSUME NEW c \in Clients, Rejected(c) PROVE ClientSequences'
    <2>1. SequenceShape(mem[c]) /\ BelowNext(mem[c]) /\ mem[c].session > 0 /\ mem[c] \in ProtocolState
      BY <1>10 DEF Rejected
    <2>2. /\ Saved(c, Settled(mem[c]), Thrown(c)) /\ UNCHANGED <<sent, sessions>>
          /\ Settled(mem[c]) \in ProtocolState /\ Thrown(c) \in Phases
      BY <1>10 DEF Rejected, Save, SaveFails, SaveFailsTo, Thrown, Phases
    <2> QED
      BY SMTT(60), <2>1, <2>2, SettledSequence, SavedSequences
  <1>11. ASSUME NEW c \in Clients, Unsettled(c) PROVE ClientSequences'
    BY <1>11, DiskCopy DEF Unsettled, Thrown
  <1>12. ASSUME NEW c \in Clients, Disconnect(c) PROVE ClientSequences'
    BY <1>12, DiskCopy DEF Disconnect, Thrown, Connection, Orphaned
  <1>13. ASSUME NEW c \in Clients, Crash(c) PROVE ClientSequences'
    BY <1>13, DiskCopy DEF Crash, Connection, Orphaned
  <1>14. ASSUME NEW c \in Clients, Close(c) PROVE ClientSequences'
    BY <1>14, DiskCopy DEF Close
  <1>15. ASSUME NEW c \in Clients, NEW r \in Requests, Request(c, r) PROVE ClientSequences'
    BY <1>15, DiskCopy DEF Request
  <1>16. ASSUME NEW c \in Clients, NEW r \in Requests, Acknowledge(c, r) PROVE ClientSequences'
    BY SMTT(60), <1>16, DiskCopy DEF Acknowledge, Saved, SaveFails, SaveFailsTo, Thrown, WithRecovered
  <1>17. ASSUME Hq PROVE ClientSequences'
    BY <1>17, DiskCopy DEF Hq, HqAccept, HqRefuse, HqUnusable, HqUnavailable, Answer
  <1> QED
    BY <1>1, <1>2, <1>3, <1>4, <1>5, <1>6, <1>7, <1>8, <1>9, <1>10, <1>11, <1>12,
       <1>13, <1>14, <1>15, <1>16, <1>17 DEF Next, Step

\* SessionsApart is preserved: a new session is nobody else's.
LEMMA SessionsApartStep ==
  ASSUME TypeOK, PendingShape, OpeningShape, Synced, SingleWriter, SequencesFresh, Next,
         diskFaults = 0, diskFaults' = 0, OutboxAssumption, NoneIsNoMessage
  PROVE  SessionsApart'
  <1> USE OutboxAssumption DEF GoTo, State, Settled, Durable, hq, counters,
           TypeOK, PendingShape, Sending, OpeningShape, SingleWriter, Writers, Active, SequencesFresh,
           Message, ProtocolState, SentSessions, FileSequence, ClientSequences, SessionsApart, SequenceShape
  <1>1. ASSUME NEW c \in Clients, Open(c) PROVE SessionsApart'
    BY <1>1, DiskCopy DEF Open, EmptyState
  <1>2. ASSUME NEW c \in Clients, OpenSession(c) PROVE SessionsApart'
    BY <1>2, DiskCopy DEF OpenSession, Saved, SaveFailsTo, WithPending
  <1>3. ASSUME NEW c \in Clients, NewSession(c) PROVE SessionsApart'
    <2>1. /\ disk'.session \in {disk.session, sessions + 1} /\ (c \in Isolated => disk' = disk)
          /\ mem'[c].session = sessions + 1 /\ \A d \in Clients \ {c} : mem'[d] = mem[d] /\ pc'[d] = pc[d]
      BY <1>3 DEF NewSession, Save, Saved, SaveFails, SaveFailsTo
    <2>2. disk.session <= sessions /\ \A d \in Clients : Active(d) => mem[d].session <= sessions
      OBVIOUS
    <2>3. disk.session \in Nat /\ sessions \in Nat /\ \A d \in Clients : mem[d].session \in Nat
      OBVIOUS
    <2>4. Active(c)
      BY <1>3 DEF NewSession
    <2> SUFFICES ASSUME NEW d \in Isolated, Active(d)', mem'[d].session # 0
                 PROVE  /\ mem'[d].session # disk'.session
                        /\ \A e \in Clients \ {d} : Active(e)' => mem'[e].session # mem'[d].session
      BY Zenon
    <2>5. \A e \in Clients \ {c} : Active(e)' => Active(e) /\ mem'[e] = mem[e]
      BY <2>1
    <2> HIDE DEF Active
    <2>6. CASE d = c
      BY <2>1, <2>2, <2>3, <2>5, <2>6
    <2>7. CASE d # c
      <3>1. Active(d) /\ mem'[d] = mem[d]
        BY <2>5, <2>7
      <3>2. mem[d].session # 0 /\ mem[d].session <= sessions /\ mem[d].session # disk.session
        BY <2>2, <3>1
      <3>3. mem'[d].session # disk'.session /\ mem'[c].session # mem'[d].session
        BY <2>1, <2>3, <3>1, <3>2
      <3>4. ASSUME NEW e \in Clients \ {d}, Active(e)', e # c
            PROVE  mem'[e].session # mem'[d].session
        BY <2>5, <3>1, <3>2, <3>4
      <3> QED
        BY <3>3, <3>4
    <2> QED
      BY <2>6, <2>7
  <1>4. ASSUME NEW c \in Clients, TakeControl(c) PROVE SessionsApart'
    <2>1. CASE UNCHANGED mem
      BY <1>4, <2>1 DEF TakeControl, Save, Saved, SaveFails, SaveFailsTo, Thrown
    <2> DEFINE s == Settled(mem[c])
    <2>2. CASE Saved(c, s, "build")
      <3>1. Active(c) /\ s \in ProtocolState /\ s.session = mem[c].session
        BY <1>4 DEF TakeControl
      <3> HIDE DEF s
      <3> QED
        BY SMTT(60), <2>2, <3>1, SavedApart
    <2> QED
      BY <1>4, <2>1, <2>2 DEF TakeControl, Save, SaveFails, SaveFailsTo
  <1>5. ASSUME NEW c \in Clients, ControlBusy(c) PROVE SessionsApart'
    BY <1>5, DiskCopy DEF ControlBusy, Thrown
  <1>6. ASSUME NEW c \in Clients, Build(c) PROVE SessionsApart'
    BY SMTT(60), <1>6, DiskCopy DEF Build, Save, Saved, SaveFails, SaveFailsTo, Thrown, WithPending
  <1>7. ASSUME NEW c \in Clients, Refresh(c) PROVE SessionsApart'
    <2> DEFINE p == mem[c].pending
               m == [id |-> ids, req |-> p.req, session |-> p.session, seq |-> p.seq + 1]
               s == State(mem[c].session, p.seq + 1, m, mem[c].recovered)
    <2>1. Saved(c, s, "signed")
      BY <1>7 DEF Refresh, Save, SaveFails, SaveFailsTo
    <2>2. p \in Message /\ mem[c] \in ProtocolState /\ Active(c)
      BY <1>7 DEF Refresh
    <2>3. s \in ProtocolState /\ s.session = mem[c].session
      BY <2>2
    <2> HIDE DEF s
    <2> QED
      BY SMTT(60), <2>1, <2>2, <2>3, SavedApart
  <1>8. ASSUME NEW c \in Clients, Transmit(c) PROVE SessionsApart'
    BY <1>8, DiskCopy DEF Transmit, Saved, SaveFails, SaveFailsTo, Thrown
  <1>9. ASSUME NEW c \in Clients, Accepted(c) PROVE SessionsApart'
    <2> DEFINE p == mem[c].pending
               s == IF KindOf(p.req) = "completion"
                    THEN WithRecovered(mem[c], mem[c].recovered \cup {p.req}) ELSE mem[c]
    <2>1. Saved(c, Settled(s), Follows(c)) /\ Active(c) /\ p # None
      BY <1>9 DEF Accepted, SaveFails, SaveFailsTo
    <2>2. p.req \in AllRequests
      BY <2>1
    <2>3. KindOf(p.req) = "completion" => p.req \in Requests
      BY <2>2 DEF AllRequests, KindOf
    <2>4. Settled(s) \in ProtocolState /\ Settled(s).session = mem[c].session
      BY <2>3 DEF WithRecovered
    <2> HIDE DEF s
    <2> QED
      BY ZenonT(60), <2>1, <2>4, SavedApart
  <1>10. ASSUME NEW c \in Clients, Rejected(c) PROVE SessionsApart'
    <2> DEFINE s == Settled(mem[c])
    <2>1. Saved(c, s, Thrown(c)) /\ Active(c)
      BY <1>10 DEF Rejected, Save, SaveFails, SaveFailsTo
    <2>2. s \in ProtocolState /\ s.session = mem[c].session
      OBVIOUS
    <2> HIDE DEF s
    <2> QED
      BY ZenonT(60), <2>1, <2>2, SavedApart
  <1>11. ASSUME NEW c \in Clients, Unsettled(c) PROVE SessionsApart'
    BY <1>11, DiskCopy DEF Unsettled, Thrown
  <1>12. ASSUME NEW c \in Clients, Disconnect(c) PROVE SessionsApart'
    BY <1>12, DiskCopy DEF Disconnect, Thrown, Connection, Orphaned
  <1>13. ASSUME NEW c \in Clients, Crash(c) PROVE SessionsApart'
    BY <1>13, DiskCopy DEF Crash, Connection, Orphaned
  <1>14. ASSUME NEW c \in Clients, Close(c) PROVE SessionsApart'
    BY <1>14, DiskCopy DEF Close
  <1>15. ASSUME NEW c \in Clients, NEW r \in Requests, Request(c, r) PROVE SessionsApart'
    BY <1>15, DiskCopy DEF Request
  <1>16. ASSUME NEW c \in Clients, NEW r \in Requests, Acknowledge(c, r) PROVE SessionsApart'
    BY SMTT(60), <1>16, DiskCopy DEF Acknowledge, Saved, SaveFails, SaveFailsTo, Thrown, WithRecovered
  <1>17. ASSUME Hq PROVE SessionsApart'
    BY <1>17, DiskCopy DEF Hq, HqAccept, HqRefuse, HqUnusable, HqUnavailable, Answer
  <1> QED
    BY <1>1, <1>2, <1>3, <1>4, <1>5, <1>6, <1>7, <1>8, <1>9, <1>10, <1>11, <1>12,
       <1>13, <1>14, <1>15, <1>16, <1>17 DEF Next, Step

\* SequenceNeverReused is preserved: what is sent is pending, and above its
\* session's other messages.
LEMMA NeverReusedStep ==
  ASSUME TypeOK, PendingShape, OpeningShape, Synced, SingleWriter, SequencesFresh, SequenceNeverReused, Next,
         diskFaults = 0, diskFaults' = 0, OutboxAssumption, NoneIsNoMessage
  PROVE  SequenceNeverReused'
  <1> USE OutboxAssumption DEF GoTo, State, Settled, Durable, hq, counters,
           TypeOK, PendingShape, Sending, OpeningShape, SingleWriter, Writers, Active, SequencesFresh,
           Message, ProtocolState, SequenceNeverReused, ClientSequences, SequenceShape, BelowNext, InSession
  <1>1. ASSUME NEW c \in Clients, Open(c) PROVE SequenceNeverReused'
    BY <1>1 DEF Open, EmptyState
  <1>2. ASSUME NEW c \in Clients, OpenSession(c) PROVE SequenceNeverReused'
    BY <1>2 DEF OpenSession, Saved, SaveFailsTo, WithPending
  <1>3. ASSUME NEW c \in Clients, NewSession(c) PROVE SequenceNeverReused'
    BY <1>3 DEF NewSession, Save, Saved, SaveFails, SaveFailsTo, Thrown
  <1>4. ASSUME NEW c \in Clients, TakeControl(c) PROVE SequenceNeverReused'
    BY <1>4 DEF TakeControl, Save, Saved, SaveFails, SaveFailsTo, Thrown
  <1>5. ASSUME NEW c \in Clients, ControlBusy(c) PROVE SequenceNeverReused'
    BY <1>5 DEF ControlBusy, Thrown
  <1>6. ASSUME NEW c \in Clients, Build(c) PROVE SequenceNeverReused'
    BY <1>6 DEF Build, Save, Saved, SaveFails, SaveFailsTo, Thrown, WithPending
  <1>7. ASSUME NEW c \in Clients, Refresh(c) PROVE SequenceNeverReused'
    BY <1>7 DEF Refresh, Save, Saved, SaveFails, SaveFailsTo, Thrown
  <1>8. ASSUME NEW c \in Clients, Transmit(c) PROVE SequenceNeverReused'
    BY <1>8 DEF Transmit, Saved, SaveFails, SaveFailsTo, Thrown
  <1>9. ASSUME NEW c \in Clients, Accepted(c) PROVE SequenceNeverReused'
    BY <1>9 DEF Accepted, Saved, SaveFails, SaveFailsTo, Thrown, WithRecovered, Follows
  <1>10. ASSUME NEW c \in Clients, Rejected(c) PROVE SequenceNeverReused'
    BY <1>10 DEF Rejected, Save, Saved, SaveFails, SaveFailsTo, Thrown
  <1>11. ASSUME NEW c \in Clients, Unsettled(c) PROVE SequenceNeverReused'
    BY <1>11 DEF Unsettled, Thrown
  <1>12. ASSUME NEW c \in Clients, Disconnect(c) PROVE SequenceNeverReused'
    BY <1>12 DEF Disconnect, Thrown, Connection, Orphaned
  <1>13. ASSUME NEW c \in Clients, Crash(c) PROVE SequenceNeverReused'
    BY <1>13 DEF Crash, Connection, Orphaned
  <1>14. ASSUME NEW c \in Clients, Close(c) PROVE SequenceNeverReused'
    BY <1>14 DEF Close
  <1>15. ASSUME NEW c \in Clients, NEW r \in Requests, Request(c, r) PROVE SequenceNeverReused'
    BY <1>15 DEF Request
  <1>16. ASSUME NEW c \in Clients, NEW r \in Requests, Acknowledge(c, r) PROVE SequenceNeverReused'
    BY <1>16 DEF Acknowledge, Saved, SaveFails, SaveFailsTo, Thrown, WithRecovered
  <1>17. ASSUME Hq PROVE SequenceNeverReused'
    BY <1>17 DEF Hq, HqAccept, HqRefuse, HqUnusable, HqUnavailable, Answer
  <1> QED
    BY <1>1, <1>2, <1>3, <1>4, <1>5, <1>6, <1>7, <1>8, <1>9, <1>10, <1>11, <1>12,
       <1>13, <1>14, <1>15, <1>16, <1>17 DEF Next, Step

(***************************************************************************)
(* The inductive invariant, and what it gives.                             *)
(***************************************************************************)
\* No save is undone: the count of failed saves never decreases.
LEMMA FaultsOnlyGrow ==
  ASSUME TypeOK, [Next]_vars, diskFaults' = 0
  PROVE  diskFaults = 0
  <1> DEFINE Grows == diskFaults' = diskFaults \/ diskFaults' = diskFaults + 1
  <1>1. ASSUME NEW c \in Clients,
               \/ Open(c) \/ OpenSession(c) \/ NewSession(c) \/ TakeControl(c) \/ ControlBusy(c)
               \/ Build(c) \/ Refresh(c) \/ Close(c)
        PROVE  Grows
    BY <1>1 DEF Open, OpenSession, NewSession, TakeControl, ControlBusy, Build, Refresh, Close,
           Save, Saved, SaveFails, SaveFailsTo, counters
  <1>2. ASSUME NEW c \in Clients, \/ Transmit(c) \/ Accepted(c) \/ Rejected(c) \/ Unsettled(c)
                                  \/ Disconnect(c) \/ Crash(c)
        PROVE  Grows
    BY <1>2 DEF Transmit, Accepted, Rejected, Unsettled, Disconnect, Crash,
           Save, Saved, SaveFails, SaveFailsTo, counters
  <1>3. ASSUME NEW c \in Clients, NEW r \in Requests, Request(c, r) \/ Acknowledge(c, r)
        PROVE  Grows
    BY <1>3 DEF Request, Acknowledge, Saved, SaveFails, SaveFailsTo, counters
  <1>4. ASSUME Hq PROVE Grows
    BY <1>4 DEF Hq, HqAccept, HqRefuse, HqUnusable, HqUnavailable, Answer
  <1>5. ASSUME UNCHANGED vars PROVE Grows
    BY <1>5 DEF vars
  <1>6. Grows
    BY <1>1, <1>2, <1>3, <1>4, <1>5 DEF Next, Step
  <1> QED
    BY <1>6 DEF TypeOK

LEMMA WriterInit ==
  ASSUME Init, OutboxAssumption, NoneIsNoMessage
  PROVE  WriterInv
  <1>1. Inv
    BY InvInit
  <1>2. OpeningShape /\ Synced /\ IsolatedShape
    BY DEF Init, OpeningShape, Synced, Writers, IsolatedShape, UnderControl, Active, EmptyState,
           State, Durable
  <1>3. SentCompletionsKept /\ CompletionOpen
    BY DEF Init, SentCompletionsKept, CompletionOpen, Active, Writers, EmptyState, State
  <1>4. SequencesFresh /\ SequenceNeverReused
    BY DEF Init, SequencesFresh, SentSessions, FileSequence, ClientSequences, SessionsApart,
           SequenceShape, BelowNext, InSession, Active, SequenceNeverReused, EmptyState, State
  <1> QED
    BY <1>1, <1>2, <1>3, <1>4 DEF WriterInv

\* Nothing changes when no variable does.
LEMMA WriterStutter ==
  ASSUME WriterInv, UNCHANGED vars, Inv'
  PROVE  WriterInv'
  <1> USE DEF vars
  <1>1. (OpeningShape /\ Synced /\ IsolatedShape)'
    BY DEF WriterInv, OpeningShape, Synced, IsolatedShape, UnderControl, Active
  <1>2. (SentCompletionsKept /\ CompletionOpen)'
    BY DEF WriterInv, SentCompletionsKept, CompletionOpen, Active
  <1>3. (SequencesFresh /\ SequenceNeverReused)'
    BY DEF WriterInv, SequencesFresh, SentSessions, FileSequence, ClientSequences, SessionsApart,
           SequenceShape, BelowNext, InSession, Active, SequenceNeverReused
  <1> QED
    BY <1>1, <1>2, <1>3 DEF WriterInv

LEMMA WriterStep ==
  ASSUME SingleWriter, FileIsReliable, Inv, [Next]_vars, OutboxAssumption, NoneIsNoMessage
  PROVE  FileIsReliable'
  <1> SUFFICES ASSUME diskFaults' = 0 PROVE WriterInv'
    BY DEF FileIsReliable
  <1>1. diskFaults = 0 /\ WriterInv
    BY FaultsOnlyGrow DEF FileIsReliable, Inv
  <1>2. Inv'
    BY InvStep
  <1>3. CASE UNCHANGED vars
    BY <1>1, <1>2, <1>3, WriterStutter
  <1>4. CASE Next
    <2>1. OpeningShape' /\ IsolatedShape' /\ Synced'
      BY <1>1, <1>4, OpeningStep, IsolatedStep, SyncedStep DEF WriterInv, Inv
    <2>2. SentCompletionsKept' /\ CompletionOpen'
      BY <1>1, <1>4, SentStep, CompletionOpenStep DEF WriterInv, Inv
    <2>3. SentSessions' /\ FileSequence' /\ ClientSequences' /\ SessionsApart'
      BY <1>1, <1>4, SentSessionsStep, FileSequenceStep, ClientSequencesStep, SessionsApartStep
         DEF WriterInv, Inv
    <2>4. SequenceNeverReused'
      BY <1>1, <1>4, NeverReusedStep DEF WriterInv, Inv
    <2> QED
      BY <1>2, <2>1, <2>2, <2>3, <2>4 DEF WriterInv, SequencesFresh
  <1> QED
    BY <1>3, <1>4

\* While every save has reached the file, the invariants of the one client
\* that saves to it hold, whatever isolated clients do beside it.
THEOREM FileReliable ==
  ASSUME SingleWriter
  PROVE  Spec => []FileIsReliable
  <1>1. Init => FileIsReliable
    BY WriterInit, OutboxAssumption, NoneIsNoMessage DEF FileIsReliable
  <1>2. Inv /\ FileIsReliable /\ [Next]_vars => FileIsReliable'
    BY WriterStep, OutboxAssumption, NoneIsNoMessage
  <1> QED
    BY <1>1, <1>2, InvHolds, PTL DEF Spec

\* Two different messages of one session never carry the same number.
THEOREM NumbersNeverReused ==
  ASSUME SingleWriter
  PROVE  Spec => [](diskFaults = 0 => SequenceNeverReused)
  <1>1. FileIsReliable => (diskFaults = 0 => SequenceNeverReused)
    BY DEF FileIsReliable, WriterInv
  <1> QED
    BY <1>1, FileReliable, PTL

\* A completion HQ accepted is in the file, pending or with its receipt, until
\* the CLI has acknowledged it.
THEOREM CompletionsRetained ==
  ASSUME SingleWriter
  PROVE  Spec => [](diskFaults = 0 => CompletionRetained)
  <1>1. FileIsReliable => (diskFaults = 0 => CompletionRetained)
    BY DEF FileIsReliable, WriterInv, Inv, ConnectionShape, SentCompletionsKept, CompletionRetained
  <1> QED
    BY <1>1, FileReliable, PTL

\* What the CLI has acknowledged is in no client's list, and not in the file.
THEOREM AcknowledgedStaysGone ==
  ASSUME SingleWriter
  PROVE  Spec => [](diskFaults = 0 => AcknowledgedForGood)
  <1>1. ASSUME WriterInv PROVE AcknowledgedForGood
    <2> SUFFICES ASSUME NEW r \in acked
                 PROVE  /\ r \notin disk.recovered
                        /\ \A c \in Clients : Active(c) => r \notin mem[c].recovered
      BY DEF AcknowledgedForGood, Active
    <2>1. r \notin disk.recovered
      BY <1>1 DEF WriterInv, CompletionOpen
    <2>2. ASSUME NEW c \in Clients, Active(c) PROVE r \notin mem[c].recovered
      <3>1. CASE c \in Isolated
        BY <1>1, <3>1 DEF WriterInv, IsolatedShape
      <3>2. CASE c \in Writers
        BY <1>1, <2>1, <2>2, <3>2, DiskCopy DEF WriterInv, Inv
      <3> QED
        BY <3>1, <3>2 DEF Writers
    <2> QED
      BY <2>1, <2>2
  <1>2. FileIsReliable => (diskFaults = 0 => AcknowledgedForGood)
    BY <1>1 DEF FileIsReliable
  <1> QED
    BY <1>2, FileReliable, PTL

-----------------------------------------------------------------------------
(***************************************************************************)
(* The signed outbox implements the completion ledger when one client at a *)
(* time saves to the file and saves succeed: every step moves at most one  *)
(* completion, to a stage the ledger allows.                               *)
(***************************************************************************)
\* The steps that the ledger does not see.
LedgerFrame ==
    /\ UNCHANGED <<acked, applied>>
    /\ disk'.recovered = disk.recovered
    /\ \/ disk'.pending = disk.pending
       \/ /\ disk.pending = None \/ ~IsCompletion(disk.pending.req)
          /\ disk'.pending = None \/ ~IsCompletion(disk'.pending.req)

LEMMA FrameStage ==
  ASSUME LedgerFrame, NEW t \in Completions
  PROVE  Stage(t)' = Stage(t)
  BY DEF LedgerFrame, Stage, Completions

\* What the stage of a completion is, where the file and HQ's set of accepted
\* messages fit together.
LEMMA StageIs ==
  ASSUME WriterInv, NEW t \in Completions
  PROVE  /\ t \in acked => Stage(t) = "acknowledged"
         /\ t \in disk.recovered => Stage(t) = "stored"
         /\ disk.pending # None /\ disk.pending.req = t =>
                Stage(t) = IF disk.pending \in applied THEN "accepted" ELSE "offered"
         /\ t \notin acked \cup disk.recovered /\ (disk.pending = None \/ disk.pending.req # t) =>
                Stage(t) = "new"
  BY DEF WriterInv, CompletionOpen, Completions, Stage

\* One completion moves, the others stay.
LEMMA OneMoves ==
  ASSUME NEW t \in Completions, NEW from, NEW to, Stage(t) \in from, Stage(t)' = to,
         \A u \in Completions \ {t} : Stage(u)' = Stage(u)
  PROVE  Ledger!Move(t, from, to)
  BY DEF Ledger!Move

LEMMA FrameStep ==
  ASSUME LedgerFrame
  PROVE  UNCHANGED [t \in Completions |-> Stage(t)]
  BY FrameStage

\* What a message of the client's own is like when it is built.
LEMMA LedgerBuild ==
  ASSUME WriterInv, WriterInv', SingleWriter, diskFaults = 0, diskFaults' = 0,
         OutboxAssumption, NoneIsNoMessage, NEW c \in Clients, Build(c)
  PROVE  LedgerFrame \/ \E t \in Completions : Ledger!Offer(t)
  <1> DEFINE m == [id |-> ids, req |-> call[c], session |-> mem[c].session, seq |-> mem[c].next]
             s == WithPending(mem[c], m)
  <1> USE DEF WriterInv, Inv
  <1>1. /\ UNCHANGED <<acked, applied>> /\ mem[c].pending = None /\ Active(c)
        /\ disk' = disk \/ Saved(c, s, "send")
    BY DEF Build, Save, SaveFails, SaveFailsTo, PendingShape, hq, TypeOK, Active
  <1>2. CASE disk' = disk
    BY <1>1, <1>2 DEF LedgerFrame
  <1>3. CASE c \in Writers /\ disk' = Durable(s)
    <2>1. disk.recovered = mem[c].recovered /\ disk.pending = None
      BY <1>1, <1>3, DiskCopy
    <2>2. s.pending = m /\ s.recovered = mem[c].recovered
      BY DEF WithPending, State
    <2>3. disk'.recovered = disk.recovered /\ disk'.pending = IF IsExplicitlyRebuilt(m.req) THEN None ELSE m
      <3>1. m # None
        BY DEF Build, TypeOK, PendingShape, ProtocolState, Message, OutboxAssumption
      <3> QED
        BY <1>3, <2>1, <2>2, <3>1 DEF Durable, Settled, State
    <2>4. CASE ~IsCompletion(call[c])
      BY <1>1, <2>1, <2>3, <2>4 DEF LedgerFrame
    <2>5. CASE IsCompletion(call[c])
      <3>1. PICK t \in Completions : t = call[c]
        <4>1. call[c] \in AllRequests
          BY DEF Build, TypeOK, PendingShape
        <4> QED
          BY <4>1, <2>5, CompletionKind DEF Completions, AllRequests
      <3>2. disk'.pending = m /\ m # None /\ m.req = t
        BY <2>3, <2>5, <3>1, CompletionKind DEF Build, TypeOK, PendingShape, ProtocolState, Message, OutboxAssumption
      <3>3. m \notin applied
        BY DEF ConnectionShape, IdsFresh, TypeOK
      <3>4. t \notin acked \cup disk.recovered
        BY <1>3, <2>1, <2>5, <3>1 DEF Build, PendingShape, CompletionOpen
      <3>5. Stage(t) = "new" /\ Stage(t)' = "offered"
        <4> HIDE DEF m
        <4>1. Stage(t) = "new"
          BY <3>1, <3>4, <2>1, StageIs
        <4>2. Stage(t)' = "offered"
          BY <1>1, <2>3, <3>2, <3>3, <3>4 DEF Stage
        <4> QED
          BY <4>1, <4>2
      <3>6. \A u \in Completions : Stage(u) \notin Ledger!Unsettled
        BY <2>1 DEF Stage, Ledger!Unsettled
      <3>7. \A u \in Completions \ {t} : Stage(u)' = Stage(u)
        <4> HIDE DEF m
        <4> QED
          BY <1>1, <2>1, <2>3, <3>2 DEF Stage
      <3>8. Ledger!Move(t, {"new"}, "offered")
        BY <3>1, <3>5, <3>7, OneMoves
      <3>9. Ledger!Offer(t)
        BY <3>1, <3>6, <3>8 DEF Ledger!Offer
      <3> QED
        BY <3>1, <3>9
    <2> QED
      BY <2>4, <2>5
  <1> QED
    BY <1>1, <1>2, <1>3 DEF Saved, Writers

LEMMA LedgerSettle ==
  ASSUME WriterInv, SingleWriter, diskFaults = 0, diskFaults' = 0,
         OutboxAssumption, NoneIsNoMessage, NEW c \in Clients, Accepted(c) \/ Rejected(c)
  PROVE  LedgerFrame \/ \E t \in Completions : Ledger!Store(t) \/ Ledger!Withdraw(t)
  <1> DEFINE p == mem[c].pending
             a == IF KindOf(p.req) = "completion"
                  THEN WithRecovered(mem[c], mem[c].recovered \cup {p.req}) ELSE mem[c]
             R == IF Accepted(c) /\ IsCompletion(p.req) THEN mem[c].recovered \cup {p.req} ELSE mem[c].recovered
  <1> USE DEF WriterInv, Inv
  <1>1. /\ UNCHANGED <<acked, applied>> /\ p # None /\ p \in Message /\ Active(c)
        /\ Accepted(c) => p \in applied
        /\ Rejected(c) => p \notin applied
    BY DEF Accepted, Rejected, PendingShape, Sending, ConnectionShape, hq, TypeOK, ProtocolState, Active
  <1>2. CASE c \in Isolated
    <2>1. disk' = disk
      BY <1>2 DEF Accepted, Rejected, Save, Saved, SaveFails, SaveFailsTo
    <2> QED
      BY <1>1, <2>1 DEF LedgerFrame
  <1>3. CASE c \in Writers
    <2>1. disk'.pending = None /\ disk'.recovered = R
      <3> HIDE DEF WriterInv, Inv
      <3>1. CASE Accepted(c)
        <4>1. disk' = Settled(a)
          BY SMTT(60), <3>1, <1>3 DEF Accepted, Saved, SaveFails, SaveFailsTo, Durable, Settled, State, Writers
        <4> QED
          BY SMTT(60), <4>1, <3>1 DEF Settled, State, WithRecovered, IsCompletion
      <3>2. CASE Rejected(c)
        <4>1. disk' = Settled(mem[c]) /\ ~Accepted(c)
          BY <3>2, <1>3, NoneIsNoMessage DEF Rejected, Accepted, Save, Saved, SaveFails, SaveFailsTo, Durable, Settled, State, Writers
        <4> QED
          BY SMTT(60), <4>1 DEF Settled, State
      <3> QED
        BY <3>1, <3>2
    <2>2. disk.recovered = mem[c].recovered
      BY <1>1, <1>3, DiskCopy
    <2>3. CASE ~IsCompletion(p.req)
      <3>1. disk.pending = None \/ disk.pending = p
        BY <1>1, <1>3, DiskCopy
      <3> QED
        BY <1>1, <2>1, <2>2, <2>3, <3>1 DEF LedgerFrame
    <2>4. CASE IsCompletion(p.req)
      <3>1. PICK t \in Completions : t = p.req
        BY <1>1, <2>4, CompletionKind DEF Message, AllRequests, Completions
      <3>2. disk.pending = p
        BY <1>1, <1>3, <2>4, DiskCopy, CompletionKind
      <3>3. t \notin acked \cup disk.recovered
        BY <3>1, <3>2, <1>1, <2>4 DEF CompletionOpen
      <3>4. \A u \in Completions \ {t} : Stage(u)' = Stage(u)
        <4>1. \A u \in Completions \ {t} : u \in disk'.recovered <=> u \in disk.recovered
          BY <2>1, <2>2, <3>1
        <4>2. \A u \in Completions \ {t} : disk.pending.req # u
          BY <3>1, <3>2
        <4> HIDE DEF p, R
        <4> QED
          BY <1>1, <2>1, <4>1, <4>2 DEF Stage
      <3>5. CASE Accepted(c)
        <4>1. Stage(t) = "accepted"
          BY <1>1, <3>1, <3>2, <3>5, StageIs
        <4>2. Stage(t)' = "stored"
          <5>1. t \in disk'.recovered /\ t \notin acked'
            BY <1>1, <2>1, <2>4, <3>1, <3>3, <3>5
          <5> QED
            BY <5>1 DEF Stage
        <4>3. Ledger!Move(t, {"accepted"}, "stored")
          BY <3>1, <3>4, <4>1, <4>2, OneMoves
        <4> QED
          BY <3>1, <4>3 DEF Ledger!Store
      <3>6. CASE Rejected(c)
        <4>1. Stage(t) = "offered"
          BY <1>1, <3>1, <3>2, <3>6, StageIs
        <4>2. Stage(t)' = "new"
          <5>1. t \notin disk'.recovered /\ t \notin acked' /\ disk'.pending = None
            BY <1>1, <2>1, <2>2, <3>3, <3>6 DEF Accepted, Rejected, OutboxAssumption
          <5> QED
            BY <5>1 DEF Stage
        <4>3. Ledger!Move(t, {"offered"}, "new")
          BY <3>1, <3>4, <4>1, <4>2, OneMoves
        <4> QED
          BY <3>1, <4>3 DEF Ledger!Withdraw
      <3> QED
        BY <3>5, <3>6
    <2> QED
      BY <2>3, <2>4
  <1> QED
    BY <1>2, <1>3 DEF Writers

LEMMA LedgerFinish ==
  ASSUME WriterInv, SingleWriter, diskFaults = 0, diskFaults' = 0,
         OutboxAssumption, NoneIsNoMessage, NEW c \in Clients, NEW r \in Requests, Acknowledge(c, r)
  PROVE  \E t \in Completions : Ledger!Finish(t)
  <1> DEFINE s == WithRecovered(mem[c], mem[c].recovered \ {r})
  <1> USE DEF WriterInv, Inv
  <1>1. /\ r \in mem[c].recovered /\ c \in Writers /\ Active(c)
        /\ Saved(c, s, "ready") /\ acked' = acked \cup {r} /\ UNCHANGED applied
    BY DEF Acknowledge, SaveFails, SaveFailsTo, IsolatedShape, Writers, Active, hq
  <1>2. /\ disk.recovered = mem[c].recovered
        /\ disk.pending # None => disk = mem[c]
    BY <1>1, DiskCopy
  <1>3. disk' = Durable(s)
    BY <1>1 DEF Saved, Writers
  <1>4. s.pending = mem[c].pending /\ s.recovered = mem[c].recovered \ {r}
    BY DEF WithRecovered, State
  <1>5. disk'.recovered = disk.recovered \ {r}
    BY <1>2, <1>3, <1>4 DEF Durable, Settled, State
  <1>6. disk'.pending = disk.pending
    <2>1. disk = Durable(mem[c])
      BY <1>1 DEF Synced
    <2> QED
      BY <2>1, <1>3, <1>4 DEF Durable, Settled, State
  <1>7. r \in Completions /\ r \in disk.recovered /\ r \notin acked
    BY <1>1, <1>2 DEF CompletionOpen
  <1>8. Stage(r) = "stored" /\ Stage(r)' = "acknowledged"
    <2>1. Stage(r)' = "acknowledged"
      BY <1>1 DEF Stage
    <2> QED
      BY <1>7, <2>1, StageIs
  <1>9. \A u \in Completions \ {r} : Stage(u)' = Stage(u)
    BY <1>1, <1>5, <1>6 DEF Stage
  <1>10. Ledger!Move(r, {"stored"}, "acknowledged")
    BY <1>7, <1>8, <1>9, OneMoves
  <1> QED
    BY <1>7, <1>10 DEF Ledger!Finish

LEMMA LedgerHq ==
  ASSUME WriterInv, OutboxAssumption, NoneIsNoMessage, Hq
  PROVE  \/ UNCHANGED [t \in Completions |-> Stage(t)]
         \/ \E t \in Completions : Ledger!Accept(t)
  <1>1. /\ UNCHANGED <<disk, acked>>
        /\ UNCHANGED applied \/ \E m : applied' = applied \cup {m}
    BY DEF Hq, HqAccept, HqRefuse, HqUnusable, HqUnavailable, Answer, hq
  <1>2. CASE UNCHANGED applied
    BY <1>1, <1>2, FrameStep DEF LedgerFrame
  <1>3. CASE \E m : applied' = applied \cup {m} /\ m \notin applied
    <2>1. PICK m : applied' = applied \cup {m} /\ m \notin applied
      BY <1>3
    <2>2. CASE disk.pending = m /\ m # None /\ IsCompletion(m.req)
      <3>1. disk.pending \in Message
        BY <2>2 DEF WriterInv, Inv, TypeOK, ProtocolState
      <3>2. PICK t \in Completions : t = disk.pending.req
        BY <2>2, <3>1, CompletionKind DEF Message, AllRequests, Completions
      <3>3. Stage(t) = "offered"
        BY <2>1, <2>2, <3>2, StageIs
      <3>4. t \notin acked \cup disk.recovered
        BY <2>2, <3>2 DEF WriterInv, CompletionOpen
      <3>5. Stage(t)' = "accepted"
        BY <1>1, <2>1, <2>2, <3>2, <3>4 DEF Stage
      <3>6. \A u \in Completions \ {t} : Stage(u)' = Stage(u)
        BY <1>1, <2>2, <3>2 DEF Stage
      <3>7. Ledger!Move(t, {"offered"}, "accepted")
        BY <3>2, <3>3, <3>5, <3>6, OneMoves
      <3> QED
        BY <3>2, <3>7 DEF Ledger!Accept
    <2>3. CASE ~(disk.pending = m /\ m # None /\ IsCompletion(m.req))
      <3>1. \A t \in Completions : Stage(t)' = Stage(t)
        BY <1>1, <2>1, <2>3 DEF Stage, Completions
      <3> QED
        BY <3>1
    <2> QED
      BY <2>2, <2>3
  <1> QED
    BY <1>1, <1>2, <1>3

\* The other steps of a client leave every completion where it is.
LEMMA LedgerOther ==
  ASSUME WriterInv, SingleWriter, diskFaults = 0, diskFaults' = 0,
         OutboxAssumption, NoneIsNoMessage, NEW c \in Clients,
         \/ Open(c) \/ OpenSession(c) \/ NewSession(c) \/ TakeControl(c) \/ ControlBusy(c)
         \/ Refresh(c) \/ Transmit(c) \/ Unsettled(c) \/ Disconnect(c) \/ Crash(c) \/ Close(c)
         \/ \E r \in Requests : Request(c, r)
  PROVE  LedgerFrame
  <1> USE DEF WriterInv, Inv, GoTo, State, Settled, Durable, hq, TypeOK, ProtocolState
  <1>1. UNCHANGED <<acked, applied>>
    BY DEF Open, OpenSession, NewSession, TakeControl, ControlBusy, Refresh, Transmit, Unsettled,
           Disconnect, Crash, Close, Request
  <1>2. CASE disk' = disk
    BY <1>1, <1>2 DEF LedgerFrame
  <1>3. CASE c \in Writers /\ OpenSession(c)
    <2>1. disk' = disk \/ (disk' = WithPending(mem[c], None) /\ IsExplicitlyRebuilt(mem[c].pending.req))
      BY <1>3, NoneIsNoMessage DEF OpenSession, Saved, SaveFailsTo, WithPending, Writers
    <2>2. Active(c)
      BY <1>3 DEF OpenSession, Active
    <2> QED
      BY <1>1, <1>3, <2>1, <2>2, DiskCopy, CompletionKind DEF LedgerFrame, WithPending
  <1>4. CASE c \in Writers /\ NewSession(c)
    <2>1. disk' = State(sessions + 1, 1, None, mem[c].recovered) /\ Active(c) /\ mem[c].pending = None
      BY <1>4 DEF NewSession, Save, Saved, SaveFails, SaveFailsTo, Writers, Active, OpeningShape
    <2> QED
      BY <1>1, <1>4, <2>1, DiskCopy DEF LedgerFrame
  <1>5. CASE c \in Writers /\ TakeControl(c)
    <2>1. disk' = disk \/ (disk' = Settled(mem[c]) /\ IsContentBearing(mem[c].pending.req))
      BY <1>5, NoneIsNoMessage DEF TakeControl, Save, Saved, SaveFails, SaveFailsTo, Writers
    <2>2. Active(c)
      BY <1>5 DEF TakeControl, Active
    <2> QED
      BY <1>1, <1>5, <2>1, <2>2, DiskCopy, CompletionKind DEF LedgerFrame
  <1>6. CASE c \in Writers /\ Refresh(c)
    <2> DEFINE p == mem[c].pending
               m == [id |-> ids, req |-> p.req, session |-> p.session, seq |-> p.seq + 1]
    <2>1. /\ disk' = Durable(State(mem[c].session, p.seq + 1, m, mem[c].recovered))
          /\ KindOf(p.req) = "enforcement" /\ Active(c) /\ p # None
      BY <1>6 DEF Refresh, Save, Saved, SaveFails, SaveFailsTo, Writers, Active, PendingShape, Sending
    <2>2. disk'.pending \in {None, m} /\ disk'.recovered = mem[c].recovered
      BY <2>1
    <2>3. disk.recovered = mem[c].recovered /\ disk.pending \in {None, p}
      BY <1>6, <2>1, DiskCopy
    <2> QED
      BY <1>1, <2>1, <2>2, <2>3 DEF LedgerFrame, IsCompletion
  <1>7. CASE c \in Writers /\ Transmit(c)
    BY SMTT(60), <1>7, <1>2 DEF Transmit, Saved, SaveFails, SaveFailsTo, Synced, Active, Writers
  <1>8. disk' = disk \/ (c \in Writers /\ (OpenSession(c) \/ NewSession(c) \/ TakeControl(c)
                                           \/ Refresh(c) \/ Transmit(c)))
    BY DEF Open, OpenSession, NewSession, TakeControl, ControlBusy, Refresh, Transmit, Unsettled,
           Disconnect, Crash, Close, Request, Save, Saved, SaveFails, SaveFailsTo, counters, Writers
  <1> QED
    BY <1>2, <1>3, <1>4, <1>5, <1>6, <1>7, <1>8

LEMMA LedgerStep ==
  ASSUME WriterInv, WriterInv', SingleWriter, diskFaults = 0, diskFaults' = 0, Next,
         OutboxAssumption, NoneIsNoMessage
  PROVE  Ledger!Next \/ UNCHANGED [t \in Completions |-> Stage(t)]
  <1>1. CASE \E c \in Clients : Build(c)
    BY <1>1, LedgerBuild, FrameStep DEF Ledger!Next
  <1>2. CASE \E c \in Clients : Accepted(c) \/ Rejected(c)
    BY <1>2, LedgerSettle, FrameStep DEF Ledger!Next
  <1>3. CASE \E c \in Clients, r \in Requests : Acknowledge(c, r)
    BY <1>3, LedgerFinish DEF Ledger!Next
  <1>4. CASE Hq
    BY <1>4, LedgerHq DEF Ledger!Next
  <1>5. CASE \E c \in Clients :
               \/ Open(c) \/ OpenSession(c) \/ NewSession(c) \/ TakeControl(c) \/ ControlBusy(c)
               \/ Refresh(c) \/ Transmit(c) \/ Unsettled(c) \/ Disconnect(c) \/ Crash(c) \/ Close(c)
               \/ \E r \in Requests : Request(c, r)
    BY <1>5, LedgerOther, FrameStep
  <1> QED
    BY <1>1, <1>2, <1>3, <1>4, <1>5 DEF Next, Step

\* Saves do not fail when the bound on failed saves is zero.
LEMMA NoFaults ==
  ASSUME MaxDiskFaults = 0
  PROVE  Spec => [](diskFaults = 0)
  <1>1. Init => diskFaults = 0
    BY DEF Init
  <1>2. Inv /\ diskFaults = 0 /\ [Next]_vars => (diskFaults = 0)'
    <2> SUFFICES ASSUME diskFaults = 0, [Next]_vars PROVE diskFaults' = 0
      OBVIOUS
    <2>1. ASSUME NEW c \in Clients,
                 \/ Open(c) \/ OpenSession(c) \/ NewSession(c) \/ TakeControl(c) \/ ControlBusy(c)
                 \/ Build(c) \/ Refresh(c) \/ Close(c)
          PROVE  diskFaults' = 0
      BY <2>1 DEF Open, OpenSession, NewSession, TakeControl, ControlBusy, Build, Refresh, Close,
             Save, Saved, SaveFails, SaveFailsTo, counters
    <2>2. ASSUME NEW c \in Clients, \/ Transmit(c) \/ Accepted(c) \/ Rejected(c) \/ Unsettled(c)
                                    \/ Disconnect(c) \/ Crash(c)
          PROVE  diskFaults' = 0
      BY <2>2 DEF Transmit, Accepted, Rejected, Unsettled, Disconnect, Crash,
             Save, Saved, SaveFails, SaveFailsTo, counters
    <2>3. ASSUME NEW c \in Clients, NEW r \in Requests, Request(c, r) \/ Acknowledge(c, r)
          PROVE  diskFaults' = 0
      BY <2>3 DEF Request, Acknowledge, Saved, SaveFails, SaveFailsTo, counters
    <2>4. ASSUME Hq PROVE diskFaults' = 0
      BY <2>4 DEF Hq, HqAccept, HqRefuse, HqUnusable, HqUnavailable, Answer
    <2>5. ASSUME UNCHANGED vars PROVE diskFaults' = 0
      BY <2>5 DEF vars
    <2> QED
      BY <2>1, <2>2, <2>3, <2>4, <2>5 DEF Next, Step
  <1> QED
    BY <1>1, <1>2, InvHolds, PTL DEF Spec

\* The file and HQ together move every task completion through the ledger's
\* stages only: none skips a stage, none goes back once HQ accepted it.
THEOREM OutboxImplementsLedger ==
  ASSUME SingleWriter, MaxDiskFaults = 0
  PROVE  Spec => ImplementsLedger
  <1>1. Init => Ledger!Init
    <2> SUFFICES ASSUME Init PROVE \A t \in Completions : Stage(t) = "new"
      BY DEF Ledger!Init
    <2> QED
      BY DEF Init, Stage, EmptyState, State
  <1>2. /\ Inv /\ FileIsReliable /\ diskFaults = 0 /\ [Next]_vars
        /\ Inv' /\ FileIsReliable' /\ (diskFaults = 0)'
        => [Ledger!Next]_([t \in Completions |-> Stage(t)])
    <2> SUFFICES ASSUME WriterInv, WriterInv', diskFaults = 0, diskFaults' = 0, [Next]_vars
                 PROVE  Ledger!Next \/ UNCHANGED [t \in Completions |-> Stage(t)]
      BY DEF FileIsReliable
    <2>1. CASE Next
      BY <2>1, LedgerStep, OutboxAssumption, NoneIsNoMessage
    <2>2. CASE UNCHANGED vars
      BY <2>2, FrameStep DEF vars, LedgerFrame
    <2> QED
      BY <2>1, <2>2
  <1> QED
    BY <1>1, <1>2, InvHolds, FileReliable, NoFaults, PTL DEF Spec, ImplementsLedger, Ledger!Spec

\* The safety of the outbox, all of it together, as the run checks it.
THEOREM OutboxIsSafe ==
  ASSUME SingleWriter, MaxDiskFaults = 0
  PROVE  Spec => []OutboxSafe
  BY NoFaults, NumbersNeverReused, CompletionsRetained, AcknowledgedStaysGone,
     StoreKeepsItsLimit, PTL DEF OutboxSafe

=============================================================================
