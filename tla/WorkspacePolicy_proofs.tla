----------------------- MODULE WorkspacePolicy_proofs -----------------------
(***************************************************************************)
(* Proofs about WorkspacePolicy, for any clients, capsules and number of   *)
(* authorizations, days and faults: the policy file does not run ahead of  *)
(* the replay record, a revoked grant does not come back, and a day's      *)
(* reservations stay within its limit as long as no write has forgotten    *)
(* some.  How Bytes adds up is not used, only that nothing has no bytes.   *)
(* At the end are the proofs about SkillPreparation.                       *)
(***************************************************************************)
EXTENDS WorkspacePolicy, FiniteSetTheorems, TLAPS

-----------------------------------------------------------------------------
(* The invariant. *)

Memories == [step : Steps, auth : issued \cup {None}, prev : issued \cup {None},
             next : Ledgers \cup {None}, key : Capsules \cup {None},
             day : Days, floor : issued \cup {None}]

ReservedOn(d) == {k \in Capsules : <<d, k>> \in reserved}
Covers(a, p) == p \in {None, Local} \/ Follows(a, p)
Writing == {"activate", "record", "policy", "restore"}

\* No two authorizations have the same signature, and one is the latest.
Signed ==
    /\ IsFiniteSet(issued)
    /\ \A a \in issued : a.sig <= Cardinality(issued) /\ a.at <= a.sig
    /\ \A a, b \in issued : a.sig = b.sig => a = b
    /\ issued # {} => \E a \in issued : \A b \in issued : b.at <= a.at

\* Who writes holds the lock.
Holds(c) ==
    /\ client[c].step \in Writing => lock["authorization"] = c
    /\ client[c].step = "commit" => lock["ledger"] = c

\* What was granted is granted by an authorization at least as late as what was
\* applied when it was loaded.
Grants(c) ==
    /\ client[c].step \notin {"idle", "register", "synced"} => client[c].auth \in issued
    /\ Follows(applied, client[c].floor)
    /\ client[c].step \in {"granted", "reserve", "commit", "send"}
           => Follows(client[c].auth, client[c].floor)

\* Who writes the record knows it, and can put it back.
Orders(c) ==
    /\ client[c].step \in {"activate", "record"} =>
           client[c].prev = record /\ Follows(client[c].auth, record)
    /\ client[c].step \in {"policy", "restore"} =>
           /\ record = client[c].auth
           /\ Covers(client[c].prev, policy) /\ Follows(client[c].prev, applied)
           /\ Follows(record, client[c].prev)

\* What an activation and a reservation are going to write.
Writes(c) ==
    /\ client[c].step = "activate" =>
           /\ client[c].next # None
           /\ client[c].next.day \in 1 .. today
           /\ client[c].next = NewLedger(client[c].next.day)
           /\ (ledger # None /\ ledger.day > client[c].next.day) => ledger.keys # {}
    /\ client[c].step \in {"reserve", "commit"} =>
           client[c].key \in Capsules /\ client[c].day \in 1 .. today
    /\ client[c].step = "commit" =>
           /\ client[c].next # None
           /\ client[c].next.day = client[c].day
           /\ client[c].key \in client[c].next.keys
    /\ (client[c].step = "commit" /\ client[c].day = today /\ ~forgot) =>
           /\ client[c].next.keys = Current(ledger, today).keys \cup {client[c].key}
           /\ Bytes(client[c].next.keys) <= Limit

ClientOK(c) == Holds(c) /\ Grants(c) /\ Orders(c) /\ Writes(c)

Recorded == Covers(record, policy) /\ Follows(record, applied)

Dated == today >= 1 /\ (ledger # None => ledger.day <= today)

\* While nothing was forgotten, the ledger holds what was reserved on its day.
Kept ==
    /\ ledger = None => reserved = {}
    /\ \A r \in reserved : 1 <= r[1] /\ r[1] <= ledger.day
    /\ (ledger # None /\ ledger.day >= 1) => ReservedOn(ledger.day) = ledger.keys
    /\ \A d \in Days : Bytes(ReservedOn(d)) <= Limit

PolicyInv ==
    TypeOK /\ Signed /\ Recorded /\ Dated /\ (~forgot => Kept) /\ \A c \in Clients : ClientOK(c)

-----------------------------------------------------------------------------
(* Authorizations. *)

LEMMA SetsApart ==
    ASSUME PolicyAssumption, TypeOK
    PROVE  /\ None \notin issued /\ Local \notin issued /\ Local # None
           /\ \A a \in issued : /\ a.at \in Nat /\ a.sig \in Nat /\ a.content \in BOOLEAN
                                /\ a.day \in Days
           /\ None \notin Ledgers
  <1>1. Authorizations \cap {Local, None} = {} /\ Local # None
    BY DEF PolicyAssumption, Authorizations, Days
  <1>2. issued \subseteq Authorizations
    BY DEF TypeOK
  <1>3. \A a \in Authorizations : a.at \in Nat /\ a.sig \in Nat /\ a.content \in BOOLEAN /\ a.day \in Days
    BY DEF Authorizations
  <1> QED
    BY <1>1, <1>2, <1>3 DEF PolicyAssumption, Ledgers, Days

LEMMA FollowsBoth ==
    ASSUME PolicyAssumption, TypeOK, NEW a \in issued \cup {None}, NEW b \in issued \cup {None},
           NEW d \in issued \cup {None}, Follows(a, b), Follows(b, d)
    PROVE  Follows(a, d)
  BY SetsApart DEF Follows

LEMMA CoversBoth ==
    ASSUME PolicyAssumption, TypeOK, NEW a \in issued \cup {None}, NEW b \in issued \cup {None},
           Follows(a, b), Covers(b, policy)
    PROVE  Covers(a, policy)
  BY FollowsBoth DEF Covers, TypeOK

LEMMA NotSuperseded ==
    ASSUME PolicyAssumption, TypeOK, Signed, NEW a \in issued, NEW r \in issued \cup {None},
           ~Superseded(a, r)
    PROVE  Follows(a, r)
  BY SetsApart DEF Superseded, Follows, Signed

LEMMA NoBytes == ASSUME PolicyAssumption PROVE Bytes({}) = 0
  <1> DEFINE Def(f) == f = [s \in SUBSET {} |-> IF s = {} THEN 0
                               ELSE LET x == CHOOSE y \in s : TRUE IN Size[x] + f[s \ {x}]]
             zero == [s \in SUBSET {} |-> 0]
  <1>1. Bytes({}) = (CHOOSE f : Def(f))[{}]
    BY DEF Bytes, MapThenSumSet, MapThenFoldSet
  <1>2. Def(zero)
    OBVIOUS
  <1>3. Def(CHOOSE f : Def(f))
    <2> HIDE DEF Def, zero
    <2> QED
      BY <1>2
  <1> QED
    BY <1>1, <1>3

-----------------------------------------------------------------------------
(* What a client remembers, and its locks. *)

LEMMA Remembers ==
    ASSUME TypeOK, NEW c \in Clients
    PROVE  /\ client[c] \in Memories
           /\ client[c].step \in Steps /\ client[c].auth \in issued \cup {None}
           /\ client[c].prev \in issued \cup {None} /\ client[c].next \in Ledgers \cup {None}
           /\ client[c].key \in Capsules \cup {None} /\ client[c].day \in Days
           /\ client[c].floor \in issued \cup {None}
  BY DEF TypeOK, Memories

LEMMA AsleepIs ==
    ASSUME PolicyAssumption
    PROVE  /\ Asleep \in Memories
           /\ Asleep.step = "idle" /\ Asleep.floor = None
  BY DEF Asleep, Memories, Steps, Days, PolicyAssumption

LEMMA Becomes ==
    ASSUME TypeOK, NEW c \in Clients, NEW m \in Memories, Become(c, m)
    PROVE  /\ client' \in [Clients -> Memories] /\ client'[c] = m
           /\ \A d \in Clients \ {c} : client'[d] = client[d]
  BY DEF TypeOK, Memories, Become

LEMMA Goes ==
    ASSUME TypeOK, NEW c \in Clients, NEW x \in Steps, Goto(c, x)
    PROVE  /\ client' \in [Clients -> Memories]
           /\ client'[c].step = x /\ client'[c].auth = client[c].auth /\ client'[c].prev = client[c].prev
           /\ client'[c].next = client[c].next /\ client'[c].key = client[c].key
           /\ client'[c].day = client[c].day /\ client'[c].floor = client[c].floor
           /\ \A d \in Clients \ {c} : client'[d] = client[d]
  <1>1. client' = [client EXCEPT ![c] = [client[c] EXCEPT !.step = x]]
    BY DEF TypeOK, Goto
  <1>2. [client[c] EXCEPT !.step = x] \in Memories
    BY DEF TypeOK, Memories
  <1> QED
    BY <1>1, <1>2 DEF TypeOK, Memories

LEMMA Releases ==
    ASSUME TypeOK, NEW c \in Clients, NEW held, Release(held, c)
    PROVE  /\ lock' \in [Locks -> Clients \cup {None}]
           /\ \A d \in Clients \ {c} : \A l \in Locks : lock[l] = d => lock'[l] = d
           /\ \A l \in Locks \ held : lock'[l] = lock[l]
  BY DEF TypeOK, Release, Freed

LEMMA Takes ==
    ASSUME PolicyAssumption, TypeOK, NEW c \in Clients, NEW l \in Locks, Take(l, c)
    PROVE  /\ lock' \in [Locks -> Clients \cup {None}] /\ lock'[l] = c
           /\ \A d \in Clients : \A k \in Locks : lock[k] = d => lock'[k] = d
  BY DEF TypeOK, Take, Free, PolicyAssumption

\* Who sleeps has nothing to keep.
LEMMA SleepsWell ==
    ASSUME PolicyAssumption, TypeOK, NEW c \in Clients, Unwind(c)
    PROVE  /\ client' \in [Clients -> Memories] /\ lock' \in [Locks -> Clients \cup {None}]
           /\ ClientOK(c)'
           /\ \A d \in Clients \ {c} : client'[d] = client[d] /\ \A l \in Locks : lock[l] = d => lock'[l] = d
  <1>1. client' \in [Clients -> Memories] /\ client'[c] = Asleep
        /\ \A d \in Clients \ {c} : client'[d] = client[d]
    BY AsleepIs, Becomes DEF Unwind
  <1>2. client'[c].step = "idle" /\ client'[c].floor = None
    BY <1>1, AsleepIs
  <1>3. ClientOK(c)'
    BY <1>2 DEF ClientOK, Holds, Grants, Orders, Writes, Writing, Follows
  <1> QED
    BY <1>1, <1>3, Releases DEF Unwind

\* A step of c that leaves the files alone leaves the other clients alone.
Others(c) ==
    \A d \in Clients \ {c} : client'[d] = client[d] /\ \A l \in Locks : lock[l] = d => lock'[l] = d

LEMMA QuietStep ==
    ASSUME PolicyAssumption, PolicyInv, NEW c \in Clients, Others(c), ClientOK(c)',
           client' \in [Clients -> Memories], lock' \in [Locks -> Clients \cup {None}],
           UNCHANGED <<today, issued, record, policy, ledger, applied, forgot>>,
           reserved' \subseteq Days \X Capsules, ~forgot => reserved' = reserved, faults' \in 0 .. MaxFaults
    PROVE  PolicyInv'
  <1>1. TypeOK'
    BY DEF PolicyInv, TypeOK, Memories
  <1>2. Signed' /\ Recorded' /\ Dated'
    BY DEF PolicyInv, Signed, Recorded, Dated, Covers, Follows
  <1>3. (~forgot => Kept)'
    BY DEF PolicyInv, Kept, ReservedOn
  <1>4. ASSUME NEW d \in Clients PROVE ClientOK(d)'
    <2>1. CASE d # c
      <3>1. client'[d] = client[d] /\ \A l \in Locks : lock[l] = d => lock'[l] = d
        BY <2>1 DEF Others
      <3>2. Holds(d)'
        BY <3>1 DEF PolicyInv, ClientOK, Holds, Locks
      <3>3. Grants(d)' /\ Orders(d)' /\ Writes(d)'
        BY <3>1 DEF PolicyInv, ClientOK, Grants, Orders, Writes, Covers, Follows, Current
      <3> QED
        BY <3>2, <3>3 DEF ClientOK
    <2> QED
      BY <2>1
  <1> QED
    BY <1>1, <1>2, <1>3, <1>4 DEF PolicyInv

LEMMA Unwinds ==
    ASSUME PolicyAssumption, PolicyInv, NEW c \in Clients, Unwind(c),
           UNCHANGED <<today, issued, record, policy, ledger, applied, forgot, reserved>>,
           faults' \in 0 .. MaxFaults
    PROVE  PolicyInv'
  BY SleepsWell, QuietStep DEF PolicyInv, TypeOK, Others

-----------------------------------------------------------------------------
(* A synchronisation, up to the first write. *)

LEMMA BeginSyncKeeps ==
    ASSUME PolicyAssumption, PolicyInv, NEW c \in Clients, BeginSync(c) PROVE PolicyInv'
  <1>1. TypeOK /\ ClientOK(c) /\ "refresh" \in Locks /\ "register" \in Steps
    BY DEF PolicyInv, Locks, Steps
  <1>2. Goto(c, "register") /\ Take("refresh", c)
        /\ UNCHANGED <<today, issued, record, policy, ledger, applied, reserved, forgot, faults>>
    BY DEF BeginSync, disk
  <1>3. ClientOK(c)'
    BY <1>1, <1>2, Goes DEF ClientOK, Holds, Grants, Orders, Writes, Writing, Follows
  <1> QED
    BY <1>1, <1>2, <1>3, Goes, Takes, QuietStep DEF Others, TypeOK

LEMMA RegisterKeeps ==
    ASSUME PolicyAssumption, PolicyInv, NEW c \in Clients, NEW a \in issued, Register(c, a) PROVE PolicyInv'
  <1>1. TypeOK /\ ClientOK(c) /\ faults \in 0 .. MaxFaults /\ reserved \subseteq Days \X Capsules
    BY DEF PolicyInv, TypeOK
  <1>2. UNCHANGED <<today, issued, record, policy, ledger, applied, reserved, forgot, faults>>
    BY DEF Register, disk
  <1>3. CASE Expired(a)
    BY <1>1, <1>2, <1>3, Unwinds DEF Register
  <1>4. CASE ~Expired(a)
    <2> DEFINE m == [client[c] EXCEPT !.step = "apply", !.auth = a]
    <2>1. Become(c, m) /\ UNCHANGED lock /\ At(c, "register")
      BY <1>1, <1>4 DEF Register, Become, TypeOK
    <2>2. m \in Memories /\ m.step = "apply" /\ m.auth = a /\ m.floor = client[c].floor
      BY ZenonT(120), <1>1 DEF TypeOK, Memories, Steps
    <2> HIDE DEF m
    <2>3. client' \in [Clients -> Memories] /\ client'[c] = m
          /\ \A d \in Clients \ {c} : client'[d] = client[d]
      BY <1>1, <2>1, <2>2, Becomes
    <2>4. ClientOK(c)'
      BY <1>1, <1>2, <2>2, <2>3 DEF ClientOK, Holds, Grants, Orders, Writes, Writing, Follows
    <2> QED
      BY <1>1, <1>2, <2>1, <2>3, <2>4, QuietStep DEF Others, TypeOK
  <1> QED
    BY <1>3, <1>4

LEMMA CheckReplayKeeps ==
    ASSUME PolicyAssumption, PolicyInv, NEW c \in Clients, CheckReplay(c) PROVE PolicyInv'
  <1> DEFINE a == client[c].auth
             next == IF a.content THEN Activated(ledger) ELSE ledger
             m == [client[c] EXCEPT !.step = IF next = ledger THEN "record" ELSE "activate",
                                    !.prev = record, !.next = next]
  <1>1. TypeOK /\ Signed /\ Dated /\ ClientOK(c) /\ faults \in 0 .. MaxFaults
        /\ reserved \subseteq Days \X Capsules
    BY DEF PolicyInv, TypeOK
  <1>2. UNCHANGED <<today, issued, record, policy, ledger, applied, reserved, forgot, faults>>
    BY DEF CheckReplay, disk
  <1>3. CASE Superseded(a, record) \/ (a.content /\ LaterDay(ledger))
    BY <1>1, <1>2, <1>3, Unwinds DEF CheckReplay
  <1>4. CASE ~(Superseded(a, record) \/ (a.content /\ LaterDay(ledger)))
    <2>1. Take("authorization", c) /\ Become(c, m) /\ At(c, "apply") /\ ~Superseded(a, record)
      BY <1>1, <1>4 DEF CheckReplay, Become, TypeOK
    <2>2. a \in issued /\ record \in issued \cup {None} /\ a.content \in BOOLEAN
      BY <1>1, <2>1, SetsApart DEF ClientOK, Grants, At, TypeOK
    <2> DEFINE fresh == NewLedger(today)
    <2>a. fresh \in Ledgers /\ fresh.day = today /\ fresh # None /\ today \in 1 .. today
      BY <1>1, SetsApart DEF NewLedger, Ledgers, TypeOK, Dated, Days
    <2>b. next = ledger \/ next = fresh
      BY DEF Activated
    <2>c. /\ ledger \in Ledgers \cup {None} /\ today \in Nat
          /\ ledger # None => ledger.day \in Nat /\ ledger.day <= today
      BY <1>1 DEF TypeOK, Dated, Ledgers, Days
    <2> HIDE DEF next, fresh
    <2>3. /\ next \in Ledgers \cup {None}
          /\ next # ledger => /\ next = fresh /\ next # None /\ next.day = today /\ today \in 1 .. today
      BY <2>a, <2>b, <2>c
    <2>4. Follows(a, record)
      BY <1>1, <2>1, <2>2, NotSuperseded
    <2> HIDE DEF next
    <2>5. /\ m \in Memories /\ m.step = (IF next = ledger THEN "record" ELSE "activate")
          /\ m.auth = a /\ m.prev = record /\ m.next = next /\ m.floor = client[c].floor
      BY ZenonT(120), <1>1, <2>2, <2>3 DEF TypeOK, Memories, Steps
    <2> HIDE DEF a, m
    <2>6. client' \in [Clients -> Memories] /\ client'[c] = m
          /\ \A d \in Clients \ {c} : client'[d] = client[d]
      BY <1>1, <2>1, <2>5, Becomes
    <2>7. /\ lock' \in [Locks -> Clients \cup {None}] /\ lock'["authorization"] = c
          /\ \A d \in Clients : \A k \in Locks : lock[k] = d => lock'[k] = d
      BY <1>1, <2>1, Takes DEF Locks
    <2>8. ClientOK(c)'
      <3>1. Holds(c)' /\ Grants(c)'
        BY <1>1, <1>2, <2>2, <2>5, <2>6, <2>7 DEF ClientOK, Holds, Grants, Follows, Writing
      <3>2. Orders(c)'
        BY <1>2, <2>4, <2>5, <2>6 DEF Orders, Follows
      <3>3. Writes(c)'
        BY <1>2, <2>3, <2>5, <2>6, <2>c DEF Writes, fresh
      <3> QED
        BY <3>1, <3>2, <3>3 DEF ClientOK
    <2> QED
      BY <1>1, <1>2, <2>6, <2>7, <2>8, QuietStep DEF Others
  <1> QED
    BY <1>3, <1>4

\* The other steps that keep the files: c goes on as it is, and perhaps a fault is counted.
LEMMA StaysWithin ==
    ASSUME PolicyAssumption, PolicyInv, NEW c \in Clients, NEW x \in Steps, Goto(c, x), UNCHANGED lock,
           UNCHANGED <<today, issued, record, policy, ledger, applied, forgot, reserved>>,
           faults' \in 0 .. MaxFaults, ClientOK(c)'
    PROVE  PolicyInv'
  BY Goes, QuietStep DEF PolicyInv, TypeOK, Others

LEMMA PolicyDeniedKeeps ==
    ASSUME PolicyAssumption, PolicyInv, NEW c \in Clients, PolicyDenied(c) PROVE PolicyInv'
  <1>1. TypeOK /\ ClientOK(c) /\ "restore" \in Steps
    BY DEF PolicyInv, Steps
  <1>2. /\ Goto(c, "restore") /\ At(c, "policy") /\ UNCHANGED lock /\ faults' \in 0 .. MaxFaults
        /\ UNCHANGED <<today, issued, record, policy, ledger, applied, reserved, forgot>>
    BY <1>1 DEF PolicyDenied, disk, TypeOK, PolicyAssumption
  <1>3. ClientOK(c)'
    BY <1>1, <1>2, Goes DEF ClientOK, Holds, Grants, Orders, Writes, Writing, Follows, Covers, At
  <1> QED
    BY <1>1, <1>2, <1>3, StaysWithin

LEMMA EndsKeep ==
    ASSUME PolicyAssumption, PolicyInv, NEW c \in Clients, EndSync(c) \/ Interrupt(c) \/ Send(c) PROVE PolicyInv'
  <1>1. /\ Unwind(c) /\ faults' \in 0 .. MaxFaults
        /\ UNCHANGED <<today, issued, record, policy, ledger, applied, reserved, forgot>>
    BY DEF EndSync, Interrupt, Send, disk, PolicyInv, TypeOK, PolicyAssumption
  <1> QED
    BY <1>1, Unwinds

-----------------------------------------------------------------------------
(* An upload, up to its write. *)

LEMMA LoadPolicyKeeps ==
    ASSUME PolicyAssumption, PolicyInv, NEW c \in Clients, LoadPolicy(c) PROVE PolicyInv'
  <1> DEFINE m == [client[c] EXCEPT !.step = "verify", !.auth = policy, !.floor = applied]
  <1>1. TypeOK /\ ClientOK(c) /\ applied \in issued \cup {None}
    BY DEF PolicyInv, TypeOK
  <1>2. /\ Become(c, m) /\ UNCHANGED lock /\ At(c, "idle") /\ policy \in issued
        /\ UNCHANGED <<today, issued, record, policy, ledger, applied, reserved, forgot, faults>>
    BY <1>1 DEF LoadPolicy, disk, GrantsContent, TypeOK, Become
  <1>3. m \in Memories /\ m.step = "verify" /\ m.auth = policy /\ m.floor = applied
    BY ZenonT(120), <1>1, <1>2 DEF TypeOK, Memories, Steps
  <1> HIDE DEF m
  <1>4. client' \in [Clients -> Memories] /\ client'[c] = m /\ \A d \in Clients \ {c} : client'[d] = client[d]
    BY <1>1, <1>2, <1>3, Becomes
  <1>5. Follows(applied, applied)
    BY DEF Follows
  <1>6. ClientOK(c)'
    BY <1>1, <1>2, <1>3, <1>4, <1>5 DEF ClientOK, Holds, Grants, Orders, Writes, Writing, Follows
  <1> QED
    BY <1>1, <1>2, <1>4, <1>6, QuietStep DEF Others, TypeOK

LEMMA VerifyLoadedKeeps ==
    ASSUME PolicyAssumption, PolicyInv, NEW c \in Clients, VerifyLoaded(c) PROVE PolicyInv'
  <1>1. TypeOK /\ Signed /\ Recorded /\ ClientOK(c) /\ "granted" \in Steps /\ faults \in 0 .. MaxFaults
    BY DEF PolicyInv, Steps, TypeOK
  <1>2. UNCHANGED <<today, issued, record, policy, ledger, applied, reserved, forgot, faults>> /\ At(c, "verify")
    BY DEF VerifyLoaded, disk
  <1>3. CASE record = None \/ Superseded(client[c].auth, record)
    BY <1>1, <1>2, <1>3, Unwinds DEF VerifyLoaded
  <1>4. CASE ~(record = None \/ Superseded(client[c].auth, record))
    <2>1. Goto(c, "granted") /\ UNCHANGED lock
      BY <1>4 DEF VerifyLoaded
    <2>2. client[c].auth \in issued /\ client[c].floor \in issued \cup {None} /\ record \in issued \cup {None}
          /\ applied \in issued \cup {None} /\ Follows(applied, client[c].floor) /\ Follows(record, applied)
      BY <1>1, <1>2, Remembers DEF ClientOK, Grants, At, TypeOK, Recorded
    <2>3. Follows(client[c].auth, record)
      BY <1>1, <1>4, <2>2, NotSuperseded
    <2>4. Follows(client[c].auth, client[c].floor)
      BY <1>1, <2>2, <2>3, FollowsBoth
    <2>5. ClientOK(c)'
      BY <1>1, <1>2, <2>1, <2>2, <2>4, Goes DEF ClientOK, Holds, Grants, Orders, Writes, Writing, Follows
    <2> QED
      BY <1>1, <1>2, <2>1, <2>5, StaysWithin
  <1> QED
    BY <1>3, <1>4

LEMMA BeginReserveKeeps ==
    ASSUME PolicyAssumption, PolicyInv, NEW c \in Clients, NEW k \in Capsules, BeginReserve(c, k) PROVE PolicyInv'
  <1> DEFINE m == [client[c] EXCEPT !.step = "reserve", !.key = k, !.day = today]
  <1>1. TypeOK /\ Dated /\ ClientOK(c) /\ faults \in 0 .. MaxFaults
    BY DEF PolicyInv, TypeOK
  <1>2. UNCHANGED <<today, issued, record, policy, ledger, applied, reserved, forgot, faults>> /\ At(c, "granted")
    BY DEF BeginReserve, disk
  <1>3. CASE Expired(client[c].auth)
    BY <1>1, <1>2, <1>3, Unwinds DEF BeginReserve
  <1>4. CASE ~Expired(client[c].auth)
    <2>1. Become(c, m) /\ UNCHANGED lock
      BY <1>1, <1>4 DEF BeginReserve, Become, TypeOK
    <2>2. /\ m \in Memories /\ m.step = "reserve" /\ m.key = k /\ m.day = today
          /\ m.auth = client[c].auth /\ m.floor = client[c].floor
      BY ZenonT(120), <1>1 DEF TypeOK, Memories, Steps
    <2> HIDE DEF m
    <2>3. client' \in [Clients -> Memories] /\ client'[c] = m
          /\ \A d \in Clients \ {c} : client'[d] = client[d]
      BY <1>1, <2>1, <2>2, Becomes
    <2>4. today \in 1 .. today
      BY <1>1 DEF TypeOK, Days, Dated
    <2>5. ClientOK(c)'
      BY <1>1, <1>2, <2>2, <2>3, <2>4 DEF ClientOK, Holds, Grants, Orders, Writes, Writing, Follows, At
    <2> QED
      BY <1>1, <1>2, <2>1, <2>3, <2>5, QuietStep DEF Others, TypeOK
  <1> QED
    BY <1>3, <1>4

LEMMA ReadLedgerKeeps ==
    ASSUME PolicyAssumption, PolicyInv, NEW c \in Clients, ReadLedger(c) PROVE PolicyInv'
  <1> DEFINE read == Current(ledger, client[c].day)
             k == client[c].key
  <1>1. TypeOK /\ Dated /\ ClientOK(c) /\ faults \in 0 .. MaxFaults /\ reserved \subseteq Days \X Capsules
    BY DEF PolicyInv, TypeOK
  <1>2. UNCHANGED <<today, issued, record, policy, ledger, applied, forgot, faults>> /\ At(c, "reserve")
    BY DEF ReadLedger, disk
  <1>3. k \in Capsules /\ client[c].day \in 1 .. today /\ client[c].day \in Days /\ client[c].auth \in issued
        /\ Follows(applied, client[c].floor) /\ Follows(client[c].auth, client[c].floor)
    BY <1>1, <1>2, Remembers DEF ClientOK, Writes, Grants, At
  <1>4. read \in Ledgers /\ read.day = client[c].day /\ read.keys \subseteq Capsules
    BY <1>1, <1>3 DEF Current, NewLedger, Ledgers, TypeOK
  <1>5. CASE k \in read.keys /\ Goto(c, "send") /\ reserved' = reserved \cup {<<client[c].day, k>>} /\ UNCHANGED lock
    <2>1. "send" \in Steps /\ reserved' \subseteq Days \X Capsules
      BY <1>1, <1>3, <1>5 DEF Steps
    <2>2. ASSUME ~forgot PROVE reserved' = reserved
      <3>1. ledger # None /\ ledger.day = client[c].day /\ k \in ledger.keys
        BY <1>5 DEF Current, NewLedger
      <3>2. ReservedOn(ledger.day) = ledger.keys
        BY <2>2, <3>1, <1>3 DEF PolicyInv, Kept
      <3> QED
        BY <3>1, <3>2, <1>5 DEF ReservedOn
    <2>3. ClientOK(c)'
      BY <1>1, <1>2, <1>3, <1>5, <2>1, Goes DEF ClientOK, Holds, Grants, Orders, Writes, Writing, Follows
    <2> QED
      BY <1>1, <1>2, <1>5, <2>1, <2>2, <2>3, Goes, QuietStep DEF Others, TypeOK
  <1>6. CASE Unwind(c) /\ UNCHANGED reserved
    BY <1>1, <1>2, <1>6, Unwinds
  <1>7. CASE /\ k \notin read.keys /\ Bytes(read.keys \cup {k}) <= Limit /\ Take("ledger", c) /\ UNCHANGED reserved
             /\ client' = [client EXCEPT ![c].step = "commit", ![c].next = [read EXCEPT !.keys = @ \cup {k}]]
    <2> DEFINE more == [read EXCEPT !.keys = @ \cup {k}]
               m == [client[c] EXCEPT !.step = "commit", !.next = more]
    <2>1. Become(c, m)
      BY <1>1, <1>7 DEF Become, TypeOK
    <2>2. more \in Ledgers /\ more.day = client[c].day /\ more.keys = read.keys \cup {k}
      BY <1>3, <1>4 DEF Ledgers
    <2> HIDE DEF read, more
    <2>3. /\ m \in Memories /\ m.step = "commit" /\ m.key = k /\ m.day = client[c].day
          /\ m.auth = client[c].auth /\ m.floor = client[c].floor
          /\ m.next = more
      BY ZenonT(120), <1>1, <2>2 DEF TypeOK, Memories, Steps
    <2>4. more # None
      BY <2>2, <1>1, SetsApart
    <2> HIDE DEF m
    <2>5. client' \in [Clients -> Memories] /\ client'[c] = m
          /\ \A d \in Clients \ {c} : client'[d] = client[d]
      BY <1>1, <2>1, <2>3, Becomes
    <2>6. /\ lock' \in [Locks -> Clients \cup {None}] /\ lock'["ledger"] = c
          /\ \A d \in Clients : \A l \in Locks : lock[l] = d => lock'[l] = d
      BY <1>1, <1>7, Takes DEF Locks
    <2>7. ClientOK(c)'
      <3>1. Holds(c)' /\ Grants(c)' /\ Orders(c)'
        BY <1>2, <1>3, <2>3, <2>5, <2>6 DEF Holds, Grants, Orders, Writing, Follows
      <3>2. Writes(c)'
        BY ZenonT(120), <1>2, <1>3, <1>7, <2>2, <2>3, <2>4, <2>5 DEF Writes, read
      <3> QED
        BY <3>1, <3>2 DEF ClientOK
    <2> QED
      BY <1>1, <1>2, <1>7, <2>5, <2>6, <2>7, QuietStep DEF Others
  <1> QED
    BY <1>5, <1>6, <1>7 DEF ReadLedger

-----------------------------------------------------------------------------
(* The server, the clock, and whoever puts the workspace back. *)

LEMMA IssueKeeps ==
    ASSUME PolicyAssumption, PolicyInv, NEW content \in BOOLEAN, NEW later \in 0 .. 1, Issue(content, later)
    PROVE  PolicyInv'
  <1> DEFINE card == Cardinality(issued)
             n == [sig |-> card + 1, at |-> LastIssue + later, day |-> today, content |-> content]
  <1>1. TypeOK /\ Signed /\ IsFiniteSet(issued) /\ card \in Nat /\ card < MaxIssued /\ MaxIssued \in Nat
        /\ issued' = issued \cup {n}
        /\ UNCHANGED <<today, lock, record, policy, ledger, client, applied, reserved, forgot, faults>>
    BY FS_CardinalityType DEF PolicyInv, Signed, Issue, PolicyAssumption, disk
  <1>2. \A b \in issued : b.at \in Nat /\ b.sig \in Nat /\ b.sig <= card /\ b.at <= b.sig
    BY <1>1, SetsApart DEF Signed
  <1>3. LastIssue \in 0 .. card /\ \A b \in issued : b.at <= LastIssue
    <2>1. CASE issued = {}
      BY <2>1, <1>1 DEF LastIssue
    <2>2. CASE issued # {}
      <3> DEFINE S == {b.at : b \in issued}
      <3>1. PICK e \in issued : \A b \in issued : b.at <= e.at
        BY <2>2, <1>1 DEF Signed
      <3>2. e.at \in S /\ \A y \in S : e.at >= y
        BY <3>1, <1>2
      <3>3. Max(S) \in S /\ \A y \in S : Max(S) >= y
        <4> HIDE DEF S
        <4> QED
          BY <3>2 DEF Max
      <3>4. LastIssue = Max(S)
        BY <2>2 DEF LastIssue
      <3> QED
        BY <3>3, <3>4, <1>1, <1>2
    <2> QED
      BY <2>1, <2>2
  <1>4. n.sig = card + 1 /\ n.at = LastIssue + later /\ n \in Authorizations /\ n.at <= n.sig
    BY <1>1, <1>3 DEF Authorizations, TypeOK
  <1>5. n \notin issued
    BY <1>1, <1>2, <1>4
  <1>6. IsFiniteSet(issued') /\ Cardinality(issued') = card + 1
    BY <1>1, <1>5, FS_AddElement
  <1> HIDE DEF n, card
  <1>7. Signed'
    <2>1. \A a \in issued' : a.sig <= card + 1 /\ a.at <= a.sig
      BY <1>1, <1>2, <1>4
    <2>2. \A a, b \in issued' : a.sig = b.sig => a = b
      BY <1>1, <1>2, <1>4 DEF Signed
    <2>3. \A b \in issued' : b.at <= n.at
      BY <1>1, <1>2, <1>3, <1>4
    <2> QED
      BY <1>1, <1>6, <2>1, <2>2, <2>3 DEF Signed
  <1>8. TypeOK'
    <2>1. issued' \subseteq Authorizations /\ issued \subseteq issued'
      BY <1>1, <1>4 DEF TypeOK
    <2>2. Memories \subseteq Memories'
      BY <2>1 DEF Memories
    <2>3. client' \in [Clients -> Memories']
      BY <2>2, <1>1 DEF TypeOK, Memories
    <2> QED
      BY <1>1, <2>1, <2>3 DEF TypeOK, Memories
  <1>9. Recorded' /\ Dated' /\ (~forgot => Kept)'
    BY <1>1 DEF PolicyInv, Recorded, Dated, Kept, Covers, Follows, ReservedOn
  <1>10. ASSUME NEW d \in Clients PROVE ClientOK(d)'
    BY <1>1 DEF PolicyInv, ClientOK, Holds, Grants, Orders, Writes, Covers, Follows, Current
  <1> QED
    BY <1>7, <1>8, <1>9, <1>10 DEF PolicyInv

LEMMA MidnightKeeps ==
    ASSUME PolicyAssumption, PolicyInv, Midnight PROVE PolicyInv'
  <1>1. /\ TypeOK /\ Dated /\ today \in Nat /\ today' = today + 1 /\ today' \in Days
        /\ UNCHANGED <<issued, lock, record, policy, ledger, client, applied, reserved, forgot, faults>>
    BY DEF PolicyInv, TypeOK, Midnight, disk, Days, PolicyAssumption
  <1>2. TypeOK' /\ Signed' /\ Recorded'
    BY <1>1 DEF PolicyInv, TypeOK, Signed, Recorded, Covers, Follows
  <1>3. Dated'
    BY <1>1 DEF Dated, TypeOK, Ledgers, Days
  <1>4. (~forgot => Kept)'
    BY <1>1 DEF PolicyInv, Kept, ReservedOn
  <1>5. ASSUME NEW d \in Clients PROVE ClientOK(d)'
    <2>1. Holds(d)' /\ Grants(d)' /\ Orders(d)'
      BY <1>1 DEF PolicyInv, ClientOK, Holds, Grants, Orders, Covers, Follows
    <2>2. Writes(d)'
      <3>1. Writes(d)
        BY DEF PolicyInv, ClientOK
      <3>2. client[d].step \in {"reserve", "commit"} => client[d].day \in 1 .. today' /\ client[d].day # today'
        BY <1>1, <3>1 DEF Writes
      <3>3. client[d].step = "activate" => client[d].next.day \in 1 .. today'
        BY <1>1, <3>1 DEF Writes
      <3> QED
        BY <1>1, <3>1, <3>2, <3>3 DEF Writes
    <2> QED
      BY <2>1, <2>2 DEF ClientOK
  <1> QED
    BY <1>2, <1>3, <1>4, <1>5 DEF PolicyInv

LEMMA RollBackKeeps ==
    ASSUME PolicyAssumption, PolicyInv, NEW a \in issued, RollBack(a) PROVE PolicyInv'
  <1>1. /\ TypeOK /\ Recorded /\ policy' = a /\ faults' \in 0 .. MaxFaults /\ applied \in issued
        /\ a.at < applied.at
        /\ UNCHANGED <<today, issued, lock, record, ledger, client, applied, reserved, forgot>>
    BY DEF PolicyInv, RollBack, PolicyAssumption, TypeOK
  <1>2. Follows(applied, a) /\ a # None
    BY <1>1, SetsApart DEF Follows
  <1>3. TypeOK' /\ Signed' /\ Dated' /\ (~forgot => Kept)'
    BY <1>1 DEF PolicyInv, TypeOK, Signed, Dated, Kept, ReservedOn
  <1>4. ASSUME NEW b \in issued \cup {None}, Follows(b, applied) PROVE Covers(b, policy)'
    BY <1>1, <1>2, <1>4, FollowsBoth DEF Covers, Follows
  <1>5. Recorded'
    BY <1>1, <1>4 DEF Recorded, Covers, Follows, TypeOK
  <1>6. ASSUME NEW d \in Clients PROVE ClientOK(d)'
    <2>1. Holds(d)' /\ Grants(d)' /\ Writes(d)'
      BY <1>1 DEF PolicyInv, ClientOK, Holds, Grants, Writes, Follows, Current
    <2>2. client[d].prev \in issued \cup {None} /\ Orders(d)
      BY <1>1, Remembers DEF PolicyInv, ClientOK
    <2>3. Orders(d)'
      BY <1>1, <1>4, <2>2 DEF Orders, Follows, Covers
    <2> QED
      BY <2>1, <2>3 DEF ClientOK
  <1> QED
    BY <1>3, <1>5, <1>6 DEF PolicyInv

-----------------------------------------------------------------------------
(* The writes. *)

LEMMA Alone ==
    ASSUME PolicyInv, NEW c \in Clients, NEW d \in Clients \ {c}
    PROVE  /\ client[c].step \in Writing => client[d].step \notin Writing
           /\ client[c].step = "commit" => client[d].step # "commit"
  BY DEF PolicyInv, ClientOK, Holds

LEMMA Together ==
    ASSUME PolicyInv, TypeOK', Signed', Recorded', Dated', (~forgot => Kept)', NEW c \in Clients,
           Others(c), ClientOK(c)', \A d \in Clients \ {c} : Grants(d)' /\ Orders(d)' /\ Writes(d)'
    PROVE  PolicyInv'
  <1>1. ASSUME NEW d \in Clients \ {c} PROVE Holds(d)'
    BY DEF PolicyInv, ClientOK, Holds, Others, Locks
  <1> QED
    BY <1>1 DEF PolicyInv, ClientOK

LEMMA RegisterWithoutKeeps ==
    ASSUME PolicyAssumption, PolicyInv, NEW c \in Clients, RegisterWithout(c) PROVE PolicyInv'
  <1>1. /\ TypeOK /\ ClientOK(c) /\ At(c, "register") /\ policy' = IF policy = None THEN Local ELSE policy
        /\ UNCHANGED <<today, issued, record, ledger, applied, reserved, forgot, faults>>
    BY DEF PolicyInv, RegisterWithout
  <1>2. \A b : Covers(b, policy) => Covers(b, policy')
    BY <1>1 DEF Covers
  <1>3. /\ client' \in [Clients -> Memories] /\ lock' \in [Locks -> Clients \cup {None}]
        /\ Others(c) /\ ClientOK(c)'
    <2>1. CASE Unwind(c)
      BY <2>1, <1>1, SleepsWell DEF Others
    <2>2. CASE Goto(c, "synced") /\ UNCHANGED lock
      <3>1. "synced" \in Steps
        BY DEF Steps
      <3>2. ClientOK(c)'
        BY <1>1, <2>2, <3>1, Goes DEF ClientOK, Holds, Grants, Orders, Writes, Writing, Follows, At
      <3> QED
        BY <1>1, <2>2, <3>1, <3>2, Goes DEF Others, TypeOK
    <2> QED
      BY <2>1, <2>2 DEF RegisterWithout
  <1>4. TypeOK'
    BY <1>1, <1>3 DEF TypeOK, Memories
  <1>5. Signed' /\ Recorded' /\ Dated' /\ (~forgot => Kept)'
    BY <1>1, <1>2 DEF PolicyInv, Signed, Recorded, Dated, Kept, Covers, Follows, ReservedOn
  <1>6. ASSUME NEW d \in Clients \ {c} PROVE Grants(d)' /\ Orders(d)' /\ Writes(d)'
    <2>1. client'[d] = client[d] /\ ClientOK(d)
      BY <1>3 DEF Others, PolicyInv
    <2>2. Grants(d)' /\ Writes(d)'
      BY <1>1, <2>1 DEF ClientOK, Grants, Writes, Follows, Current
    <2>3. Orders(d)'
      BY <1>1, <1>2, <2>1 DEF ClientOK, Orders, Follows, Covers
    <2> QED
      BY <2>2, <2>3
  <1> QED
    BY <1>3, <1>4, <1>5, <1>6, Together

LEMMA WriteRecordKeeps ==
    ASSUME PolicyAssumption, PolicyInv, NEW c \in Clients, WriteRecord(c)
    PROVE  PolicyInv' /\ Follows(record', record)
  <1> DEFINE a == client[c].auth
  <1>1. /\ TypeOK /\ ClientOK(c) /\ At(c, "record") /\ record' = a /\ Goto(c, "policy") /\ "policy" \in Steps
        /\ UNCHANGED <<today, issued, lock, policy, ledger, applied, reserved, forgot, faults>>
    BY DEF PolicyInv, WriteRecord, Steps
  <1>2. a \in issued /\ Follows(a, record) /\ client[c].prev = record /\ lock["authorization"] = c
    BY <1>1 DEF ClientOK, Grants, Orders, Holds, At, Writing
  <1>3. Covers(record, policy) /\ Follows(record, applied) /\ record \in issued \cup {None}
        /\ applied \in issued \cup {None}
    BY DEF PolicyInv, Recorded, TypeOK
  <1>4. Covers(a, policy) /\ Follows(a, applied)
    BY <1>1, <1>2, <1>3, FollowsBoth, CoversBoth
  <1> HIDE DEF a
  <1>5. TypeOK'
    BY <1>1, <1>2, Goes DEF TypeOK, Memories
  <1>6. Signed' /\ Recorded' /\ Dated' /\ (~forgot => Kept)'
    BY <1>1, <1>4 DEF PolicyInv, Signed, Recorded, Dated, Kept, Covers, Follows, ReservedOn
  <1>7. ClientOK(c)'
    <2>1. Holds(c)' /\ Grants(c)' /\ Writes(c)'
      BY <1>1, <1>2, Goes DEF ClientOK, Holds, Grants, Writes, Follows, Writing, At
    <2>2. Orders(c)'
      BY <1>1, <1>2, <1>3, Goes DEF Orders, Covers, Follows, a
    <2> QED
      BY <2>1, <2>2 DEF ClientOK
  <1>8. ASSUME NEW d \in Clients \ {c} PROVE Grants(d)' /\ Orders(d)' /\ Writes(d)'
    <2>1. client'[d] = client[d] /\ ClientOK(d) /\ client[d].step \notin Writing
      BY <1>1, Goes, Alone DEF PolicyInv, At, Writing
    <2> QED
      BY <1>1, <2>1 DEF ClientOK, Grants, Orders, Writes, Follows, Current, Writing
  <1> QED
    BY <1>1, <1>2, <1>5, <1>6, <1>7, <1>8, Goes, Together DEF Others

LEMMA WritePolicyKeeps ==
    ASSUME PolicyAssumption, PolicyInv, NEW c \in Clients, WritePolicy(c) PROVE PolicyInv'
  <1> DEFINE a == client[c].auth
  <1>1. /\ TypeOK /\ ClientOK(c) /\ At(c, "policy") /\ policy' = a /\ applied' = a /\ Goto(c, "synced")
        /\ "synced" \in Steps /\ Release({"authorization"}, c)
        /\ UNCHANGED <<today, issued, record, ledger, reserved, forgot, faults>>
    BY DEF PolicyInv, WritePolicy, Steps
  <1>2. a \in issued /\ a # None /\ record = a /\ Follows(record, client[c].prev)
        /\ Follows(client[c].prev, applied)
        /\ client[c].prev \in issued \cup {None} /\ applied \in issued \cup {None}
    BY <1>1, SetsApart, Remembers DEF ClientOK, Grants, Orders, At, TypeOK
  <1>3. Follows(a, applied) /\ Follows(a, a)
    BY <1>1, <1>2, FollowsBoth DEF Follows
  <1>4. \A b \in issued \cup {None} : Follows(applied, b) => Follows(a, b)
    BY <1>1, <1>2, <1>3, FollowsBoth
  <1> HIDE DEF a
  <1>5. TypeOK'
    BY <1>1, <1>2, Goes, Releases DEF TypeOK, Memories
  <1>6. Signed' /\ Dated' /\ (~forgot => Kept)'
    BY <1>1 DEF PolicyInv, Signed, Dated, Kept, ReservedOn
  <1>7. Recorded'
    BY <1>1, <1>2, <1>3 DEF Recorded, Covers, Follows
  <1>8. ASSUME NEW d \in Clients PROVE Follows(applied, client[d].floor)'
    <2>1. client'[d].floor = client[d].floor /\ client[d].floor \in issued \cup {None}
          /\ Follows(applied, client[d].floor)
      BY <1>1, Goes, Remembers DEF PolicyInv, ClientOK, Grants
    <2> QED
      BY <1>1, <1>4, <2>1 DEF Follows
  <1>9. ClientOK(c)'
    BY <1>1, <1>8, Goes DEF ClientOK, Holds, Grants, Orders, Writes, Writing
  <1>10. ASSUME NEW d \in Clients \ {c} PROVE Grants(d)' /\ Orders(d)' /\ Writes(d)'
    <2>1. client'[d] = client[d] /\ ClientOK(d) /\ client[d].step \notin Writing
      BY <1>1, Goes, Alone DEF PolicyInv, At, Writing
    <2>2. Grants(d)'
      BY <1>1, <1>8, <2>1 DEF ClientOK, Grants, Follows
    <2>3. Orders(d)' /\ Writes(d)'
      BY <1>1, <2>1 DEF ClientOK, Orders, Writes, Current, Writing
    <2> QED
      BY <2>2, <2>3
  <1> QED
    BY <1>1, <1>5, <1>6, <1>7, <1>9, <1>10, Goes, Releases, Together DEF Others

LEMMA RestoreKeeps ==
    ASSUME PolicyAssumption, PolicyInv, NEW c \in Clients, Restore(c) PROVE PolicyInv'
  <1>1. /\ TypeOK /\ ClientOK(c) /\ At(c, "restore") /\ record' = client[c].prev /\ Unwind(c)
        /\ UNCHANGED <<today, issued, policy, ledger, applied, reserved, forgot, faults>>
    BY DEF PolicyInv, Restore
  <1>2. Covers(record', policy) /\ Follows(record', applied) /\ record' \in issued \cup {None}
    BY <1>1, Remembers DEF ClientOK, Orders, At
  <1>3. /\ client' \in [Clients -> Memories] /\ lock' \in [Locks -> Clients \cup {None}]
        /\ Others(c) /\ ClientOK(c)'
    BY <1>1, SleepsWell DEF Others
  <1>4. TypeOK'
    BY <1>1, <1>2, <1>3 DEF TypeOK, Memories
  <1>5. Signed' /\ Recorded' /\ Dated' /\ (~forgot => Kept)'
    BY <1>1, <1>2 DEF PolicyInv, Signed, Recorded, Dated, Kept, Covers, Follows, ReservedOn
  <1>6. ASSUME NEW d \in Clients \ {c} PROVE Grants(d)' /\ Orders(d)' /\ Writes(d)'
    <2>1. client'[d] = client[d] /\ ClientOK(d) /\ client[d].step \notin Writing
      BY <1>1, <1>3, Alone DEF Others, PolicyInv, At, Writing
    <2> QED
      BY <1>1, <2>1 DEF ClientOK, Grants, Orders, Writes, Follows, Current, Writing
  <1> QED
    BY <1>3, <1>4, <1>5, <1>6, Together

LEMMA ActivateLedgerKeeps ==
    ASSUME PolicyAssumption, PolicyInv, NEW c \in Clients, ActivateLedger(c) PROVE PolicyInv'
  <1> DEFINE n == client[c].next
  <1>1. /\ TypeOK /\ ClientOK(c) /\ At(c, "activate") /\ ledger' = n /\ Goto(c, "record") /\ "record" \in Steps
        /\ forgot' = (forgot \/ (ledger # None /\ ledger.day >= n.day /\ ledger.keys # {}))
        /\ UNCHANGED <<today, issued, lock, record, policy, applied, reserved, faults>>
    BY DEF PolicyInv, ActivateLedger, Steps, ReplaceLedger
  <1>2. n # None /\ n \in Ledgers /\ n.day \in 1 .. today /\ n = NewLedger(n.day)
        /\ (ledger # None /\ ledger.day > n.day => ledger.keys # {})
    BY <1>1, Remembers DEF ClientOK, Writes, At
  <1>3. n.keys = {} /\ today \in Nat /\ n.day \in Nat
    BY <1>1, <1>2 DEF NewLedger, TypeOK, Days
  <1>4. ledger # None => ledger \in Ledgers /\ ledger.day \in Nat /\ ledger.day <= today
    BY <1>1 DEF TypeOK, Ledgers, Days, PolicyInv, Dated
  <1> HIDE DEF n
  <1>5. ASSUME ~forgot' PROVE ~forgot /\ (ledger # None => ledger.day < n.day \/ (ledger.day = n.day /\ ledger.keys = {}))
    <2>1. ~forgot /\ ~(ledger # None /\ ledger.day >= n.day /\ ledger.keys # {})
      BY <1>1, <1>5, Zenon
    <2> QED
      BY <2>1, <1>2, <1>3, <1>4
  <1>6. forgot' \in BOOLEAN
    BY <1>1 DEF TypeOK
  <1>7. TypeOK'
    BY <1>1, <1>2, <1>6, Goes DEF TypeOK, Memories
  <1>8. Signed' /\ Recorded'
    BY <1>1 DEF PolicyInv, Signed, Recorded, Covers, Follows
  <1>9. Dated'
    BY <1>1, <1>2, <1>3 DEF PolicyInv, Dated
  <1>10. ASSUME ~forgot' PROVE Kept'
    <2>1. Kept
      BY <1>5, <1>10 DEF PolicyInv
    <2>2. \A r \in reserved : r[1] \in Nat
      BY <1>1 DEF TypeOK, Days
    <2>3. \A r \in reserved : 1 <= r[1] /\ r[1] <= n.day
      BY <1>3, <1>4, <1>5, <1>10, <2>1, <2>2 DEF Kept
    <2>4. ReservedOn(n.day) = {}
      <3>1. CASE ledger # None /\ ledger.day = n.day /\ ledger.keys = {}
        BY <3>1, <1>2, <2>1 DEF Kept
      <3>2. CASE ledger = None
        BY <3>2, <2>1 DEF Kept, ReservedOn
      <3>3. CASE ledger # None /\ ledger.day < n.day
        BY <3>3, <1>3, <1>4, <2>1, <2>2 DEF Kept, ReservedOn
      <3> QED
        BY <3>1, <3>2, <3>3, <1>5, <1>10
    <2> QED
      BY <1>1, <1>2, <1>3, <2>1, <2>3, <2>4 DEF Kept, ReservedOn
  <1>11. ASSUME ~forgot' PROVE Current(ledger, today).keys = {} /\ Current(n, today).keys = {}
    BY <1>2, <1>3, <1>4, <1>5, <1>11 DEF Current, NewLedger
  <1>12. ClientOK(c)'
    BY <1>1, Goes DEF ClientOK, Holds, Grants, Orders, Writes, Writing, Follows, At
  <1>13. ASSUME NEW d \in Clients \ {c} PROVE Grants(d)' /\ Orders(d)' /\ Writes(d)'
    <2>1. client'[d] = client[d] /\ ClientOK(d) /\ client[d].step \notin Writing
      BY <1>1, Goes, Alone DEF PolicyInv, At, Writing
    <2>2. Grants(d)' /\ Orders(d)'
      BY <1>1, <2>1 DEF ClientOK, Grants, Orders, Follows, Covers
    <2>3. Writes(d)'
      BY <1>1, <1>5, <1>11, <2>1 DEF ClientOK, Writes, Writing
    <2> QED
      BY <2>2, <2>3
  <1> QED
    BY <1>1, <1>7, <1>8, <1>9, <1>10, <1>12, <1>13, Goes, Together DEF Others

LEMMA CommitReservationKeeps ==
    ASSUME PolicyAssumption, PolicyInv, NEW c \in Clients, CommitReservation(c) PROVE PolicyInv'
  <1> DEFINE n == client[c].next
             k == client[c].key
             day == client[c].day
  <1>1. /\ TypeOK /\ ClientOK(c) /\ At(c, "commit") /\ ledger' = n /\ Goto(c, "send") /\ "send" \in Steps
        /\ forgot' = (forgot \/ day < today) /\ reserved' = reserved \cup {<<day, k>>} /\ Release({"ledger"}, c)
        /\ UNCHANGED <<today, issued, record, policy, applied, faults>>
    BY DEF PolicyInv, CommitReservation, Steps, ReplaceLedger
  <1>2. /\ n # None /\ n \in Ledgers /\ n.day = day /\ k \in n.keys /\ k \in Capsules
        /\ day \in 1 .. today /\ day \in Days
        /\ day = today /\ ~forgot => n.keys = Current(ledger, today).keys \cup {k} /\ Bytes(n.keys) <= Limit
    BY <1>1, Remembers DEF ClientOK, Writes, At
  <1>3. today \in Nat /\ day \in Nat /\ today >= 1
    BY <1>1, <1>2 DEF TypeOK, Days, PolicyInv, Dated
  <1>4. ledger # None => ledger \in Ledgers /\ ledger.day \in Nat /\ ledger.day <= today
    BY <1>1 DEF TypeOK, Ledgers, Days, PolicyInv, Dated
  <1> HIDE DEF n, k, day
  <1>5. TypeOK'
    <2>1. forgot' \in BOOLEAN
      BY <1>1 DEF TypeOK
    <2>2. reserved' \subseteq Days \X Capsules
      BY <1>1, <1>2 DEF TypeOK
    <2> QED
      BY <1>1, <1>2, <2>1, <2>2, Goes, Releases DEF TypeOK, Memories
  <1>6. Signed' /\ Recorded'
    BY <1>1 DEF PolicyInv, Signed, Recorded, Covers, Follows
  <1>7. Dated'
    BY <1>1, <1>2, <1>3 DEF PolicyInv, Dated
  <1>8. ASSUME ~forgot' PROVE Kept'
    <2>a. ~forgot /\ ~(day < today)
      BY <1>1, <1>8, Zenon
    <2>1. Kept /\ day = today /\ ~forgot
      BY <2>a, <1>2, <1>3 DEF PolicyInv
    <2>2. \A r \in reserved : r[1] \in Nat
      BY <1>1 DEF TypeOK, Days
    <2>3. ReservedOn(today) = Current(ledger, today).keys
      <3>1. CASE ledger = None
        BY <3>1, <2>1 DEF Kept, ReservedOn, Current, NewLedger
      <3>2. CASE ledger # None /\ ledger.day = today
        BY <3>2, <2>1, <1>3 DEF Kept, Current
      <3>3. CASE ledger # None /\ ledger.day # today
        BY <3>3, <2>1, <2>2, <1>3, <1>4 DEF Kept, ReservedOn, Current, NewLedger
      <3> QED
        BY <3>1, <3>2, <3>3
    <2>4. ReservedOn(today)' = n.keys
      BY <2>1, <2>3, <1>1, <1>2, <1>8 DEF ReservedOn
    <2>5. \A d \in Days : d # today => ReservedOn(d)' = ReservedOn(d)
      BY <2>1, <1>1 DEF ReservedOn
    <2>6. \A d \in Days : Bytes(ReservedOn(d))' <= Limit
      <3> TAKE d \in Days
      <3>1. CASE d = today
        <4>1. ReservedOn(d)' = n.keys
          BY <3>1, <2>4, <1>1
        <4> QED
          BY <4>1, <2>1, <1>2
      <3>2. CASE d # today
        BY <3>2, <2>1, <2>5 DEF Kept
      <3> QED
        BY <3>1, <3>2
    <2>7. \A r \in reserved' : 1 <= r[1] /\ r[1] <= n.day
      BY <2>1, <2>2, <1>1, <1>2, <1>3, <1>4 DEF Kept
    <2> QED
      BY <1>1, <1>2, <2>1, <2>4, <2>6, <2>7 DEF Kept
  <1>9. ClientOK(c)'
    BY <1>1, Goes DEF ClientOK, Holds, Grants, Orders, Writes, Writing, Follows, At
  <1>10. ASSUME NEW d \in Clients \ {c} PROVE Grants(d)' /\ Orders(d)' /\ Writes(d)'
    <2>1. client'[d] = client[d] /\ ClientOK(d) /\ client[d].step # "commit"
      BY <1>1, Goes, Alone DEF PolicyInv, At
    <2>2. Grants(d)' /\ Orders(d)'
      BY <1>1, <2>1 DEF ClientOK, Grants, Orders, Follows, Covers
    <2>3. Writes(d)'
      BY <1>1, <1>2, <2>1 DEF ClientOK, Writes
    <2> QED
      BY <2>2, <2>3
  <1> QED
    BY <1>1, <1>5, <1>6, <1>7, <1>8, <1>9, <1>10, Goes, Releases, Together DEF Others

-----------------------------------------------------------------------------
(* The theorems. *)

LEMMA InitIs == ASSUME PolicyAssumption, Init PROVE PolicyInv
  <1>1. NewLedger(0) \in Ledgers /\ NewLedger(1) \in Ledgers /\ [day |-> 0, keys |-> Capsules] \in Ledgers
        /\ 1 \in Days
    BY DEF PolicyAssumption, NewLedger, Ledgers, Days
  <1>2. ledger \in Ledgers \cup {None}
        /\ (ledger # None => ledger.day \in 0 .. 1 /\ (ledger.day = 1 => ledger.keys = {}))
    BY <1>1 DEF Init, NewLedger
  <1>3. client \in [Clients -> Memories] /\ \A c \in Clients : client[c].step = "idle" /\ client[c].floor = None
    BY AsleepIs DEF Init
  <1>4. TypeOK
    <2>1. lock \in [Locks -> Clients \cup {None}] /\ today \in Days /\ faults \in 0 .. MaxFaults /\ issued = {}
      BY <1>1 DEF Init, PolicyAssumption
    <2>2. record = None /\ applied = None /\ policy = None /\ reserved = {} /\ forgot = FALSE
      BY DEF Init
    <2> QED
      BY <1>2, <1>3, <2>1, <2>2 DEF TypeOK, Memories
  <1>5. Signed
    BY FS_EmptySet DEF Init, Signed
  <1>6. Recorded /\ Dated
    BY <1>2 DEF Init, Recorded, Dated, Covers, Follows
  <1>7. Kept
    <2>1. reserved = {} /\ \A d : ReservedOn(d) = {}
      BY DEF Init, ReservedOn
    <2>2. Bytes({}) <= Limit
      BY NoBytes DEF PolicyAssumption
    <2>3. ledger # None /\ ledger.day >= 1 => ledger.keys = {}
      BY <1>2
    <2> QED
      BY <2>1, <2>2, <2>3 DEF Kept
  <1>8. \A c \in Clients : ClientOK(c)
    BY <1>3 DEF ClientOK, Holds, Grants, Orders, Writes, Writing, Follows
  <1> QED
    BY <1>4, <1>5, <1>6, <1>7, <1>8 DEF PolicyInv

LEMMA PolicySteps == ASSUME PolicyAssumption, PolicyInv, [Next]_vars PROVE PolicyInv'
  <1>1. ASSUME NEW c \in Clients, ClientStep(c) PROVE PolicyInv'
    <2>1. CASE SyncStep(c)
      BY <2>1, RegisterKeeps, RegisterWithoutKeeps, CheckReplayKeeps, ActivateLedgerKeeps, WriteRecordKeeps,
         WritePolicyKeeps, RestoreKeeps, EndsKeep DEF SyncStep
    <2>2. CASE UploadStep(c)
      BY <2>2, VerifyLoadedKeeps, ReadLedgerKeeps, CommitReservationKeeps, BeginReserveKeeps, EndsKeep
         DEF UploadStep
    <2> QED
      BY <1>1, <2>1, <2>2, BeginSyncKeeps, PolicyDeniedKeeps, EndsKeep, LoadPolicyKeeps DEF ClientStep
  <1>2. CASE UNCHANGED vars
    <2>1. UNCHANGED <<today, issued, lock, record, policy, ledger, client, applied, reserved, forgot, faults>>
      BY <1>2 DEF vars, disk
    <2> QED
      BY <2>1 DEF PolicyInv, TypeOK, Signed, Recorded, Dated, Kept, ClientOK, Holds, Grants, Orders, Writes,
         Covers, Follows, Current, ReservedOn
  <1> QED
    BY <1>1, <1>2, IssueKeeps, MidnightKeeps, RollBackKeeps DEF Next

LEMMA RecordOnly == ASSUME PolicyAssumption, PolicyInv, [Next]_vars PROVE RecordMoves
  <1>1. ASSUME NEW c \in Clients, ClientStep(c) PROVE RecordMoves
    <2>1. CASE WriteRecord(c)
      BY <2>1, WriteRecordKeeps DEF RecordMoves
    <2>2. CASE Restore(c)
      BY <2>2 DEF Restore, RecordMoves
    <2>3. CASE ~WriteRecord(c) /\ ~Restore(c)
      <3>1. record' = record
        BY <1>1, <2>3 DEF ClientStep, SyncStep, UploadStep, BeginSync, Register, RegisterWithout, CheckReplay,
           ActivateLedger, WritePolicy, EndSync, PolicyDenied, Interrupt, LoadPolicy, VerifyLoaded, ReadLedger,
           CommitReservation, Send, BeginReserve, disk
      <3> QED
        BY SMTT(60), <3>1 DEF RecordMoves
    <2> QED
      BY <2>1, <2>2, <2>3
  <1>2. CASE Midnight \/ UNCHANGED vars
    BY <1>2 DEF Midnight, vars, disk, RecordMoves
  <1>3. CASE (\E content \in BOOLEAN, later \in 0 .. 1 : Issue(content, later)) \/ \E a \in issued : RollBack(a)
    BY <1>3 DEF Issue, RollBack, disk, RecordMoves
  <1> QED
    BY <1>1, <1>2, <1>3 DEF Next

LEMMA InvGives == ASSUME PolicyInv PROVE PolicySafe
  <1>1. TypeOK /\ PolicyCovered /\ RevokedStaysRevoked
    BY DEF PolicyInv, Recorded, Covers, PolicyCovered, RevokedStaysRevoked, ClientOK, Grants
  <1>2. QuotaUnlessForgotten
    BY DEF PolicyInv, Kept, ReservedOn, QuotaUnlessForgotten
  <1> QED
    BY <1>1, <1>2 DEF PolicySafe

\* The inductive invariant: signatures are unique, who writes has the lock and
\* follows the record it has checked, and the ledger holds what was reserved.
THEOREM PolicyHolds == ASSUME PolicyAssumption PROVE Spec => []PolicyInv
  <1>1. Init => PolicyInv
    BY InitIs
  <1>2. PolicyInv /\ [Next]_vars => PolicyInv'
    BY PolicySteps
  <1> QED
    BY <1>1, <1>2, PTL DEF Spec

\* Through every crash between two writes, denied write and old file put back,
\* the policy is covered by the record, what is uploaded is granted by the last
\* authorization applied or a later one, and the daily limit is kept.
THEOREM PolicyIsSafe == ASSUME PolicyAssumption PROVE Spec => []PolicySafe
  BY PolicyHolds, InvGives, PTL

\* The record moves to a later authorization, or back to the one it held.
THEOREM RecordOnlyMovesOn == ASSUME PolicyAssumption PROVE Spec => [][RecordMoves]_vars
  <1>1. PolicyInv /\ [Next]_vars => RecordMoves
    BY RecordOnly
  <1> QED
    BY <1>1, PolicyHolds, PTL DEF Spec

-----------------------------------------------------------------------------
(***************************************************************************)
(* The preparation of skill rollouts, whose attempts are built and         *)
(* installed under such a policy (SkillPreparation), as a system of its    *)
(* own: for any rollouts, changes and faults, an attempt is whole before   *)
(* the pointer names it, has one flight at a time, and is installed once,  *)
(* by the policy it was built under.                                       *)
(***************************************************************************)
CONSTANTS Rollouts, MaxChanges

VARIABLES assigned, expired, approval, active, dirs, pointer, tx, act, stopping, pc, job,
          used, changes, mishaps

Skills == INSTANCE SkillPreparation WITH policy <- approval, faults <- mishaps

Attempts == [rollout : Rollouts, policy : 0 .. MaxChanges, recorded : BOOLEAN]
Pointers == [slot : Skills!Slots, rollout : Rollouts, policy : 0 .. MaxChanges]
Jobs ==
    [rollout : Rollouts \cup {None}, policy : 0 .. MaxChanges,
     slot : {0} \cup Skills!Slots, previous : Rollouts \cup {None}]

\* The steps at which a flight has an attempt of its own, and those at which it
\* knows its rollout.
Owning == {"check", "record", "publish", "verify", "install", "report"}
Decided == Owning \cup {"build"}

FlightSteps == Decided \cup {"idle", "lock", "poll", "take", "leave"}

\* What is assigned, decided and under way.
Flown ==
    /\ assigned \in Rollouts \cup {None}
    /\ active \in Rollouts \cup {None}
    /\ expired \subseteq Rollouts
    /\ changes \in 0 .. MaxChanges /\ approval \in 0 .. changes /\ mishaps \in Nat
    /\ pc \in [Skills!Actors -> FlightSteps] /\ job \in [Skills!Actors -> Jobs]
    /\ pc["pump"] \notin {"lock", "take", "verify", "install", "report"}
    /\ pc["relay"] \notin {"record", "publish"}
    /\ pc["hand"] \notin {"lock", "take", "verify", "record", "publish"}
    /\ \A a \in Skills!Actors :
         /\ pc[a] \in Decided => job[a].rollout \in Rollouts
         /\ pc[a] \in Owning => job[a].slot \in Skills!Slots
         /\ pc[a] \notin Owning \cup {"leave"} => job[a].slot = 0

\* What the directories and the pointer can hold.
Stored ==
    /\ dirs \in [Skills!Slots -> {None} \cup Attempts]
    /\ pointer \in {None} \cup Pointers
    /\ used \in [Skills!Slots -> Nat]

\* A flight holds its lock for as long as it lasts.
Held ==
    /\ tx \in {None, "pump", "relay"} /\ act \in {None, "relay", "hand"}
    /\ tx = "pump" <=> pc["pump"] # "idle"
    /\ act = "hand" <=> pc["hand"] # "idle"
    /\ act = "relay" <=> pc["relay"] # "idle"
    /\ pc["relay"] \notin {"idle", "lock", "leave"} => tx = "relay"
    /\ tx = "relay" => pc["relay"] \notin {"idle", "lock"}

\* Nobody else has the attempt of a flight.  A pump that has published its
\* attempt leaves without touching it.
Apart ==
    /\ \A a, b \in Skills!Actors : a # b /\ job[a].slot # 0 => job[a].slot # job[b].slot
    /\ pointer # None =>
         \A a \in Skills!Actors : pointer.slot = job[a].slot => a = "pump" /\ pc["pump"] = "leave"

\* The attempt of a flight is what the flight is about, and the pointer's is whole.
Built ==
    /\ \A a \in Skills!Actors : pc[a] \in Owning =>
         /\ dirs[job[a].slot] # None
         /\ dirs[job[a].slot].rollout = job[a].rollout
         /\ dirs[job[a].slot].policy = job[a].policy
         /\ pc[a] = "publish" => dirs[job[a].slot].recorded = TRUE
    /\ pointer # None => Skills!Whole(pointer)

\* What waits to be installed has not been installed.
Unused ==
    /\ Skills!UsedOnce
    /\ \A a \in Skills!Actors : pc[a] \in Owning \ {"report"} => used[job[a].slot] = 0
    /\ pointer # None => used[pointer.slot] = 0

PreparationInv == Flown /\ Stored /\ Held /\ Apart /\ Built /\ Unused

-----------------------------------------------------------------------------
(* A new attempt gets a directory that nothing names. *)

\* Of four slots, three names leave one, and the one that is chosen is free.
LEMMA FreshIs ==
    ASSUME PreparationInv, NEW a \in Skills!Actors, pc[a] = "build"
    PROVE  /\ Skills!Fresh \in Skills!Slots
           /\ \A b \in Skills!Actors : Skills!Fresh # job[b].slot
           /\ pointer # None => Skills!Fresh # pointer.slot
  <1>1. job[a].slot = 0 /\ job[a].slot \notin Skills!Slots
    BY DEF PreparationInv, Flown, Decided, Owning, Skills!Slots, Skills!Actors
  <1>2. PICK x, y, z : \A s \in Skills!Slots : s \in Skills!Named => s \in {x, y, z}
    <2>1. \E b, c : \A d \in Skills!Actors : d \in {a, b, c}
      BY DEF Skills!Actors
    <2>2. PICK b, c : \A d \in Skills!Actors : d \in {a, b, c}
      BY <2>1
    <2>3. \A s \in Skills!Slots : s \in Skills!Named => s \in {job[b].slot, job[c].slot, pointer.slot}
      BY <1>1, <2>2 DEF Skills!Named
    <2> QED
      BY <2>3
  <1>3. \E s \in Skills!Slots : s \notin {x, y, z}
    BY DEF Skills!Slots
  <1>4. \E s \in Skills!Slots \ Skills!Named : \A t \in Skills!Slots \ Skills!Named : s <= t
    <2> DEFINE Unnamed == Skills!Slots \ Skills!Named
    <2>1. \A s \in Unnamed : s = 1 \/ s = 2 \/ s = 3 \/ s = 4
      BY DEF Skills!Slots
    <2>2. 1 \in Unnamed \/ 2 \in Unnamed \/ 3 \in Unnamed \/ 4 \in Unnamed
      BY <1>2, <1>3 DEF Skills!Slots
    <2> HIDE DEF Unnamed
    <2>3. 1 \in Unnamed => \A t \in Unnamed : 1 <= t
      BY <2>1
    <2>4. 1 \notin Unnamed => \A t \in Unnamed : 2 <= t
      BY <2>1
    <2>5. 1 \notin Unnamed /\ 2 \notin Unnamed => \A t \in Unnamed : 3 <= t
      BY <2>1
    <2>6. 1 \notin Unnamed /\ 2 \notin Unnamed /\ 3 \notin Unnamed => \A t \in Unnamed : 4 <= t
      BY <2>1
    <2>7. \E s \in Unnamed : \A t \in Unnamed : s <= t
      BY <2>2, <2>3, <2>4, <2>5, <2>6
    <2> QED
      BY <2>7 DEF Unnamed
  <1>5. Skills!Fresh \in Skills!Slots \ Skills!Named
    BY <1>4 DEF Skills!Fresh
  <1> QED
    BY <1>5 DEF Skills!Named

\* A flight starts without a rollout and without an attempt.
LEMMA StartOf ==
    ASSUME Skills!PreparationAssumption, PreparationInv, NEW a \in Skills!Actors, NEW step,
           Skills!Starts(a, step)
    PROVE  /\ job' \in [Skills!Actors -> Jobs]
           /\ job'[a].slot = 0
           /\ \A b \in Skills!Actors \ {a} : job'[b] = job[b]
           /\ pc' = [pc EXCEPT ![a] = step]
  <1> DEFINE j == [Skills!NoJob EXCEPT !.policy = approval, !.previous = active]
  <1>1. job' = [job EXCEPT ![a] = j]
    BY DEF Skills!Starts
  <1>2. j \in Jobs /\ j.slot = 0
    <2>1. approval \in 0 .. MaxChanges /\ active \in Rollouts \cup {None}
      BY DEF PreparationInv, Flown, Skills!PreparationAssumption
    <2>2. Skills!NoJob \in Jobs /\ Skills!NoJob.slot = 0
      BY DEF Jobs, Skills!NoJob, Skills!PreparationAssumption
    <2> HIDE DEF Skills!NoJob
    <2> QED
      BY <2>1, <2>2 DEF Jobs
  <1> HIDE DEF j
  <1>3. job \in [Skills!Actors -> Jobs]
    BY DEF PreparationInv, Flown
  <1> QED
    BY <1>1, <1>2, <1>3 DEF Skills!Starts, Skills!GoTo

\* What a build that is not given up does, told of its new directory.
LEMMA BuildOf ==
    ASSUME Skills!PreparationAssumption, PreparationInv, NEW a \in Skills!Actors,
           Skills!Build(a), Skills!Running(a) /\ Skills!Valid(a)
    PROVE  \E s \in Skills!Slots :
             /\ \A b \in Skills!Actors : s # job[b].slot
             /\ pointer # None => s # pointer.slot
             /\ pc[a] = "build" /\ pc' = [pc EXCEPT ![a] = "check"]
             /\ job' \in [Skills!Actors -> Jobs]
             /\ \A b \in Skills!Actors \ {a} : job'[b] = job[b]
             /\ job'[a].slot = s
             /\ job'[a].rollout = job[a].rollout
             /\ job'[a].policy = job[a].policy
             /\ dirs' \in [Skills!Slots -> {None} \cup Attempts]
             /\ \A t \in Skills!Slots \ {s} : dirs'[t] = dirs[t]
             /\ dirs'[s] # None
             /\ dirs'[s].rollout = job[a].rollout
             /\ dirs'[s].policy = job[a].policy
             /\ used' \in [Skills!Slots -> Nat]
             /\ \A t \in Skills!Slots \ {s} : used'[t] = used[t]
             /\ used'[s] = 0
             /\ UNCHANGED <<Skills!world, active, pointer, Skills!locks, stopping, mishaps>>
  <1> DEFINE d == [rollout |-> job[a].rollout, policy |-> job[a].policy, recorded |-> FALSE]
  <1>1. pc[a] = "build"
    BY DEF Skills!Build
  <1>2. PICK s \in Skills!Slots :
          /\ s = Skills!Fresh
          /\ \A b \in Skills!Actors : s # job[b].slot
          /\ pointer # None => s # pointer.slot
    BY <1>1, FreshIs
  <1>3. /\ job' = [job EXCEPT ![a].slot = s]
        /\ dirs' = [dirs EXCEPT ![s] = d]
        /\ used' = [used EXCEPT ![s] = 0]
        /\ pc' = [pc EXCEPT ![a] = "check"]
        /\ UNCHANGED <<Skills!world, active, pointer, Skills!locks, stopping, mishaps>>
    BY <1>2 DEF Skills!Build, Skills!GoTo
  <1>4. /\ job \in [Skills!Actors -> Jobs]
        /\ dirs \in [Skills!Slots -> {None} \cup Attempts]
        /\ used \in [Skills!Slots -> Nat]
    BY DEF PreparationInv, Flown, Stored
  <1>5. job[a].rollout \in Rollouts
    BY <1>1 DEF PreparationInv, Flown, Decided
  <1>6. d \in Attempts /\ d # None /\ d.rollout = job[a].rollout /\ d.policy = job[a].policy
    <2>1. job[a].policy \in 0 .. MaxChanges
      BY <1>4 DEF Jobs
    <2>2. d \in Attempts
      BY <1>5, <2>1 DEF Attempts
    <2> QED
      BY <2>2 DEF Attempts, Skills!PreparationAssumption
  <1> HIDE DEF d
  <1>7. /\ job' \in [Skills!Actors -> Jobs] /\ \A b \in Skills!Actors \ {a} : job'[b] = job[b]
        /\ job'[a].slot = s /\ job'[a].rollout = job[a].rollout /\ job'[a].policy = job[a].policy
    BY <1>3, <1>4 DEF Jobs
  <1>8. /\ dirs' \in [Skills!Slots -> {None} \cup Attempts]
        /\ \A t \in Skills!Slots \ {s} : dirs'[t] = dirs[t]
        /\ dirs'[s] = d
    BY <1>3, <1>4, <1>6
  <1>9. /\ used' \in [Skills!Slots -> Nat]
        /\ \A t \in Skills!Slots \ {s} : used'[t] = used[t]
        /\ used'[s] = 0
    BY <1>3, <1>4
  <1> QED
    BY <1>1, <1>2, <1>3, <1>6, <1>7, <1>8, <1>9

\* What recording does to the attempt of the pump.
LEMMA RecordOf ==
    ASSUME Skills!PreparationAssumption, PreparationInv, Skills!Record,
           Skills!Running("pump") /\ Skills!Valid("pump")
    PROVE  \E s \in Skills!Slots :
             /\ s = job["pump"].slot
             /\ dirs' \in [Skills!Slots -> {None} \cup Attempts]
             /\ \A t \in Skills!Slots \ {s} : dirs'[t] = dirs[t]
             /\ dirs'[s] # None
             /\ dirs'[s].rollout = dirs[s].rollout
             /\ dirs'[s].policy = dirs[s].policy
             /\ dirs'[s].recorded = TRUE
             /\ pc["pump"] = "record" /\ pc' = [pc EXCEPT !["pump"] = "publish"]
             /\ UNCHANGED <<Skills!world, active, pointer, Skills!locks, stopping, job, used, mishaps>>
  <1> DEFINE mine == job["pump"].slot
  <1>1. pc["pump"] = "record"
    BY DEF Skills!Record
  <1>2. /\ mine \in Skills!Slots
        /\ dirs[mine] \in Attempts
        /\ dirs \in [Skills!Slots -> {None} \cup Attempts]
    BY <1>1 DEF PreparationInv, Flown, Stored, Built, Owning, Skills!Actors
  <1>3. /\ dirs' = [dirs EXCEPT ![mine].recorded = TRUE]
        /\ pc' = [pc EXCEPT !["pump"] = "publish"]
        /\ UNCHANGED <<Skills!world, active, pointer, Skills!locks, stopping, job, used, mishaps>>
    BY DEF Skills!Record, Skills!GoTo
  <1> HIDE DEF mine
  <1>4. /\ dirs'[mine] \in Attempts /\ \A t \in Skills!Slots \ {mine} : dirs'[t] = dirs[t]
        /\ dirs'[mine].rollout = dirs[mine].rollout
        /\ dirs'[mine].policy = dirs[mine].policy
        /\ dirs'[mine].recorded = TRUE
    BY <1>2, <1>3 DEF Attempts
  <1>5. dirs' \in [Skills!Slots -> {None} \cup Attempts]
    BY <1>2, <1>3, <1>4
  <1>6. dirs'[mine] # None
    BY <1>4 DEF Attempts, Skills!PreparationAssumption
  <1> QED
    BY <1>1, <1>2, <1>3, <1>4, <1>5, <1>6 DEF mine

\* What a take that finds its attempt does.
LEMMA TakeOf ==
    ASSUME Skills!PreparationAssumption, PreparationInv, Skills!Take,
           pointer # None /\ Skills!Whole(pointer) /\ pointer.policy = job["relay"].policy
    PROVE  /\ pointer \in Pointers /\ pointer' = None
           /\ pc["relay"] = "take" /\ pc' = [pc EXCEPT !["relay"] = "verify"]
           /\ job' \in [Skills!Actors -> Jobs]
           /\ \A b \in Skills!Actors \ {"relay"} : job'[b] = job[b]
           /\ job'["relay"].slot = pointer.slot /\ job'["relay"].rollout = pointer.rollout
           /\ job'["relay"].policy = job["relay"].policy
           /\ UNCHANGED <<Skills!world, active, dirs, Skills!locks, stopping, used, mishaps>>
  <1>1. /\ pc["relay"] = "take" /\ pc' = [pc EXCEPT !["relay"] = "verify"] /\ pointer' = None
        /\ job' = [job EXCEPT !["relay"].slot = pointer.slot, !["relay"].rollout = pointer.rollout]
        /\ UNCHANGED <<Skills!world, active, dirs, Skills!locks, stopping, used, mishaps>>
    BY DEF Skills!Take, Skills!GoTo
  <1>2. pointer \in Pointers /\ job \in [Skills!Actors -> Jobs]
    BY <1>1 DEF PreparationInv, Flown, Stored
  <1>3. /\ job' \in [Skills!Actors -> Jobs] /\ \A b \in Skills!Actors \ {"relay"} : job'[b] = job[b]
        /\ job'["relay"].slot = pointer.slot /\ job'["relay"].rollout = pointer.rollout
        /\ job'["relay"].policy = job["relay"].policy
    BY <1>1, <1>2 DEF Jobs, Pointers, Skills!Actors
  <1> QED
    BY <1>1, <1>2, <1>3

\* What the pointer names stays whole while neither of them changes.
LEMMA WholeStays ==
    ASSUME PreparationInv, pointer # None, pointer' = pointer,
           dirs'[pointer.slot] = dirs[pointer.slot]
    PROVE  Skills!Whole(pointer)'
  BY DEF PreparationInv, Built, Skills!Whole

\* A flight that removes its attempt removes nobody else's.
LEMMA DropKeeps ==
    ASSUME Skills!PreparationAssumption, PreparationInv, NEW a \in Skills!Actors,
           pc[a] \notin {"idle", "leave"}, Skills!Drop(a),
           job' = job, pointer' = pointer \/ pointer' = None
    PROVE  Built'
  <1>1. pc' = [pc EXCEPT ![a] = "leave"] /\ pc \in [Skills!Actors -> FlightSteps]
    BY DEF Skills!Drop, Skills!GoTo, PreparationInv, Flown
  <1>2. \A s \in Skills!Slots : s # job[a].slot => dirs'[s] = dirs[s]
    BY DEF Skills!Drop, PreparationInv, Stored
  <1>3. pointer # None => dirs'[pointer.slot] = dirs[pointer.slot]
    BY <1>2 DEF PreparationInv, Stored, Apart, Pointers
  <1>4. pointer' # None => Skills!Whole(pointer)'
    BY <1>3, WholeStays
  <1>5. \A b \in Skills!Actors : pc'[b] \in Owning =>
          b # a /\ pc[b] = pc'[b] /\ job[b].slot \in Skills!Slots /\ job[b].slot # job[a].slot
    BY <1>1 DEF PreparationInv, Flown, Apart, Owning, Decided, Skills!Slots
  <1> QED
    BY <1>2, <1>4, <1>5 DEF PreparationInv, Built


\* Every step keeps the types, and what a flight knows at its step.
LEMMA KeepsFlown ==
    ASSUME Skills!PreparationAssumption, PreparationInv, Skills!Next
    PROVE  Flown'
  <1>1. CASE Skills!BeginPump
    <2>1. Skills!Starts("pump", "poll")
      BY <1>1 DEF Skills!BeginPump
    <2> QED
      BY <1>1, <2>1, StartOf DEF PreparationInv, Skills!PreparationAssumption, Flown,
          Skills!BeginPump, Skills!world, Skills!Actors, Skills!Slots, FlightSteps, Owning, Decided
  <1>2. CASE Skills!BeginRelay
    BY <1>2 DEF PreparationInv, Flown, Held, Skills!BeginRelay, Skills!GoTo, Skills!world,
        Skills!Actors, Skills!Slots, FlightSteps, Owning, Decided, Jobs,
        Skills!PreparationAssumption
  <1>3. CASE Skills!Lock
    <2>1. CASE stopping
      BY <1>3, <2>1 DEF PreparationInv, Flown, Skills!Lock, Skills!GoTo, Skills!world,
          Skills!Actors, Skills!Slots, FlightSteps, Owning, Decided
    <2>2. CASE ~ stopping
      <3>1. Skills!Starts("relay", "take")
        BY <1>3, <2>2 DEF Skills!Lock
      <3> QED
        BY <1>3, <2>2, <3>1, StartOf DEF PreparationInv, Flown, Held, Skills!Lock, Skills!world,
            Skills!Actors, Skills!Slots, FlightSteps, Owning, Decided
    <2> QED
      BY <2>1, <2>2
  <1>4. CASE Skills!BeginHand
    <2>1. Skills!Starts("hand", "poll")
      BY <1>4 DEF Skills!BeginHand
    <2> QED
      BY <1>4, <2>1, StartOf DEF PreparationInv, Skills!PreparationAssumption, Flown,
          Skills!BeginHand, Skills!Actors, Skills!Slots, FlightSteps, Owning, Decided
  <1>5. ASSUME NEW a \in Skills!Actors, Skills!Poll(a) PROVE Flown'
    BY <1>5 DEF PreparationInv, Flown, Held, Skills!Poll, Skills!GoTo, Skills!world, Skills!locks,
        Skills!Actors, Skills!Slots, FlightSteps, Owning, Decided, Jobs,
        Skills!PreparationAssumption
  <1>6. ASSUME NEW a \in Skills!Actors, Skills!Build(a) PROVE Flown'
    <2>1. CASE Skills!Running(a) /\ Skills!Valid(a)
      BY <1>6, <2>1, BuildOf DEF PreparationInv, Flown, Held, Skills!world, Skills!locks,
          Skills!Actors, Skills!Slots, FlightSteps, Owning, Decided
    <2>2. CASE ~ (Skills!Running(a) /\ Skills!Valid(a))
      BY <1>6, <2>2 DEF PreparationInv, Flown, Held, Skills!Build, Skills!Give, Skills!GoTo,
          Skills!world, Skills!locks, Skills!Actors, Skills!Slots, FlightSteps, Owning, Decided,
          Jobs
    <2> QED
      BY <2>1, <2>2
  <1>7. ASSUME NEW a \in Skills!Actors, Skills!Check(a) PROVE Flown'
    BY <1>7 DEF PreparationInv, Flown, Held, Skills!Check, Skills!Drop, Skills!GoTo, Skills!world,
        Skills!locks, Skills!Actors, Skills!Slots, FlightSteps, Owning, Decided, Jobs,
        Skills!PreparationAssumption
  <1>8. CASE Skills!Record
    BY <1>8 DEF PreparationInv, Flown, Held, Skills!Record, Skills!Drop, Skills!GoTo, Skills!world,
        Skills!locks, Skills!Actors, Skills!Slots, FlightSteps, Owning, Decided, Jobs,
        Skills!PreparationAssumption
  <1>9. CASE Skills!Publish
    BY <1>9 DEF PreparationInv, Flown, Held, Skills!Publish, Skills!Give, Skills!Drop, Skills!GoTo,
        Skills!world, Skills!locks, Skills!Actors, Skills!Slots, FlightSteps, Owning, Decided, Jobs,
        Skills!PreparationAssumption
  <1>10. CASE Skills!Take
    <2>1. CASE pointer # None /\ Skills!Whole(pointer) /\ pointer.policy = job["relay"].policy
      <3>1. /\ pointer \in Pointers /\ job' \in [Skills!Actors -> Jobs]
            /\ pc["relay"] = "take" /\ pc' = [pc EXCEPT !["relay"] = "verify"]
            /\ \A b \in Skills!Actors \ {"relay"} : job'[b] = job[b]
            /\ job'["relay"].slot = pointer.slot /\ job'["relay"].rollout = pointer.rollout
            /\ UNCHANGED <<Skills!world, active, mishaps>>
        BY <1>10, <2>1, TakeOf
      <3>2. pointer.slot \in Skills!Slots /\ pointer.rollout \in Rollouts
        BY <3>1 DEF Pointers
      <3> QED
        BY <3>1, <3>2 DEF PreparationInv, Flown, Skills!world, Skills!Actors, Skills!Slots,
            FlightSteps, Owning, Decided
    <2>2. CASE ~ (pointer # None /\ Skills!Whole(pointer) /\ pointer.policy = job["relay"].policy)
      BY <1>10, <2>2 DEF PreparationInv, Flown, Skills!Take, Skills!GoTo, Skills!world,
          Skills!Actors, Skills!Slots, FlightSteps, Owning, Decided
    <2> QED
      BY <2>1, <2>2
  <1>11. CASE Skills!Verify
    BY <1>11 DEF PreparationInv, Flown, Held, Skills!Verify, Skills!Drop, Skills!GoTo, Skills!world,
        Skills!locks, Skills!Actors, Skills!Slots, FlightSteps, Owning, Decided, Jobs,
        Skills!PreparationAssumption
  <1>12. ASSUME NEW a \in {"relay", "hand"}, Skills!Install(a) PROVE Flown'
    BY <1>12 DEF PreparationInv, Flown, Held, Skills!Install, Skills!Drop, Skills!GoTo,
        Skills!world, Skills!locks, Skills!Actors, Skills!Slots, FlightSteps, Owning, Decided, Jobs,
        Skills!PreparationAssumption
  <1>13. ASSUME NEW a \in {"relay", "hand"}, Skills!Report(a) PROVE Flown'
    BY <1>13 DEF PreparationInv, Flown, Held, Skills!Report, Skills!Drop, Skills!GoTo, Skills!world,
        Skills!locks, Skills!Actors, Skills!Slots, FlightSteps, Owning, Decided, Jobs,
        Skills!PreparationAssumption
  <1>14. ASSUME NEW a \in Skills!Actors, Skills!Leave(a) PROVE Flown'
    BY <1>14 DEF PreparationInv, Flown, Held, Skills!Leave, Skills!GoTo, Skills!NoJob, Skills!world,
        Skills!Actors, Skills!Slots, FlightSteps, Owning, Decided, Jobs,
        Skills!PreparationAssumption
  <1>15. ASSUME NEW a \in Skills!Actors, Skills!Fail(a) PROVE Flown'
    BY <1>15 DEF PreparationInv, Flown, Held, Skills!Fail, Skills!Drop, Skills!GoTo, Skills!world,
        Skills!locks, Skills!Actors, Skills!Slots, FlightSteps, Owning, Decided, Jobs,
        Skills!PreparationAssumption
  <1>16. CASE Skills!Crash
    BY <1>16 DEF PreparationInv, Flown, Held, Skills!Crash, Skills!Dies, Skills!NoJob, Skills!world,
        Skills!Actors, Skills!Slots, FlightSteps, Owning, Decided, Jobs,
        Skills!PreparationAssumption
  <1>17. CASE Skills!CrashHand
    BY <1>17 DEF PreparationInv, Flown, Held, Skills!CrashHand, Skills!Dies, Skills!NoJob,
        Skills!world, Skills!Actors, Skills!Slots, FlightSteps, Owning, Decided, Jobs,
        Skills!PreparationAssumption
  <1>18. CASE Skills!Stop
    BY <1>18 DEF PreparationInv, Flown, Held, Skills!Stop, Skills!locks, Skills!Actors,
        Skills!Slots, FlightSteps, Owning, Decided, Jobs, Skills!PreparationAssumption
  <1>19. CASE Skills!Restart
    BY <1>19 DEF PreparationInv, Flown, Held, Skills!Restart, Skills!world, Skills!locks,
        Skills!Actors, Skills!Slots, FlightSteps, Owning, Decided, Jobs,
        Skills!PreparationAssumption
  <1>20. CASE Skills!Change
    BY <1>20 DEF PreparationInv, Flown, Held, Skills!Change, Skills!locks, Skills!Actors,
        Skills!Slots, FlightSteps, Owning, Decided, Jobs, Skills!PreparationAssumption
  <1>q. QED
    BY <1>1, <1>2, <1>3, <1>4, <1>5, <1>6, <1>7, <1>8, <1>9, <1>10, <1>11, <1>12, <1>13, <1>14,
        <1>15, <1>16, <1>17, <1>18, <1>19, <1>20 DEF Skills!Next, Skills!Pump, Skills!Relay,
        Skills!Hand, Skills!Prepare, Skills!Actors

\* Attempts, pointers and counts keep their shape.
LEMMA KeepsStored ==
    ASSUME Skills!PreparationAssumption, PreparationInv, Skills!Next
    PROVE  Stored'
  <1>1. CASE Skills!BeginPump
    BY <1>1 DEF PreparationInv, Flown, Stored, Skills!BeginPump, Skills!Starts, Skills!GoTo,
        Skills!NoJob, Skills!world, Skills!Actors, Skills!Slots, FlightSteps, Owning, Decided,
        Attempts, Pointers, Jobs
  <1>2. CASE Skills!BeginRelay
    BY <1>2 DEF PreparationInv, Flown, Stored, Skills!BeginRelay, Skills!GoTo, Skills!world,
        Skills!Actors, Skills!Slots, FlightSteps, Owning, Decided, Attempts, Pointers, Jobs
  <1>3. CASE Skills!Lock
    BY <1>3 DEF PreparationInv, Flown, Stored, Skills!Lock, Skills!Starts, Skills!GoTo,
        Skills!NoJob, Skills!world, Skills!Actors, Skills!Slots, FlightSteps, Owning, Decided,
        Attempts, Pointers, Jobs
  <1>4. CASE Skills!BeginHand
    BY <1>4 DEF PreparationInv, Flown, Stored, Skills!BeginHand, Skills!Starts, Skills!GoTo,
        Skills!NoJob, Skills!Actors, Skills!Slots, FlightSteps, Owning, Decided, Attempts, Pointers,
        Jobs
  <1>5. ASSUME NEW a \in Skills!Actors, Skills!Poll(a) PROVE Stored'
    BY <1>5 DEF PreparationInv, Flown, Stored, Skills!Poll, Skills!GoTo, Skills!world, Skills!locks,
        Skills!Actors, Skills!Slots, FlightSteps, Owning, Decided, Attempts, Pointers, Jobs
  <1>6. ASSUME NEW a \in Skills!Actors, Skills!Build(a) PROVE Stored'
    <2>1. CASE Skills!Running(a) /\ Skills!Valid(a)
      BY <1>6, <2>1, BuildOf DEF PreparationInv, Flown, Stored, Skills!world, Skills!locks,
          Skills!Actors, Skills!Slots, FlightSteps, Owning, Decided
    <2>2. CASE ~ (Skills!Running(a) /\ Skills!Valid(a))
      BY <1>6, <2>2 DEF PreparationInv, Flown, Stored, Skills!Build, Skills!Give, Skills!GoTo,
          Skills!world, Skills!locks, Skills!Actors, Skills!Slots, FlightSteps, Owning, Decided,
          Jobs
    <2> QED
      BY <2>1, <2>2
  <1>7. ASSUME NEW a \in Skills!Actors, Skills!Check(a) PROVE Stored'
    BY <1>7 DEF PreparationInv, Flown, Stored, Skills!Check, Skills!Drop, Skills!GoTo, Skills!world,
        Skills!locks, Skills!Actors, Skills!Slots, FlightSteps, Owning, Decided, Attempts, Pointers,
        Jobs
  <1>8. CASE Skills!Record
    <2>1. CASE Skills!Running("pump") /\ Skills!Valid("pump")
      BY <1>8, <2>1, RecordOf DEF PreparationInv, Flown, Stored, Skills!world, Skills!locks,
          Skills!Actors, Skills!Slots, FlightSteps, Owning, Decided
    <2>2. CASE ~ (Skills!Running("pump") /\ Skills!Valid("pump"))
      BY <1>8, <2>2 DEF PreparationInv, Flown, Stored, Skills!Record, Skills!Drop, Skills!GoTo,
          Skills!world, Skills!locks, Skills!Actors, Skills!Slots, FlightSteps, Owning, Decided,
          Jobs
    <2> QED
      BY <2>1, <2>2
  <1>9. CASE Skills!Publish
    BY <1>9 DEF PreparationInv, Flown, Stored, Skills!Publish, Skills!Give, Skills!Drop,
        Skills!GoTo, Skills!world, Skills!locks, Skills!Actors, Skills!Slots, FlightSteps, Owning,
        Decided, Attempts, Pointers, Jobs
  <1>10. CASE Skills!Take
    BY <1>10 DEF PreparationInv, Flown, Stored, Skills!Take, Skills!Whole, Skills!GoTo,
        Skills!world, Skills!locks, Skills!Actors, Skills!Slots, FlightSteps, Owning, Decided,
        Attempts, Pointers, Jobs
  <1>11. CASE Skills!Verify
    BY <1>11 DEF PreparationInv, Flown, Stored, Skills!Verify, Skills!Drop, Skills!GoTo,
        Skills!world, Skills!locks, Skills!Actors, Skills!Slots, FlightSteps, Owning, Decided,
        Attempts, Pointers, Jobs
  <1>12. ASSUME NEW a \in {"relay", "hand"}, Skills!Install(a) PROVE Stored'
    BY <1>12 DEF PreparationInv, Flown, Stored, Skills!Install, Skills!Drop, Skills!GoTo,
        Skills!world, Skills!locks, Skills!Actors, Skills!Slots, FlightSteps, Owning, Decided,
        Attempts, Pointers, Jobs
  <1>13. ASSUME NEW a \in {"relay", "hand"}, Skills!Report(a) PROVE Stored'
    BY <1>13 DEF PreparationInv, Flown, Stored, Skills!Report, Skills!Drop, Skills!GoTo,
        Skills!world, Skills!locks, Skills!Actors, Skills!Slots, FlightSteps, Owning, Decided,
        Attempts, Pointers, Jobs
  <1>14. ASSUME NEW a \in Skills!Actors, Skills!Leave(a) PROVE Stored'
    BY <1>14 DEF PreparationInv, Flown, Stored, Skills!Leave, Skills!GoTo, Skills!NoJob,
        Skills!world, Skills!Actors, Skills!Slots, FlightSteps, Owning, Decided, Attempts, Pointers,
        Jobs
  <1>15. ASSUME NEW a \in Skills!Actors, Skills!Fail(a) PROVE Stored'
    BY <1>15 DEF PreparationInv, Flown, Stored, Skills!Fail, Skills!Drop, Skills!GoTo, Skills!world,
        Skills!locks, Skills!Actors, Skills!Slots, FlightSteps, Owning, Decided, Attempts, Pointers,
        Jobs
  <1>16. CASE Skills!Crash
    BY <1>16 DEF PreparationInv, Flown, Stored, Skills!Crash, Skills!Dies, Skills!NoJob,
        Skills!world, Skills!Actors, Skills!Slots, FlightSteps, Owning, Decided, Attempts, Pointers,
        Jobs
  <1>17. CASE Skills!CrashHand
    BY <1>17 DEF PreparationInv, Flown, Stored, Skills!CrashHand, Skills!Dies, Skills!NoJob,
        Skills!world, Skills!Actors, Skills!Slots, FlightSteps, Owning, Decided, Attempts, Pointers,
        Jobs
  <1>18. CASE Skills!Stop
    BY <1>18 DEF PreparationInv, Flown, Stored, Skills!Stop, Skills!locks, Skills!Actors,
        Skills!Slots, FlightSteps, Owning, Decided, Attempts, Pointers, Jobs
  <1>19. CASE Skills!Restart
    BY <1>19 DEF PreparationInv, Flown, Stored, Skills!Restart, Skills!world, Skills!locks,
        Skills!Actors, Skills!Slots, FlightSteps, Owning, Decided, Attempts, Pointers, Jobs
  <1>20. CASE Skills!Change
    BY <1>20 DEF PreparationInv, Flown, Stored, Skills!Change, Skills!locks, Skills!Actors,
        Skills!Slots, FlightSteps, Owning, Decided, Attempts, Pointers, Jobs
  <1>q. QED
    BY <1>1, <1>2, <1>3, <1>4, <1>5, <1>6, <1>7, <1>8, <1>9, <1>10, <1>11, <1>12, <1>13, <1>14,
        <1>15, <1>16, <1>17, <1>18, <1>19, <1>20 DEF Skills!Next, Skills!Pump, Skills!Relay,
        Skills!Hand, Skills!Prepare, Skills!Actors

\* Locks are taken at the start of a flight and given back at its end or death.
LEMMA KeepsHeld ==
    ASSUME Skills!PreparationAssumption, PreparationInv, Skills!Next
    PROVE  Held'
  <1>1. CASE Skills!BeginPump
    BY <1>1 DEF PreparationInv, Flown, Held, Skills!BeginPump, Skills!Starts, Skills!GoTo,
        Skills!NoJob, Skills!world, Skills!Actors, Skills!Slots, FlightSteps, Owning, Decided,
        Skills!PreparationAssumption
  <1>2. CASE Skills!BeginRelay
    BY <1>2 DEF PreparationInv, Flown, Held, Skills!BeginRelay, Skills!GoTo, Skills!world,
        Skills!Actors, Skills!Slots, FlightSteps, Owning, Decided, Skills!PreparationAssumption
  <1>3. CASE Skills!Lock
    BY <1>3 DEF PreparationInv, Flown, Held, Skills!Lock, Skills!Starts, Skills!GoTo, Skills!NoJob,
        Skills!world, Skills!Actors, Skills!Slots, FlightSteps, Owning, Decided,
        Skills!PreparationAssumption
  <1>4. CASE Skills!BeginHand
    BY <1>4 DEF PreparationInv, Flown, Held, Skills!BeginHand, Skills!Starts, Skills!GoTo,
        Skills!NoJob, Skills!Actors, Skills!Slots, FlightSteps, Owning, Decided,
        Skills!PreparationAssumption
  <1>5. ASSUME NEW a \in Skills!Actors, Skills!Poll(a) PROVE Held'
    BY <1>5 DEF PreparationInv, Flown, Held, Skills!Poll, Skills!GoTo, Skills!world, Skills!locks,
        Skills!Actors, Skills!Slots, FlightSteps, Owning, Decided, Skills!PreparationAssumption
  <1>6. ASSUME NEW a \in Skills!Actors, Skills!Build(a) PROVE Held'
    BY <1>6 DEF PreparationInv, Flown, Held, Skills!Build, Skills!Give, Skills!GoTo, Skills!world,
        Skills!locks, Skills!Actors, Skills!Slots, FlightSteps, Owning, Decided,
        Skills!PreparationAssumption
  <1>7. ASSUME NEW a \in Skills!Actors, Skills!Check(a) PROVE Held'
    BY <1>7 DEF PreparationInv, Flown, Held, Skills!Check, Skills!Drop, Skills!GoTo, Skills!world,
        Skills!locks, Skills!Actors, Skills!Slots, FlightSteps, Owning, Decided,
        Skills!PreparationAssumption
  <1>8. CASE Skills!Record
    BY <1>8 DEF PreparationInv, Flown, Held, Skills!Record, Skills!Drop, Skills!GoTo, Skills!world,
        Skills!locks, Skills!Actors, Skills!Slots, FlightSteps, Owning, Decided,
        Skills!PreparationAssumption
  <1>9. CASE Skills!Publish
    BY <1>9 DEF PreparationInv, Flown, Held, Skills!Publish, Skills!Give, Skills!Drop, Skills!GoTo,
        Skills!world, Skills!locks, Skills!Actors, Skills!Slots, FlightSteps, Owning, Decided,
        Skills!PreparationAssumption
  <1>10. CASE Skills!Take
    BY <1>10 DEF PreparationInv, Flown, Held, Skills!Take, Skills!Whole, Skills!GoTo, Skills!world,
        Skills!locks, Skills!Actors, Skills!Slots, FlightSteps, Owning, Decided,
        Skills!PreparationAssumption
  <1>11. CASE Skills!Verify
    BY <1>11 DEF PreparationInv, Flown, Held, Skills!Verify, Skills!Drop, Skills!GoTo, Skills!world,
        Skills!locks, Skills!Actors, Skills!Slots, FlightSteps, Owning, Decided,
        Skills!PreparationAssumption
  <1>12. ASSUME NEW a \in {"relay", "hand"}, Skills!Install(a) PROVE Held'
    BY <1>12 DEF PreparationInv, Flown, Held, Skills!Install, Skills!Drop, Skills!GoTo,
        Skills!world, Skills!locks, Skills!Actors, Skills!Slots, FlightSteps, Owning, Decided,
        Skills!PreparationAssumption
  <1>13. ASSUME NEW a \in {"relay", "hand"}, Skills!Report(a) PROVE Held'
    BY <1>13 DEF PreparationInv, Flown, Held, Skills!Report, Skills!Drop, Skills!GoTo, Skills!world,
        Skills!locks, Skills!Actors, Skills!Slots, FlightSteps, Owning, Decided,
        Skills!PreparationAssumption
  <1>14. ASSUME NEW a \in Skills!Actors, Skills!Leave(a) PROVE Held'
    BY <1>14 DEF PreparationInv, Flown, Held, Skills!Leave, Skills!GoTo, Skills!NoJob, Skills!world,
        Skills!Actors, Skills!Slots, FlightSteps, Owning, Decided, Skills!PreparationAssumption
  <1>15. ASSUME NEW a \in Skills!Actors, Skills!Fail(a) PROVE Held'
    BY <1>15 DEF PreparationInv, Flown, Held, Skills!Fail, Skills!Drop, Skills!GoTo, Skills!world,
        Skills!locks, Skills!Actors, Skills!Slots, FlightSteps, Owning, Decided,
        Skills!PreparationAssumption
  <1>16. CASE Skills!Crash
    BY <1>16 DEF PreparationInv, Flown, Held, Skills!Crash, Skills!Dies, Skills!NoJob, Skills!world,
        Skills!Actors, Skills!Slots, FlightSteps, Owning, Decided, Skills!PreparationAssumption
  <1>17. CASE Skills!CrashHand
    BY <1>17 DEF PreparationInv, Flown, Held, Skills!CrashHand, Skills!Dies, Skills!NoJob,
        Skills!world, Skills!Actors, Skills!Slots, FlightSteps, Owning, Decided,
        Skills!PreparationAssumption
  <1>18. CASE Skills!Stop
    BY <1>18 DEF PreparationInv, Flown, Held, Skills!Stop, Skills!locks, Skills!Actors,
        Skills!Slots, FlightSteps, Owning, Decided, Skills!PreparationAssumption
  <1>19. CASE Skills!Restart
    BY <1>19 DEF PreparationInv, Flown, Held, Skills!Restart, Skills!world, Skills!locks,
        Skills!Actors, Skills!Slots, FlightSteps, Owning, Decided, Skills!PreparationAssumption
  <1>20. CASE Skills!Change
    BY <1>20 DEF PreparationInv, Flown, Held, Skills!Change, Skills!locks, Skills!Actors,
        Skills!Slots, FlightSteps, Owning, Decided, Skills!PreparationAssumption
  <1>q. QED
    BY <1>1, <1>2, <1>3, <1>4, <1>5, <1>6, <1>7, <1>8, <1>9, <1>10, <1>11, <1>12, <1>13, <1>14,
        <1>15, <1>16, <1>17, <1>18, <1>19, <1>20 DEF Skills!Next, Skills!Pump, Skills!Relay,
        Skills!Hand, Skills!Prepare, Skills!Actors

\* A new directory is nobody's, and a take moves the attempt from the pointer to the relay.
LEMMA KeepsApart ==
    ASSUME Skills!PreparationAssumption, PreparationInv, Skills!Next
    PROVE  Apart'
  <1>1. CASE Skills!BeginPump
    BY <1>1 DEF PreparationInv, Flown, Stored, Held, Apart, Skills!BeginPump, Skills!Starts,
        Skills!GoTo, Skills!NoJob, Skills!world, Skills!Actors, Skills!Slots, FlightSteps, Owning,
        Decided, Pointers, Jobs
  <1>2. CASE Skills!BeginRelay
    BY <1>2 DEF PreparationInv, Flown, Stored, Held, Apart, Skills!BeginRelay, Skills!GoTo,
        Skills!world, Skills!Actors, Skills!Slots, FlightSteps, Owning, Decided, Pointers, Jobs
  <1>3. CASE Skills!Lock
    <2>1. CASE stopping
      BY <1>3, <2>1 DEF PreparationInv, Flown, Stored, Apart, Pointers, Skills!Lock, Skills!GoTo,
          Skills!world, Skills!Actors, Skills!Slots, FlightSteps, Owning, Decided
    <2>2. CASE ~ stopping
      <3>1. Skills!Starts("relay", "take")
        BY <1>3, <2>2 DEF Skills!Lock
      <3> QED
        BY <1>3, <2>2, <3>1, StartOf DEF PreparationInv, Flown, Stored, Apart, Pointers, Held,
            Skills!Lock, Skills!world, Skills!Actors, Skills!Slots, FlightSteps, Owning, Decided
    <2> QED
      BY <2>1, <2>2
  <1>4. CASE Skills!BeginHand
    BY <1>4 DEF PreparationInv, Flown, Stored, Held, Apart, Skills!BeginHand, Skills!Starts,
        Skills!GoTo, Skills!NoJob, Skills!Actors, Skills!Slots, FlightSteps, Owning, Decided,
        Pointers, Jobs
  <1>5. ASSUME NEW a \in Skills!Actors, Skills!Poll(a) PROVE Apart'
    BY <1>5 DEF PreparationInv, Flown, Stored, Held, Apart, Skills!Poll, Skills!GoTo, Skills!world,
        Skills!locks, Skills!Actors, Skills!Slots, FlightSteps, Owning, Decided, Pointers, Jobs
  <1>6. ASSUME NEW a \in Skills!Actors, Skills!Build(a) PROVE Apart'
    <2>1. CASE Skills!Running(a) /\ Skills!Valid(a)
      BY <1>6, <2>1, BuildOf DEF PreparationInv, Flown, Stored, Apart, Pointers, Held, Skills!world,
          Skills!locks, Skills!Actors, Skills!Slots, FlightSteps, Owning, Decided
    <2>2. CASE ~ (Skills!Running(a) /\ Skills!Valid(a))
      BY <1>6, <2>2 DEF PreparationInv, Flown, Stored, Apart, Pointers, Held, Skills!Build,
          Skills!Give, Skills!GoTo, Skills!world, Skills!locks, Skills!Actors, Skills!Slots,
          FlightSteps, Owning, Decided, Jobs
    <2> QED
      BY <2>1, <2>2
  <1>7. ASSUME NEW a \in Skills!Actors, Skills!Check(a) PROVE Apart'
    BY <1>7 DEF PreparationInv, Flown, Stored, Held, Apart, Skills!Check, Skills!Drop, Skills!GoTo,
        Skills!world, Skills!locks, Skills!Actors, Skills!Slots, FlightSteps, Owning, Decided,
        Pointers, Jobs
  <1>8. CASE Skills!Record
    BY <1>8 DEF PreparationInv, Flown, Stored, Held, Apart, Skills!Record, Skills!Drop, Skills!GoTo,
        Skills!world, Skills!locks, Skills!Actors, Skills!Slots, FlightSteps, Owning, Decided,
        Pointers, Jobs
  <1>9. CASE Skills!Publish
    BY <1>9 DEF PreparationInv, Flown, Stored, Held, Apart, Skills!Publish, Skills!Give,
        Skills!Drop, Skills!GoTo, Skills!world, Skills!locks, Skills!Actors, Skills!Slots,
        FlightSteps, Owning, Decided, Pointers, Jobs
  <1>10. CASE Skills!Take
    BY <1>10 DEF PreparationInv, Flown, Stored, Held, Apart, Skills!Take, Skills!Whole, Skills!GoTo,
        Skills!world, Skills!locks, Skills!Actors, Skills!Slots, FlightSteps, Owning, Decided,
        Pointers, Jobs
  <1>11. CASE Skills!Verify
    BY <1>11 DEF PreparationInv, Flown, Stored, Held, Apart, Skills!Verify, Skills!Drop,
        Skills!GoTo, Skills!world, Skills!locks, Skills!Actors, Skills!Slots, FlightSteps, Owning,
        Decided, Pointers, Jobs
  <1>12. ASSUME NEW a \in {"relay", "hand"}, Skills!Install(a) PROVE Apart'
    BY <1>12 DEF PreparationInv, Flown, Stored, Held, Apart, Skills!Install, Skills!Drop,
        Skills!GoTo, Skills!world, Skills!locks, Skills!Actors, Skills!Slots, FlightSteps, Owning,
        Decided, Pointers, Jobs
  <1>13. ASSUME NEW a \in {"relay", "hand"}, Skills!Report(a) PROVE Apart'
    BY <1>13 DEF PreparationInv, Flown, Stored, Held, Apart, Skills!Report, Skills!Drop,
        Skills!GoTo, Skills!world, Skills!locks, Skills!Actors, Skills!Slots, FlightSteps, Owning,
        Decided, Pointers, Jobs
  <1>14. ASSUME NEW a \in Skills!Actors, Skills!Leave(a) PROVE Apart'
    BY <1>14 DEF PreparationInv, Flown, Stored, Held, Apart, Skills!Leave, Skills!GoTo,
        Skills!NoJob, Skills!world, Skills!Actors, Skills!Slots, FlightSteps, Owning, Decided,
        Pointers, Jobs
  <1>15. ASSUME NEW a \in Skills!Actors, Skills!Fail(a) PROVE Apart'
    BY <1>15 DEF PreparationInv, Flown, Stored, Held, Apart, Skills!Fail, Skills!Drop, Skills!GoTo,
        Skills!world, Skills!locks, Skills!Actors, Skills!Slots, FlightSteps, Owning, Decided,
        Pointers, Jobs
  <1>16. CASE Skills!Crash
    BY <1>16 DEF PreparationInv, Flown, Stored, Held, Apart, Skills!Crash, Skills!Dies,
        Skills!NoJob, Skills!world, Skills!Actors, Skills!Slots, FlightSteps, Owning, Decided,
        Pointers, Jobs
  <1>17. CASE Skills!CrashHand
    BY <1>17 DEF PreparationInv, Flown, Stored, Held, Apart, Skills!CrashHand, Skills!Dies,
        Skills!NoJob, Skills!world, Skills!Actors, Skills!Slots, FlightSteps, Owning, Decided,
        Pointers, Jobs
  <1>18. CASE Skills!Stop
    BY <1>18 DEF PreparationInv, Flown, Stored, Held, Apart, Skills!Stop, Skills!locks,
        Skills!Actors, Skills!Slots, FlightSteps, Owning, Decided, Pointers, Jobs
  <1>19. CASE Skills!Restart
    BY <1>19 DEF PreparationInv, Flown, Stored, Held, Apart, Skills!Restart, Skills!world,
        Skills!locks, Skills!Actors, Skills!Slots, FlightSteps, Owning, Decided, Pointers, Jobs
  <1>20. CASE Skills!Change
    BY <1>20 DEF PreparationInv, Flown, Stored, Held, Apart, Skills!Change, Skills!locks,
        Skills!Actors, Skills!Slots, FlightSteps, Owning, Decided, Pointers, Jobs
  <1>q. QED
    BY <1>1, <1>2, <1>3, <1>4, <1>5, <1>6, <1>7, <1>8, <1>9, <1>10, <1>11, <1>12, <1>13, <1>14,
        <1>15, <1>16, <1>17, <1>18, <1>19, <1>20 DEF Skills!Next, Skills!Pump, Skills!Relay,
        Skills!Hand, Skills!Prepare, Skills!Actors

\* An attempt is recorded before it is published, and only its flight removes it.
LEMMA KeepsBuilt ==
    ASSUME Skills!PreparationAssumption, PreparationInv, Skills!Next
    PROVE  Built'
  <1>1. CASE Skills!BeginPump
    BY <1>1 DEF PreparationInv, Flown, Stored, Held, Apart, Built, Skills!Whole, Skills!BeginPump,
        Skills!Starts, Skills!GoTo, Skills!NoJob, Skills!world, Skills!Actors, Skills!Slots,
        FlightSteps, Owning, Decided, Attempts, Pointers, Jobs
  <1>2. CASE Skills!BeginRelay
    BY <1>2 DEF PreparationInv, Flown, Stored, Held, Apart, Built, Skills!Whole, Skills!BeginRelay,
        Skills!GoTo, Skills!world, Skills!Actors, Skills!Slots, FlightSteps, Owning, Decided,
        Attempts, Pointers, Jobs
  <1>3. CASE Skills!Lock
    BY <1>3 DEF PreparationInv, Flown, Stored, Held, Apart, Built, Skills!Whole, Skills!Lock,
        Skills!Starts, Skills!GoTo, Skills!NoJob, Skills!world, Skills!Actors, Skills!Slots,
        FlightSteps, Owning, Decided, Attempts, Pointers, Jobs
  <1>4. CASE Skills!BeginHand
    BY <1>4 DEF PreparationInv, Flown, Stored, Held, Apart, Built, Skills!Whole, Skills!BeginHand,
        Skills!Starts, Skills!GoTo, Skills!NoJob, Skills!Actors, Skills!Slots, FlightSteps, Owning,
        Decided, Attempts, Pointers, Jobs
  <1>5. ASSUME NEW a \in Skills!Actors, Skills!Poll(a) PROVE Built'
    BY <1>5 DEF PreparationInv, Flown, Stored, Held, Apart, Built, Skills!Whole, Skills!Poll,
        Skills!GoTo, Skills!world, Skills!locks, Skills!Actors, Skills!Slots, FlightSteps, Owning,
        Decided, Attempts, Pointers, Jobs
  <1>6. ASSUME NEW a \in Skills!Actors, Skills!Build(a) PROVE Built'
    <2>1. CASE Skills!Running(a) /\ Skills!Valid(a)
      <3>1. PICK s \in Skills!Slots :
              /\ \A b \in Skills!Actors : s # job[b].slot
              /\ pc' = [pc EXCEPT ![a] = "check"]
              /\ \A b \in Skills!Actors \ {a} : job'[b] = job[b]
              /\ job'[a].slot = s
              /\ job'[a].rollout = job[a].rollout
              /\ job'[a].policy = job[a].policy
              /\ \A t \in Skills!Slots \ {s} : dirs'[t] = dirs[t] /\ used'[t] = used[t]
              /\ dirs'[s] # None
              /\ dirs'[s].rollout = job[a].rollout
              /\ dirs'[s].policy = job[a].policy
              /\ used'[s] = 0
        BY <1>6, <2>1, BuildOf
      <3>2. \A b \in Skills!Actors \ {a} : pc'[b] \in Owning =>
              pc'[b] = pc[b] /\ job'[b] = job[b] /\ dirs'[job[b].slot] = dirs[job[b].slot]
        BY <3>1 DEF PreparationInv, Flown, Skills!Actors, Skills!Slots, FlightSteps, Owning, Decided
      <3>3. /\ dirs'[job'[a].slot] # None
            /\ dirs'[job'[a].slot].rollout = job'[a].rollout
            /\ dirs'[job'[a].slot].policy = job'[a].policy
            /\ pc'[a] = "publish" => dirs'[job'[a].slot].recorded = TRUE
        BY <3>1 DEF PreparationInv, Flown
      <3>4. \A b \in Skills!Actors : pc'[b] \in Owning =>
              /\ dirs'[job'[b].slot] # None
              /\ dirs'[job'[b].slot].rollout = job'[b].rollout
              /\ dirs'[job'[b].slot].policy = job'[b].policy
              /\ pc'[b] = "publish" => dirs'[job'[b].slot].recorded = TRUE
        BY <3>2, <3>3 DEF PreparationInv, Built, Skills!Actors
      <3>5. pointer # None => dirs'[pointer.slot] = dirs[pointer.slot]
        BY <1>6, <2>1, BuildOf DEF PreparationInv, Stored, Pointers
      <3>6. pointer' = pointer
        BY <1>6 DEF Skills!Build
      <3> QED
        BY <3>4, <3>5, <3>6, WholeStays DEF Built
    <2>2. CASE ~ (Skills!Running(a) /\ Skills!Valid(a))
      <3>1. /\ pc[a] = "build" /\ pc' = [pc EXCEPT ![a] = "leave"]
            /\ UNCHANGED <<dirs, pointer, job>>
        BY <1>6, <2>2 DEF Skills!Build, Skills!Give, Skills!GoTo
      <3>2. pointer # None => Skills!Whole(pointer)'
        BY <3>1, WholeStays
      <3> QED
        BY <3>1, <3>2 DEF PreparationInv, Flown, Stored, Apart, Built, Skills!Actors, Skills!Slots,
            FlightSteps, Owning, Decided
    <2> QED
      BY <2>1, <2>2
  <1>7. ASSUME NEW a \in Skills!Actors, Skills!Check(a) PROVE Built'
    BY <1>7 DEF PreparationInv, Flown, Stored, Held, Apart, Built, Skills!Whole, Skills!Check,
        Skills!Drop, Skills!GoTo, Skills!world, Skills!locks, Skills!Actors, Skills!Slots,
        FlightSteps, Owning, Decided, Attempts, Pointers, Jobs
  <1>8. CASE Skills!Record
    <2>1. CASE Skills!Running("pump") /\ Skills!Valid("pump")
      <3>1. PICK s \in Skills!Slots :
              /\ s = job["pump"].slot /\ job' = job
              /\ \A t \in Skills!Slots \ {s} : dirs'[t] = dirs[t]
              /\ dirs'[s] # None
              /\ dirs'[s].rollout = dirs[s].rollout
              /\ dirs'[s].policy = dirs[s].policy
              /\ dirs'[s].recorded = TRUE
              /\ pc["pump"] = "record" /\ pc' = [pc EXCEPT !["pump"] = "publish"]
        BY <1>8, <2>1, RecordOf
      <3>2. \A b \in Skills!Actors \ {"pump"} : pc'[b] \in Owning =>
              pc'[b] = pc[b] /\ job'[b] = job[b] /\ dirs'[job[b].slot] = dirs[job[b].slot]
        BY <3>1 DEF PreparationInv, Flown, Apart, Skills!Actors, Skills!Slots, FlightSteps, Owning,
            Decided
      <3>3. /\ dirs'[job'["pump"].slot] # None
            /\ dirs'[job'["pump"].slot].rollout = job'["pump"].rollout
            /\ dirs'[job'["pump"].slot].policy = job'["pump"].policy
            /\ pc'["pump"] = "publish" => dirs'[job'["pump"].slot].recorded = TRUE
        BY <3>1 DEF PreparationInv, Built, Owning, Skills!Actors
      <3>4. \A b \in Skills!Actors : pc'[b] \in Owning =>
              /\ dirs'[job'[b].slot] # None
              /\ dirs'[job'[b].slot].rollout = job'[b].rollout
              /\ dirs'[job'[b].slot].policy = job'[b].policy
              /\ pc'[b] = "publish" => dirs'[job'[b].slot].recorded = TRUE
        BY <3>2, <3>3 DEF PreparationInv, Built, Skills!Actors
      <3>5. pointer # None => dirs'[pointer.slot] = dirs[pointer.slot]
        BY <1>8, <2>1, RecordOf DEF PreparationInv, Flown, Stored, Apart, Pointers, Skills!Actors,
            Skills!Slots, FlightSteps, Owning, Decided
      <3>6. pointer' = pointer
        BY <1>8 DEF Skills!Record
      <3> QED
        BY <3>4, <3>5, <3>6, WholeStays DEF Built
    <2>2. CASE ~ (Skills!Running("pump") /\ Skills!Valid("pump"))
      <3>1. Skills!Drop("pump") /\ pc["pump"] = "record" /\ UNCHANGED <<pointer, job>>
        BY <1>8, <2>2 DEF Skills!Record
      <3> QED
        BY <3>1, DropKeeps DEF Owning, Skills!Actors
    <2> QED
      BY <2>1, <2>2
  <1>9. CASE Skills!Publish
    <2> DEFINE p == [slot |-> job["pump"].slot, rollout |-> job["pump"].rollout,
                     policy |-> job["pump"].policy]
    <2> DEFINE Publishes == /\ Skills!Running("pump") /\ Skills!Valid("pump")
                            /\ pointer # None => dirs[pointer.slot] # None
    <2>1. CASE Publishes
      <3>1. /\ pc["pump"] = "publish" /\ pointer' = p /\ pc' = [pc EXCEPT !["pump"] = "leave"]
            /\ UNCHANGED <<dirs, job>>
        BY <1>9, <2>1 DEF Skills!Publish, Skills!Give, Skills!GoTo
      <3>2. dirs[p.slot] \in Attempts /\ dirs[p.slot].recorded = TRUE
            /\ dirs[p.slot].rollout = p.rollout /\ dirs[p.slot].policy = p.policy
        BY <3>1 DEF PreparationInv, Flown, Stored, Built, Skills!Actors, Skills!Slots, FlightSteps,
            Owning, Decided
      <3>3. dirs[p.slot] = [rollout |-> p.rollout, policy |-> p.policy, recorded |-> TRUE]
        BY <3>2 DEF Attempts
      <3>4. Skills!Whole(pointer)'
        BY <3>1, <3>3 DEF Skills!Whole
      <3> HIDE DEF p
      <3> QED
        BY <3>1, <3>4 DEF PreparationInv, Flown, Built, Skills!Actors, Skills!Slots, FlightSteps,
            Owning, Decided
    <2>2. CASE ~ Publishes
      <3>1. Skills!Drop("pump") /\ pc["pump"] = "publish" /\ UNCHANGED <<pointer, job>>
        BY <1>9, <2>2 DEF Skills!Publish
      <3> QED
        BY <3>1, DropKeeps DEF Owning, Skills!Actors
    <2> QED
      BY <2>1, <2>2
  <1>10. CASE Skills!Take
    <2>1. CASE pointer # None /\ Skills!Whole(pointer) /\ pointer.policy = job["relay"].policy
      <3>1. dirs[pointer.slot] \in Attempts
        <4>1. pointer \in Pointers
          BY <2>1 DEF PreparationInv, Stored
        <4>2. [rollout |-> pointer.rollout, policy |-> pointer.policy, recorded |-> TRUE] \in Attempts
          BY <4>1 DEF Pointers, Attempts
        <4> QED
          BY <2>1, <4>2 DEF Skills!Whole
      <3>2. /\ dirs[pointer.slot] # None
            /\ dirs[pointer.slot].rollout = pointer.rollout
            /\ dirs[pointer.slot].policy = pointer.policy
        <4>1. dirs[pointer.slot] # None
          BY <3>1 DEF Attempts, Skills!PreparationAssumption
        <4>2. /\ dirs[pointer.slot].rollout = pointer.rollout
              /\ dirs[pointer.slot].policy = pointer.policy
          BY <2>1 DEF Skills!Whole
        <4> QED
          BY <4>1, <4>2
      <3>3. /\ dirs' = dirs /\ pointer' = None /\ pc' = [pc EXCEPT !["relay"] = "verify"]
            /\ \A b \in Skills!Actors \ {"relay"} : job'[b] = job[b]
            /\ job'["relay"].slot = pointer.slot /\ job'["relay"].rollout = pointer.rollout
            /\ job'["relay"].policy = pointer.policy
        BY <1>10, <2>1, TakeOf
      <3> QED
        BY <3>2, <3>3 DEF PreparationInv, Flown, Built, Skills!Actors
    <2>2. CASE ~ (pointer # None /\ Skills!Whole(pointer) /\ pointer.policy = job["relay"].policy)
      <3>1. /\ pc' = [pc EXCEPT !["relay"] = "poll"] \/ pc' = [pc EXCEPT !["relay"] = "leave"]
            /\ UNCHANGED <<dirs, pointer, job>>
        BY <1>10, <2>2 DEF Skills!Take, Skills!GoTo
      <3>2. pointer # None => Skills!Whole(pointer)'
        BY <3>1, WholeStays
      <3> QED
        BY <3>1, <3>2 DEF PreparationInv, Flown, Built, Skills!Actors, Skills!Slots, FlightSteps,
            Owning, Decided
    <2> QED
      BY <2>1, <2>2
  <1>11. CASE Skills!Verify
    BY <1>11 DEF PreparationInv, Flown, Stored, Held, Apart, Built, Skills!Whole, Skills!Verify,
        Skills!Drop, Skills!GoTo, Skills!world, Skills!locks, Skills!Actors, Skills!Slots,
        FlightSteps, Owning, Decided, Attempts, Pointers, Jobs
  <1>12. ASSUME NEW a \in {"relay", "hand"}, Skills!Install(a) PROVE Built'
    BY <1>12 DEF PreparationInv, Flown, Stored, Held, Apart, Built, Skills!Whole, Skills!Install,
        Skills!Drop, Skills!GoTo, Skills!world, Skills!locks, Skills!Actors, Skills!Slots,
        FlightSteps, Owning, Decided, Attempts, Pointers, Jobs
  <1>13. ASSUME NEW a \in {"relay", "hand"}, Skills!Report(a) PROVE Built'
    BY <1>13 DEF PreparationInv, Flown, Stored, Held, Apart, Built, Skills!Whole, Skills!Report,
        Skills!Drop, Skills!GoTo, Skills!world, Skills!locks, Skills!Actors, Skills!Slots,
        FlightSteps, Owning, Decided, Attempts, Pointers, Jobs
  <1>14. ASSUME NEW a \in Skills!Actors, Skills!Leave(a) PROVE Built'
    BY <1>14 DEF PreparationInv, Flown, Stored, Held, Apart, Built, Skills!Whole, Skills!Leave,
        Skills!GoTo, Skills!NoJob, Skills!world, Skills!Actors, Skills!Slots, FlightSteps, Owning,
        Decided, Attempts, Pointers, Jobs
  <1>15. ASSUME NEW a \in Skills!Actors, Skills!Fail(a) PROVE Built'
    BY <1>15 DEF PreparationInv, Flown, Stored, Held, Apart, Built, Skills!Whole, Skills!Fail,
        Skills!Drop, Skills!GoTo, Skills!world, Skills!locks, Skills!Actors, Skills!Slots,
        FlightSteps, Owning, Decided, Attempts, Pointers, Jobs
  <1>16. CASE Skills!Crash
    BY <1>16 DEF PreparationInv, Flown, Stored, Held, Apart, Built, Skills!Whole, Skills!Crash,
        Skills!Dies, Skills!NoJob, Skills!world, Skills!Actors, Skills!Slots, FlightSteps, Owning,
        Decided, Attempts, Pointers, Jobs
  <1>17. CASE Skills!CrashHand
    BY <1>17 DEF PreparationInv, Flown, Stored, Held, Apart, Built, Skills!Whole, Skills!CrashHand,
        Skills!Dies, Skills!NoJob, Skills!world, Skills!Actors, Skills!Slots, FlightSteps, Owning,
        Decided, Attempts, Pointers, Jobs
  <1>18. CASE Skills!Stop
    BY <1>18 DEF PreparationInv, Flown, Stored, Held, Apart, Built, Skills!Whole, Skills!Stop,
        Skills!locks, Skills!Actors, Skills!Slots, FlightSteps, Owning, Decided, Attempts, Pointers,
        Jobs
  <1>19. CASE Skills!Restart
    BY <1>19 DEF PreparationInv, Flown, Stored, Held, Apart, Built, Skills!Whole, Skills!Restart,
        Skills!world, Skills!locks, Skills!Actors, Skills!Slots, FlightSteps, Owning, Decided,
        Attempts, Pointers, Jobs
  <1>20. CASE Skills!Change
    BY <1>20 DEF PreparationInv, Flown, Stored, Held, Apart, Built, Skills!Whole, Skills!Change,
        Skills!locks, Skills!Actors, Skills!Slots, FlightSteps, Owning, Decided, Attempts, Pointers,
        Jobs
  <1>q. QED
    BY <1>1, <1>2, <1>3, <1>4, <1>5, <1>6, <1>7, <1>8, <1>9, <1>10, <1>11, <1>12, <1>13, <1>14,
        <1>15, <1>16, <1>17, <1>18, <1>19, <1>20 DEF Skills!Next, Skills!Pump, Skills!Relay,
        Skills!Hand, Skills!Prepare, Skills!Actors

\* What is installed has been taken from the pointer or built by the same flight.
LEMMA KeepsUnused ==
    ASSUME Skills!PreparationAssumption, PreparationInv, Skills!Next
    PROVE  Unused'
  <1>1. CASE Skills!BeginPump
    BY <1>1 DEF PreparationInv, Flown, Stored, Held, Apart, Built, Unused, Skills!UsedOnce,
        Skills!BeginPump, Skills!Starts, Skills!GoTo, Skills!NoJob, Skills!world, Skills!Actors,
        Skills!Slots, FlightSteps, Owning, Decided, Pointers, Jobs
  <1>2. CASE Skills!BeginRelay
    BY <1>2 DEF PreparationInv, Flown, Stored, Held, Apart, Built, Unused, Skills!UsedOnce,
        Skills!BeginRelay, Skills!GoTo, Skills!world, Skills!Actors, Skills!Slots, FlightSteps,
        Owning, Decided, Pointers, Jobs
  <1>3. CASE Skills!Lock
    BY <1>3 DEF PreparationInv, Flown, Stored, Held, Apart, Built, Unused, Skills!UsedOnce,
        Skills!Lock, Skills!Starts, Skills!GoTo, Skills!NoJob, Skills!world, Skills!Actors,
        Skills!Slots, FlightSteps, Owning, Decided, Pointers, Jobs
  <1>4. CASE Skills!BeginHand
    BY <1>4 DEF PreparationInv, Flown, Stored, Held, Apart, Built, Unused, Skills!UsedOnce,
        Skills!BeginHand, Skills!Starts, Skills!GoTo, Skills!NoJob, Skills!Actors, Skills!Slots,
        FlightSteps, Owning, Decided, Pointers, Jobs
  <1>5. ASSUME NEW a \in Skills!Actors, Skills!Poll(a) PROVE Unused'
    BY <1>5 DEF PreparationInv, Flown, Stored, Held, Apart, Built, Unused, Skills!UsedOnce,
        Skills!Poll, Skills!GoTo, Skills!world, Skills!locks, Skills!Actors, Skills!Slots,
        FlightSteps, Owning, Decided, Pointers, Jobs
  <1>6. ASSUME NEW a \in Skills!Actors, Skills!Build(a) PROVE Unused'
    <2>1. CASE Skills!Running(a) /\ Skills!Valid(a)
      <3>1. PICK s \in Skills!Slots :
              /\ \A b \in Skills!Actors : s # job[b].slot
              /\ pc' = [pc EXCEPT ![a] = "check"]
              /\ \A b \in Skills!Actors \ {a} : job'[b] = job[b]
              /\ job'[a].slot = s
              /\ job'[a].rollout = job[a].rollout
              /\ job'[a].policy = job[a].policy
              /\ \A t \in Skills!Slots \ {s} : dirs'[t] = dirs[t] /\ used'[t] = used[t]
              /\ dirs'[s] # None
              /\ dirs'[s].rollout = job[a].rollout
              /\ dirs'[s].policy = job[a].policy
              /\ used'[s] = 0
        BY <1>6, <2>1, BuildOf
      <3>2. \A b \in Skills!Actors \ {a} : pc'[b] \in Owning =>
              pc'[b] = pc[b] /\ job'[b] = job[b] /\ used'[job[b].slot] = used[job[b].slot]
        BY <3>1 DEF PreparationInv, Flown, Skills!Actors, Skills!Slots, FlightSteps, Owning, Decided
      <3>3. used'[job'[a].slot] = 0
        BY <3>1
      <3>4. \A b \in Skills!Actors : pc'[b] \in Owning \ {"report"} => used'[job'[b].slot] = 0
        BY <3>2, <3>3 DEF PreparationInv, Unused, Skills!Actors
      <3>5. \A t \in Skills!Slots : used'[t] <= 1
        BY <1>6, <2>1, BuildOf DEF PreparationInv, Flown, Stored, Apart, Unused, Skills!UsedOnce
      <3>6. pointer # None => used'[pointer.slot] = used[pointer.slot]
        BY <1>6, <2>1, BuildOf DEF PreparationInv, Stored, Pointers
      <3>7. pointer' = pointer
        BY <1>6 DEF Skills!Build
      <3> QED
        BY <3>4, <3>5, <3>6, <3>7 DEF PreparationInv, Unused, Skills!UsedOnce
    <2>2. CASE ~ (Skills!Running(a) /\ Skills!Valid(a))
      BY <1>6, <2>2 DEF PreparationInv, Flown, Unused, Skills!UsedOnce, Skills!Build, Skills!Give,
          Skills!GoTo, Skills!Actors, Skills!Slots, FlightSteps, Owning, Decided
    <2> QED
      BY <2>1, <2>2
  <1>7. ASSUME NEW a \in Skills!Actors, Skills!Check(a) PROVE Unused'
    BY <1>7 DEF PreparationInv, Flown, Stored, Held, Apart, Built, Unused, Skills!UsedOnce,
        Skills!Check, Skills!Drop, Skills!GoTo, Skills!world, Skills!locks, Skills!Actors,
        Skills!Slots, FlightSteps, Owning, Decided, Pointers, Jobs
  <1>8. CASE Skills!Record
    BY <1>8 DEF PreparationInv, Flown, Stored, Held, Apart, Built, Unused, Skills!UsedOnce,
        Skills!Record, Skills!Drop, Skills!GoTo, Skills!world, Skills!locks, Skills!Actors,
        Skills!Slots, FlightSteps, Owning, Decided, Pointers, Jobs
  <1>9. CASE Skills!Publish
    BY <1>9 DEF PreparationInv, Flown, Stored, Held, Apart, Built, Unused, Skills!UsedOnce,
        Skills!Publish, Skills!Give, Skills!Drop, Skills!GoTo, Skills!world, Skills!locks,
        Skills!Actors, Skills!Slots, FlightSteps, Owning, Decided, Pointers, Jobs
  <1>10. CASE Skills!Take
    BY <1>10 DEF PreparationInv, Flown, Stored, Held, Apart, Built, Unused, Skills!UsedOnce,
        Skills!Take, Skills!Whole, Skills!GoTo, Skills!world, Skills!locks, Skills!Actors,
        Skills!Slots, FlightSteps, Owning, Decided, Pointers, Jobs
  <1>11. CASE Skills!Verify
    BY <1>11 DEF PreparationInv, Flown, Stored, Held, Apart, Built, Unused, Skills!UsedOnce,
        Skills!Verify, Skills!Drop, Skills!GoTo, Skills!world, Skills!locks, Skills!Actors,
        Skills!Slots, FlightSteps, Owning, Decided, Pointers, Jobs
  <1>12. ASSUME NEW a \in {"relay", "hand"}, Skills!Install(a) PROVE Unused'
    BY <1>12 DEF PreparationInv, Flown, Stored, Held, Apart, Built, Unused, Skills!UsedOnce,
        Skills!Install, Skills!Drop, Skills!GoTo, Skills!world, Skills!locks, Skills!Actors,
        Skills!Slots, FlightSteps, Owning, Decided, Pointers, Jobs
  <1>13. ASSUME NEW a \in {"relay", "hand"}, Skills!Report(a) PROVE Unused'
    BY <1>13 DEF PreparationInv, Flown, Stored, Held, Apart, Built, Unused, Skills!UsedOnce,
        Skills!Report, Skills!Drop, Skills!GoTo, Skills!world, Skills!locks, Skills!Actors,
        Skills!Slots, FlightSteps, Owning, Decided, Pointers, Jobs
  <1>14. ASSUME NEW a \in Skills!Actors, Skills!Leave(a) PROVE Unused'
    BY <1>14 DEF PreparationInv, Flown, Stored, Held, Apart, Built, Unused, Skills!UsedOnce,
        Skills!Leave, Skills!GoTo, Skills!NoJob, Skills!world, Skills!Actors, Skills!Slots,
        FlightSteps, Owning, Decided, Pointers, Jobs
  <1>15. ASSUME NEW a \in Skills!Actors, Skills!Fail(a) PROVE Unused'
    BY <1>15 DEF PreparationInv, Flown, Stored, Held, Apart, Built, Unused, Skills!UsedOnce,
        Skills!Fail, Skills!Drop, Skills!GoTo, Skills!world, Skills!locks, Skills!Actors,
        Skills!Slots, FlightSteps, Owning, Decided, Pointers, Jobs
  <1>16. CASE Skills!Crash
    BY <1>16 DEF PreparationInv, Flown, Stored, Held, Apart, Built, Unused, Skills!UsedOnce,
        Skills!Crash, Skills!Dies, Skills!NoJob, Skills!world, Skills!Actors, Skills!Slots,
        FlightSteps, Owning, Decided, Pointers, Jobs
  <1>17. CASE Skills!CrashHand
    BY <1>17 DEF PreparationInv, Flown, Stored, Held, Apart, Built, Unused, Skills!UsedOnce,
        Skills!CrashHand, Skills!Dies, Skills!NoJob, Skills!world, Skills!Actors, Skills!Slots,
        FlightSteps, Owning, Decided, Pointers, Jobs
  <1>18. CASE Skills!Stop
    BY <1>18 DEF PreparationInv, Flown, Stored, Held, Apart, Built, Unused, Skills!UsedOnce,
        Skills!Stop, Skills!locks, Skills!Actors, Skills!Slots, FlightSteps, Owning, Decided,
        Pointers, Jobs
  <1>19. CASE Skills!Restart
    BY <1>19 DEF PreparationInv, Flown, Stored, Held, Apart, Built, Unused, Skills!UsedOnce,
        Skills!Restart, Skills!world, Skills!locks, Skills!Actors, Skills!Slots, FlightSteps,
        Owning, Decided, Pointers, Jobs
  <1>20. CASE Skills!Change
    BY <1>20 DEF PreparationInv, Flown, Stored, Held, Apart, Built, Unused, Skills!UsedOnce,
        Skills!Change, Skills!locks, Skills!Actors, Skills!Slots, FlightSteps, Owning, Decided,
        Pointers, Jobs
  <1>q. QED
    BY <1>1, <1>2, <1>3, <1>4, <1>5, <1>6, <1>7, <1>8, <1>9, <1>10, <1>11, <1>12, <1>13, <1>14,
        <1>15, <1>16, <1>17, <1>18, <1>19, <1>20 DEF Skills!Next, Skills!Pump, Skills!Relay,
        Skills!Hand, Skills!Prepare, Skills!Actors

-----------------------------------------------------------------------------
(* The theorems *)

LEMMA PreparationStarts ==
    ASSUME Skills!PreparationAssumption, Skills!Init
    PROVE  PreparationInv
  <1>1. Flown
    <2>1. Skills!NoJob \in Jobs /\ Skills!NoJob.slot = 0
      BY DEF Skills!NoJob, Jobs, Skills!PreparationAssumption
    <2> QED
      BY <2>1 DEF Skills!Init, Flown, Skills!PreparationAssumption, FlightSteps, Decided, Owning,
          Skills!Actors
  <1>2. Stored /\ Held /\ Apart /\ Built /\ Unused
    BY DEF Skills!Init, Stored, Held, Apart, Built, Unused, Skills!UsedOnce, Owning, Skills!Actors,
        Skills!Slots, Skills!NoJob, Skills!PreparationAssumption
  <1> QED
    BY <1>1, <1>2 DEF PreparationInv

LEMMA PreparationGoesOn ==
    ASSUME Skills!PreparationAssumption, PreparationInv, [Skills!Next]_(Skills!vars)
    PROVE  PreparationInv'
  <1>1. CASE Skills!Next
    BY <1>1, KeepsFlown, KeepsStored, KeepsHeld, KeepsApart, KeepsBuilt, KeepsUnused DEF
        PreparationInv
  <1>2. CASE UNCHANGED Skills!vars
    BY <1>2 DEF Skills!vars, PreparationInv, Flown, Stored, Held, Apart, Built, Unused,
        Skills!UsedOnce, Skills!Whole
  <1> QED
    BY <1>1, <1>2

LEMMA PreparationImplies ==
    ASSUME Skills!PreparationAssumption, PreparationInv
    PROVE  Skills!PreparationSafe
  <1>1. Skills!TypeOK
    BY DEF Skills!TypeOK, PreparationInv, Flown, Stored, Held, Attempts, Pointers, Jobs
  <1>2. Skills!NamesWhole
    BY DEF Skills!NamesWhole, PreparationInv, Built
  <1>3. Skills!OwnAttempt
    BY DEF Skills!OwnAttempt, PreparationInv, Flown, Apart, Built, Owning, Decided, Skills!Actors,
        Skills!Slots
  <1>4. Skills!UsedOnce
    BY DEF PreparationInv, Unused
  <1>5. Skills!UnderItsPolicy
    BY DEF Skills!UnderItsPolicy, PreparationInv, Built, Owning
  <1> QED
    BY <1>1, <1>2, <1>3, <1>4, <1>5 DEF Skills!PreparationSafe

\* Locks are held for a flight, an attempt belongs to one flight or to the pointer, what
\* the pointer names is whole, and what waits to be installed is not installed yet.
THEOREM PreparationHolds == ASSUME Skills!PreparationAssumption PROVE Skills!Spec => []PreparationInv
  <1>1. Skills!Init => PreparationInv
    BY PreparationStarts
  <1>2. PreparationInv /\ [Skills!Next]_(Skills!vars) => PreparationInv'
    BY PreparationGoesOn
  <1> QED
    BY <1>1, <1>2, PTL DEF Skills!Spec

\* Whatever is interrupted, expires or changes: a take never fails for what is left behind,
\* no two flights share an attempt, and it is installed at most once, by its own policy.
THEOREM PreparationIsSafe == ASSUME Skills!PreparationAssumption PROVE Skills!Spec => []Skills!PreparationSafe
  <1>1. PreparationInv => Skills!PreparationSafe
    BY PreparationImplies
  <1> QED
    BY <1>1, PreparationHolds, PTL

=============================================================================
