--------------------------- MODULE WorkspacePolicy ---------------------------
(***************************************************************************)
(* The policy of a workspace and the daily upload quota of a device        *)
(* (packages/cli/src/index.ts, packages/policy/src/index.ts).              *)
(*                                                                         *)
(* A client registers the workspace under the refresh lock, verifies the   *)
(* server's signed authorization and applies it under the authorization    *)
(* lock: the upload ledger, then the replay record, then the policy file.  *)
(* Whoever uploads loads the policy file, checks it against the record,    *)
(* and reserves the capsule in the ledger under the ledger lock.           *)
(*                                                                         *)
(* One workspace.  The locks exclude each other's holders (RelayLease says *)
(* how far) and are free again when their holder ends.  A day is one unit  *)
(* of time.  All authorizations carry the same Limit; they differ in       *)
(* whether they grant content.                                             *)
(***************************************************************************)
EXTENDS Integers, FiniteSets, FiniteSetsExt

CONSTANTS
    Clients,        \* processes of the device: the relay and commands
    Capsules,       \* what may be uploaded
    Size,           \* bytes of each capsule
    Limit,          \* maximumDailyUploadBytes
    Lifetime,       \* days an authorization lasts
    None,
    Local,          \* a policy file without an authorization
    MaxDay,         \* bound on days
    MaxIssued,      \* bound on authorizations
    MaxFaults       \* bound on errors, crashes and files put back

PolicyAssumption ==
    /\ Size \in [Capsules -> Nat]
    /\ {Limit, MaxIssued, MaxFaults} \subseteq Nat
    /\ {Lifetime, MaxDay} \subseteq Nat \ {0}
    /\ None \notin Clients
    /\ None \notin Capsules
    /\ Local # None
    /\ None \notin [day : 0 .. MaxDay, keys : SUBSET Capsules]
    /\ {Local, None} \cap [sig : 1 .. MaxIssued, at : 0 .. MaxIssued, day : 0 .. MaxDay, content : BOOLEAN] = {}

VARIABLES
    today,
    issued,     \* authorizations the server has signed
    lock,       \* who holds the refresh, the authorization and the ledger lock
    record,     \* the replay record: the last authorization accepted
    policy,     \* approved-policy.json: an authorization, Local or None
    ledger,     \* evidence-upload-ledger.json
    client,     \* of each client: its step and what it keeps in memory
    applied,    \* history: the last authorization a sync has applied
    reserved,   \* history: <<day, capsule>> a caller has reserved on that day
    forgot,     \* history: a write has replaced reservations it had not read
    faults

disk == <<record, policy, ledger>>
vars == <<today, issued, lock, disk, client, applied, reserved, forgot, faults>>

Days == 0 .. MaxDay
Authorizations ==
    [sig : 1 .. MaxIssued, at : 0 .. MaxIssued, day : Days, content : BOOLEAN]
Ledgers == [day : Days, keys : SUBSET Capsules]
Locks == {"refresh", "authorization", "ledger"}
Steps == {"idle", "register", "apply", "activate", "record", "policy", "restore",
          "synced", "verify", "granted", "reserve", "commit", "send"}

Bytes(keys) == MapThenSumSet(LAMBDA k : Size[k], keys)
NewLedger(day) == [day |-> day, keys |-> {}]
Expired(a) == a.day + Lifetime <= today

\* Mutant: authorizations of the same time replace each other.
OlderOnly(a, r) == r # None /\ a.at < r.at

\* Mutant: the accepted authorization is refused when it comes again.
NotLater(a, r) == r # None /\ a.at <= r.at

\* assertWorkspaceAuthorizationCurrent: an authorization is refused when it is
\* older than the accepted one, or as old but another one.
Superseded(a, r) == r # None /\ (a.at < r.at \/ (a.at = r.at /\ a.sig # r.sig))

\* What a policy file may disclose: only an authorization grants content.
GrantsContent(p) == p \notin {None, Local} /\ p.content

Asleep == [step |-> "idle", auth |-> None, prev |-> None, next |-> None,
           key |-> None, day |-> 0, floor |-> None]

Init ==
    /\ today = 1
    /\ issued = {}
    /\ lock = [l \in Locks |-> None]
    /\ record = None
    /\ policy = None
    /\ ledger \in {None, NewLedger(0), [day |-> 0, keys |-> Capsules], NewLedger(1)}
    /\ client = [c \in Clients |-> Asleep]
    /\ applied = None
    /\ reserved = {}
    /\ forgot = FALSE
    /\ faults = 0

At(c, step) == client[c].step = step
Become(c, state) == client' = [client EXCEPT ![c] = state]
Goto(c, step) == client' = [client EXCEPT ![c].step = step]

\* Mutant: a lock is taken for free.
AnyLock(l) == l \in Locks

Free(l) == lock[l] = None
Take(l, c) == Free(l) /\ lock' = [lock EXCEPT ![l] = c]
Freed(held, c) == [l \in Locks |-> IF l \in held /\ lock[l] = c THEN None ELSE lock[l]]
Release(held, c) == lock' = Freed(held, c)
ReplaceLedger(l) == ledger' = l
Unwind(c) == Become(c, Asleep) /\ Release(Locks, c)

-----------------------------------------------------------------------------
(* The server signs a new authorization, perhaps in the millisecond of the  *)
(* one before; a day ends.                                                 *)

LastIssue == IF issued = {} THEN 0 ELSE Max({a.at : a \in issued})

Issue(content, later) ==
    /\ Cardinality(issued) < MaxIssued
    /\ issued' = issued \cup
           {[sig |-> Cardinality(issued) + 1, at |-> LastIssue + later, day |-> today,
             content |-> content]}
    /\ UNCHANGED <<today, lock, disk, client, applied, reserved, forgot, faults>>

Midnight ==
    /\ today < MaxDay
    /\ today' = today + 1
    /\ UNCHANGED <<issued, lock, disk, client, applied, reserved, forgot, faults>>

\* The workspace is put back to an earlier state, its policy file with it: to
\* an authorization from before the last that a sync has applied.
RollBack(a) ==
    /\ faults < MaxFaults
    /\ faults' = faults + 1
    /\ applied # None /\ a.at < applied.at
    /\ policy' = a
    /\ UNCHANGED <<today, issued, lock, record, ledger, client, applied, reserved, forgot>>

-----------------------------------------------------------------------------
(* A synchronisation. *)

\* withWorkspacePolicySyncOrder: signing control, which nests, and then the
\* refresh lock.
BeginSync(c) ==
    /\ At(c, "idle")
    /\ Take("refresh", c)
    /\ Goto(c, "register")
    /\ UNCHANGED <<today, issued, disk, applied, reserved, forgot, faults>>

\* registerWorkspace and applyServerEvidencePolicy.  The answer may carry any
\* authorization of the server; an expired one is thrown away with the sync.
Register(c, a) ==
    /\ At(c, "register")
    /\ a \in issued
    /\ IF Expired(a)
       THEN Unwind(c)
       ELSE /\ client' = [client EXCEPT ![c].step = "apply", ![c].auth = a]
            /\ UNCHANGED lock
    /\ UNCHANGED <<today, issued, disk, applied, reserved, forgot, faults>>

\* The server has no authorization: materializeWorkspacePolicy keeps a local
\* policy file and does not touch an authorized one.  It asserts the policy it
\* has read, which throws for content that was not verified in this process.
RegisterWithout(c) ==
    /\ At(c, "register")
    /\ issued = {}
    /\ policy' = IF policy = None THEN Local ELSE policy
    /\ IF GrantsContent(policy) THEN Unwind(c) ELSE Goto(c, "synced") /\ UNCHANGED lock
    /\ UNCHANGED <<today, issued, record, ledger, applied, reserved, forgot, faults>>

\* evidenceLedgerForPolicyActivation: the ledger an activation leaves; one of a
\* later day is invalid.
LaterDay(l) == l # None /\ l.day > today
Activated(l) == IF l # None /\ l.day = today THEN l ELSE NewLedger(today)

\* applyWorkspaceAuthorizationAtomically, up to the first write: under its
\* lock, the record is checked and the ledger read.  Only the holder of the lock
\* writes the record.
CheckReplay(c) ==
    LET a == client[c].auth
        next == IF a.content THEN Activated(ledger) ELSE ledger
    IN  /\ At(c, "apply")
        /\ Free("authorization")
        /\ IF Superseded(a, record) \/ (a.content /\ LaterDay(ledger))
           THEN Unwind(c)
           ELSE /\ Take("authorization", c)
                /\ client' = [client EXCEPT
                       ![c].step = IF next = ledger THEN "record" ELSE "activate",
                       ![c].prev = record, ![c].next = next]
        /\ UNCHANGED <<today, issued, disk, applied, reserved, forgot, faults>>

\* The ledger lock is not taken here: reservations made since the ledger was
\* read are lost.
ActivateLedger(c) ==
    /\ At(c, "activate")
    /\ ReplaceLedger(client[c].next)
    /\ forgot' = (forgot \/ (ledger # None /\ ledger.day >= client[c].next.day /\ ledger.keys # {}))
    /\ Goto(c, "record")
    /\ UNCHANGED <<today, issued, lock, record, policy, applied, reserved, faults>>

WriteRecord(c) ==
    /\ At(c, "record")
    /\ record' = client[c].auth
    /\ Goto(c, "policy")
    /\ UNCHANGED <<today, issued, lock, policy, ledger, applied, reserved, forgot, faults>>

WritePolicy(c) ==
    /\ At(c, "policy")
    /\ policy' = client[c].auth
    /\ applied' = client[c].auth
    /\ Goto(c, "synced")
    /\ Release({"authorization"}, c)
    /\ UNCHANGED <<today, issued, record, ledger, reserved, forgot, faults>>

\* The rename of the policy file is denied: the record is put back, and the
\* error thrown.
PolicyDenied(c) ==
    /\ At(c, "policy")
    /\ faults < MaxFaults
    /\ faults' = faults + 1
    /\ Goto(c, "restore")
    /\ UNCHANGED <<today, issued, lock, disk, applied, reserved, forgot>>

Restore(c) ==
    /\ At(c, "restore")
    /\ record' = client[c].prev
    /\ Unwind(c)
    /\ UNCHANGED <<today, issued, policy, ledger, applied, reserved, forgot, faults>>

EndSync(c) ==
    /\ At(c, "synced")
    /\ Unwind(c)
    /\ UNCHANGED <<today, issued, disk, applied, reserved, forgot, faults>>

\* At any step: an error (a lost answer, a write or the restore that fails, a
\* host that withdraws), a time limit while waiting for a lock, or a crash.
\* Memory and locks are gone either way.
Interrupt(c) ==
    /\ client[c].step \notin {"idle"}
    /\ faults < MaxFaults
    /\ faults' = faults + 1
    /\ Unwind(c)
    /\ UNCHANGED <<today, issued, disk, applied, reserved, forgot>>

-----------------------------------------------------------------------------
(* An upload. *)

\* loadVerifiedWorkspacePolicy reads the file; without content there is nothing
\* to verify, and an expired authorization is refused.
LoadPolicy(c) ==
    /\ At(c, "idle")
    /\ GrantsContent(policy)
    /\ ~Expired(policy)
    /\ client' = [client EXCEPT ![c].step = "verify", ![c].auth = policy, ![c].floor = applied]
    /\ UNCHANGED <<today, issued, lock, disk, applied, reserved, forgot, faults>>

\* Mutant: the file is trusted.
TrustsFile(c) ==
    /\ At(c, "verify")
    /\ Goto(c, "granted")
    /\ UNCHANGED <<today, issued, lock, disk, applied, reserved, forgot, faults>>

VerifyLoaded(c) ==
    /\ At(c, "verify")
    /\ IF record = None \/ Superseded(client[c].auth, record)
       THEN Unwind(c) ELSE Goto(c, "granted") /\ UNCHANGED lock
    /\ UNCHANGED <<today, issued, disk, applied, reserved, forgot, faults>>

\* reserveDailyEvidenceBytes takes the day before it waits for the ledger lock.
\* assertPolicy has just seen that the authorization has not expired.
BeginReserve(c, k) ==
    /\ At(c, "granted")
    /\ IF Expired(client[c].auth)
       THEN Unwind(c)
       ELSE /\ client' = [client EXCEPT ![c].step = "reserve", ![c].key = k, ![c].day = today]
            /\ UNCHANGED lock
    /\ UNCHANGED <<today, issued, disk, applied, reserved, forgot, faults>>

\* The ledger as the caller takes it: one of another day counts for nothing.
Current(l, day) == IF l # None /\ l.day = day THEN l ELSE NewLedger(day)

ReadLedger(c) ==
    LET read == Current(ledger, client[c].day)
        k == client[c].key
    IN  /\ At(c, "reserve")
        /\ Free("ledger")
        /\ \/ /\ k \in read.keys
              /\ Goto(c, "send")
              /\ reserved' = reserved \cup {<<client[c].day, k>>}
              /\ UNCHANGED lock
           \/ /\ k \notin read.keys
              /\ Bytes(read.keys \cup {k}) > Limit
              /\ Unwind(c)
              /\ UNCHANGED reserved
           \/ /\ k \notin read.keys
              /\ Bytes(read.keys \cup {k}) <= Limit
              /\ Take("ledger", c)
              /\ client' = [client EXCEPT ![c].step = "commit",
                     ![c].next = [read EXCEPT !.keys = @ \cup {k}]]
              /\ UNCHANGED reserved
        /\ UNCHANGED <<today, issued, disk, applied, forgot, faults>>

\* The write replaces the whole file.  A ledger of another day is forgotten;
\* that loses nothing only when it is of a day before.
CommitReservation(c) ==
    /\ At(c, "commit")
    /\ ReplaceLedger(client[c].next)
    /\ forgot' = (forgot \/ client[c].day < today)
    /\ reserved' = reserved \cup {<<client[c].day, client[c].key>>}
    /\ Goto(c, "send")
    /\ Release({"ledger"}, c)
    /\ UNCHANGED <<today, issued, record, policy, applied, faults>>

\* syncTrajectory; on an error the capsule stays queued and comes again.  The
\* next capsule of a queue is taken with a policy of its own.
Send(c) ==
    /\ At(c, "send")
    /\ Unwind(c)
    /\ UNCHANGED <<today, issued, disk, applied, reserved, forgot, faults>>

-----------------------------------------------------------------------------
SyncStep(c) ==
    \/ \E a \in issued : Register(c, a)
    \/ RegisterWithout(c) \/ CheckReplay(c) \/ ActivateLedger(c)
    \/ WriteRecord(c) \/ WritePolicy(c) \/ Restore(c) \/ EndSync(c)

UploadStep(c) ==
    \/ VerifyLoaded(c) \/ ReadLedger(c) \/ CommitReservation(c) \/ Send(c)
    \/ \E k \in Capsules : BeginReserve(c, k)

ClientStep(c) ==
    \/ BeginSync(c) \/ SyncStep(c) \/ PolicyDenied(c) \/ Interrupt(c)
    \/ LoadPolicy(c) \/ UploadStep(c)

Next ==
    \/ \E content \in BOOLEAN, later \in 0 .. 1 : Issue(content, later)
    \/ Midnight
    \/ \E a \in issued : RollBack(a)
    \/ \E c \in Clients : ClientStep(c)

\* The newest authorization, which the server answers with in the end.
Newest(a) == a \in issued /\ \A b \in issued : b.sig <= a.sig

\* Started work goes on; the relay synchronises every minute, an error is
\* followed by another try, and the newest authorization is answered again and
\* again.
Fairness ==
    /\ \A c \in Clients : WF_vars(SyncStep(c) \/ UploadStep(c))
    /\ SF_vars(\E c \in Clients : BeginSync(c))
    /\ SF_vars(\E c \in Clients, a \in issued : Newest(a) /\ Register(c, a))

Spec == Init /\ [][Next]_vars /\ Fairness

-----------------------------------------------------------------------------
TypeOK ==
    /\ today \in Days
    /\ issued \subseteq Authorizations
    /\ lock \in [Locks -> Clients \cup {None}]
    /\ record \in issued \cup {None}
    /\ policy \in issued \cup {None, Local}
    /\ ledger \in Ledgers \cup {None}
    /\ client \in [Clients -> [step : Steps, auth : issued \cup {None}, prev : issued \cup {None},
                               next : Ledgers \cup {None}, key : Capsules \cup {None},
                               day : Days, floor : issued \cup {None}]]
    /\ applied \in issued \cup {None}
    /\ reserved \subseteq Days \X Capsules
    /\ forgot \in BOOLEAN
    /\ faults \in 0 .. MaxFaults

\* a is not older than b.
Follows(a, b) == b = None \/ (a # None /\ (a.at > b.at \/ a = b))

\* Neither a crash between the two writes nor a write that is denied lets the
\* policy file run ahead of the replay record.
PolicyCovered == policy \in {None, Local} \/ Follows(record, policy)

\* What a sync has applied stays the least that is accepted: content loaded
\* later is granted by that authorization or one that follows it, so a revoked
\* grant does not come back from an older file.
RevokedStaysRevoked ==
    \A c \in Clients :
        client[c].step \in {"granted", "reserve", "commit", "send"}
            => Follows(client[c].auth, client[c].floor)

\* Processes that reserve side by side, crash and try again do not exceed the
\* limit of a day, as long as no write has forgotten reservations it did not
\* read (which ActivateLedger and a wait past midnight do).
QuotaUnlessForgotten ==
    ~forgot => \A d \in Days : Bytes({k \in Capsules : <<d, k>> \in reserved}) <= Limit

PolicySafe == TypeOK /\ PolicyCovered /\ RevokedStaysRevoked /\ QuotaUnlessForgotten

\* The test "daily content disclosure ledger is durable, bounded".
DailyQuota == \A d \in Days : Bytes({k \in Capsules : <<d, k>> \in reserved}) <= Limit

\* The record moves to a later authorization, or back to the one it held when
\* the policy file could not be written.
RecordMoves ==
    record' # record =>
        \/ Follows(record', record)
        \/ \E c \in Clients : At(c, "restore") /\ record' = client[c].prev
RecordMovesOn == [][RecordMoves]_vars

\* A record that was left ahead of the policy file is made good by a later
\* sync, unless the newest authorization has expired, or was signed at the very
\* time of the record and is another one.
RecordAhead == record # None /\ policy # record
MadeGood ==
    \/ policy = record
    \/ \A a \in issued : Newest(a) => Expired(a) \/ ~Follows(a, record)
PairRepaired == RecordAhead ~> MadeGood
=============================================================================
