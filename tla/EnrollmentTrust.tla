--------------------------- MODULE EnrollmentTrust ---------------------------
(***************************************************************************)
(* The enrollment of a device and the server trust in it (relay client     *)
(* index.ts, setupClaim.ts, signingRecoveryJournal.ts; cli index.ts).      *)
(*                                                                         *)
(* The root and the keyset that a device trusts are kept twice: in         *)
(* device.json, which anybody may write, and in the protected store as the *)
(* enrollment anchor, which is written under the anchor lock and ahead of  *)
(* the file.  An opening client makes the two agree; the recovery of an    *)
(* expired keyset puts a journal into the anchor's slot until the file is  *)
(* replaced.  A process may end between any two of these steps.            *)
(*                                                                         *)
(* One configured home.  The lock excludes (EnrollmentAnchorLock says how  *)
(* far) and is free again when its holder ends.  An approval, a challenge  *)
(* or a claim is shorter than a unit of time, in which HQ publishes one    *)
(* keyset at most.  `None' stands for whatever is not there: a file, a     *)
(* slot, a keyset, a connection mode.                                      *)
(***************************************************************************)
EXTENDS Integers

CONSTANTS
    Processes,
    Roots, Keysets,     \* what HQ signs with and publishes
    Casts,              \* which operations each process begins, as one of these functions says
    None,
    MaxTime,            \* bound on time
    MaxStamps,          \* bound on enrollments
    MaxFaults           \* bound on processes that end and stores that are lost

VARIABLES
    does,           \* the member of Casts that this behaviour shows
    now,
    served,         \* the root and the keyset that HQ publishes
    file,           \* device.json
    preference,     \* device.json.connection.json
    anchor, legacy, \* the two slots of the protected store
    lock,           \* the process that holds the anchor lock
    proc,           \* of each process: its operation, step and snapshot
    stamps,         \* enrollments so far
    faults

disk == <<file, preference, anchor, legacy>>
vars == <<does, now, served, disk, lock, proc, stamps, faults>>

Modes == {None, "manual", "resume"}
Trusts == [root : Roots, keyset : Keysets \cup {None}, at : 0 .. MaxStamps]
Configs == [root : Roots, keyset : Keysets \cup {None}, at : 0 .. MaxStamps, mode : Modes]

TrustOf(c) == [root |-> c.root, keyset |-> c.keyset, at |-> c.at]

\* An anchor, or the journal of a recovery away from the configuration `from'.
Anchor(t) == [trust |-> t, from |-> None]
Journal(t, c) == [trust |-> t, from |-> c]
Anchors == [trust : Trusts, from : Configs \cup {None}]

TrustAssumption ==
    /\ {MaxTime, MaxStamps, MaxFaults} \subseteq Nat
    /\ None \notin Processes
    /\ None \notin {"install", "deliver", "prefer"}
    /\ None \notin Keysets
    /\ None \notin Trusts
    /\ None \notin Configs
    /\ None \notin Anchors

IsJournal(a) == a # None /\ a.from # None

\* The slot that counts: the legacy one only until it is migrated.
Slot == IF anchor = None /\ legacy # None THEN Anchor(legacy) ELSE anchor

\* The trust that counts once the device has an anchor of its own.
Trusted == IF anchor = None THEN None ELSE anchor.trust

T == INSTANCE DeviceTrust WITH trust <- Trusted, Stamps <- 0 .. MaxStamps

SameBase(x, y) == x.root = y.root /\ x.at = y.at

\* Mutant: a preference for another root or enrollment is kept.
KeepsPreference(c) ==
    IF c = None \/ preference = None THEN c ELSE [c EXCEPT !.mode = preference.mode]

\* device.json as loadDeviceConfig returns it: with the preference of this
\* enrollment, and without consent that was given to another one.
Loaded(c) ==
    IF c = None \/ preference = None THEN c
    ELSE [c EXCEPT !.mode = IF preference.to = <<c.root, c.at>> THEN preference.mode ELSE "manual"]

Config == Loaded(file)

-----------------------------------------------------------------------------
Idle == [op |-> None, pc |-> "idle", config |-> None, pick |-> None, since |-> 0]

Init ==
    /\ does \in Casts
    /\ now = 0
    /\ served \in {[root |-> r, keyset |-> k] : r \in Roots, k \in {x \in Keysets : x.gen = 1}}
    /\ T!Initial(served.root, served.keyset)
    /\ preference = None
    /\ \/ file = None /\ anchor = None /\ legacy = None
       \/ \E k \in {served.keyset, None}, m \in {None, "resume"} :
             LET c == [root |-> served.root, keyset |-> k, at |-> 0, mode |-> m] IN
             /\ file = c
             /\ \/ anchor = Anchor(TrustOf(c)) /\ legacy = None
                \/ anchor = None /\ legacy \in {TrustOf(c), None}
    /\ lock = None
    /\ proc = [p \in Processes |-> Idle]
    /\ stamps = 0
    /\ faults = 0

Become(p, r) == proc' = [proc EXCEPT ![p] = r]
At(p, op, pc) == proc[p].op = op /\ proc[p].pc = pc
Under(p, pc) == proc[p].pc = pc /\ lock = p

\* The operation ends, and with it its lock.
Give(p) == lock' = IF lock = p THEN None ELSE lock

Fail(p) ==
    /\ Give(p)
    /\ Become(p, Idle)
    /\ UNCHANGED <<disk, stamps>>

\* On to the step pc, with the snapshot c.
Go(p, pc, c) == Become(p, [proc[p] EXCEPT !.pc = pc, !.config = c])

Quiet == UNCHANGED <<does, now, served, faults>>

Begin(p, op, pc, c, k) ==
    /\ op \in does[p]
    /\ Become(p, [op |-> op, pc |-> pc, config |-> c, pick |-> k,
                  since |-> IF op \in {"claim", "deliver"} THEN now ELSE 0])
    /\ UNCHANGED <<disk, lock, stamps>> /\ Quiet

Take(p) ==
    /\ proc[p].pc = "wait" /\ lock = None
    /\ lock' = p
    /\ Become(p, [proc[p] EXCEPT !.pc = "held"])
    /\ UNCHANGED <<disk, stamps>> /\ Quiet

-----------------------------------------------------------------------------
(* AgentFabricClient.open, and the keyset a registration brings.           *)

\* The configuration is read before the lock is waited for.
Open(p) ==
    /\ proc[p].pc = "idle" /\ file # None
    /\ Begin(p, "open", "wait", Config, None)

\* registerWorkspace: the answer carries the keyset of that time.
Register(p) ==
    /\ proc[p].pc = "client" /\ file # None
    /\ Begin(p, "install", "wait", Config, served.keyset)

Close(p) ==
    /\ proc[p].pc = "client"
    /\ Fail(p) /\ Quiet

\* recoverEnrollmentLocked reads again under the lock.
Reread(p) ==
    /\ Under(p, "held") /\ proc[p].op \in {"open", "install"}
    /\ IF file # None /\ SameBase(proc[p].config, file)
       THEN Go(p, "recover", Config) /\ UNCHANGED <<disk, lock, stamps>>
       ELSE Fail(p)
    /\ Quiet

\* What recoverEnrollmentLocked was called for.
Recovered(p, c) ==
    /\ \/ /\ proc[p].op = "open"
          /\ Become(p, [proc[p] EXCEPT !.op = "load", !.pc = "wait", !.config = c])
          /\ Give(p)
       \/ /\ proc[p].op = "install"
          /\ Go(p, "install", c)
          /\ UNCHANGED lock
       \/ /\ proc[p].op = "deliver"
          /\ Become(p, Idle)
          /\ Give(p)

\* An open client remembers what it needs of the enrollment no longer.
Client(p) == Become(p, [Idle EXCEPT !.op = "open", !.pc = "client"])

Differs(p) == Slot # None /\ Slot.trust.keyset # proc[p].config.keyset

\* The legacy slot is copied before anything else is done.
Migrate(p) ==
    /\ \/ Under(p, "recover")
       \/ Under(p, "held") /\ proc[p].op = "load" /\ legacy # None /\ legacy = TrustOf(proc[p].config)
    /\ anchor = None /\ legacy # None
    /\ IF SameBase(legacy, proc[p].config)
       THEN anchor' = Anchor(legacy) /\ UNCHANGED <<file, preference, legacy, lock, proc, stamps>>
       ELSE Fail(p)
    /\ Quiet

\* Nothing protected yet, or nothing to do.
Agree(p) ==
    /\ Under(p, "recover")
    /\ anchor = None => legacy = None
    /\ ~ IsJournal(anchor) /\ ~ Differs(p)
    /\ anchor # None => SameBase(anchor.trust, proc[p].config)
    /\ Recovered(p, proc[p].config)
    /\ UNCHANGED <<disk, stamps>> /\ Quiet

\* Mutant: only a keyset that chains from the file's is caught up with.
ChainOnly(current, k, root) == k # None /\ T!Transition(root, current, k)

\* The anchor was written ahead: is its keyset a verified successor of the file's?
Ahead(current, k, root) ==
    k # None /\ IF current = None THEN T!Initial(root, k) ELSE T!Successor(root, current, k)

\* ... or the file's one an update of the anchor's?
Behind(c) == c.keyset # None /\ T!Transition(c.root, anchor.trust.keyset, c.keyset)

CatchUp(p) ==
    LET c == proc[p].config
        next == [c EXCEPT !.keyset = anchor.trust.keyset] IN
    /\ Under(p, "recover") /\ anchor # None /\ ~ IsJournal(anchor) /\ Differs(p)
    /\ SameBase(anchor.trust, c)
    /\ Ahead(c.keyset, anchor.trust.keyset, c.root)
    /\ file' = next
    /\ Recovered(p, next)
    /\ UNCHANGED <<preference, anchor, legacy, stamps>> /\ Quiet

\* The file is ahead, as a bootstrap leaves it.
SaveAhead(p) ==
    LET c == proc[p].config IN
    /\ Under(p, "recover") /\ anchor # None /\ ~ IsJournal(anchor) /\ Differs(p)
    /\ SameBase(anchor.trust, c)
    /\ ~ Ahead(c.keyset, anchor.trust.keyset, c.root)
    /\ Behind(c)
    /\ anchor' = Anchor(TrustOf(c))
    /\ Recovered(p, c)
    /\ UNCHANGED <<file, preference, legacy, stamps>> /\ Quiet

\* Neither: "Run dharma login again."
Unverified(p) ==
    LET c == proc[p].config IN
    /\ Under(p, "recover") /\ anchor # None /\ ~ IsJournal(anchor)
    /\ \/ ~ SameBase(anchor.trust, c)
       \/ /\ Differs(p)
          /\ ~ Ahead(c.keyset, anchor.trust.keyset, c.root)
          /\ ~ Behind(c)
    /\ Fail(p) /\ Quiet

\* A journal is resumed for a caller that has a host scope, for no other one.
Resumes(p) ==
    /\ Under(p, "recover") /\ IsJournal(anchor)
    /\ \/ Go(p, "resume", proc[p].config) /\ UNCHANGED <<disk, lock, stamps>>
       \/ Fail(p)
    /\ Quiet

\* saveEnrollmentAnchorLocked, as far as the anchor in the slot admits it.
Admits(c) ==
    \/ anchor = None
    \/ /\ ~ IsJournal(anchor) /\ SameBase(anchor.trust, c)
       /\ \/ anchor.trust.keyset = c.keyset
          \/ Behind(c)

\* installKeysetLocked: the anchor first, ...
Install(p) ==
    LET c == proc[p].config
        next == [c EXCEPT !.keyset = proc[p].pick] IN
    /\ Under(p, "install")
    /\ \/ /\ c.keyset = proc[p].pick
          /\ Client(p) /\ Give(p)
          /\ UNCHANGED <<disk, stamps>>
       \/ /\ c.keyset # proc[p].pick
          /\ IF T!Transition(c.root, c.keyset, proc[p].pick) /\ Admits(next)
             THEN /\ anchor' = Anchor(TrustOf(next))
                  /\ Go(p, "replace", next)
                  /\ UNCHANGED <<file, preference, legacy, lock, stamps>>
             ELSE Fail(p)
    /\ Quiet

\* ... then the file.
Replace(p) ==
    /\ Under(p, "replace")
    /\ file' = proc[p].config
    /\ Client(p) /\ Give(p)
    /\ UNCHANGED <<preference, anchor, legacy, stamps>> /\ Quiet

\* loadDeviceEnrollmentAnchor: the client opens if both say the same.
Load(p) ==
    /\ Under(p, "held") /\ proc[p].op = "load"
    /\ IF Slot # None /\ ~ IsJournal(anchor) /\ Slot.trust = TrustOf(proc[p].config)
       THEN /\ anchor # None
            /\ Client(p) /\ Give(p)
            /\ UNCHANGED <<disk, stamps>>
       ELSE Fail(p)
    /\ Quiet

-----------------------------------------------------------------------------
(* Enrollment: setup claims, bootstrap and login, restoration.             *)

Stamp == IF file = None THEN stamps + 1 ELSE file.at

\* HQ has approved the claim and its keyset verifies.
Claim(p) ==
    LET k == served.keyset
        c == [root |-> served.root, keyset |-> k, at |-> Stamp, mode |-> None] IN
    /\ proc[p].pc = "idle" /\ "claim" \in does[p]
    /\ IF file = None THEN stamps < MaxStamps /\ T!Initial(served.root, k)
       ELSE /\ file.root = served.root
            /\ IF file.keyset \in {None, k} THEN T!Initial(served.root, k) ELSE T!Update(file.keyset, k)
    /\ stamps' = IF file = None THEN stamps + 1 ELSE stamps
    /\ Become(p, [op |-> "claim", pc |-> "wait", config |-> c, pick |-> None, since |-> now])
    /\ UNCHANGED <<disk, lock>> /\ Quiet

\* A bootstrap grant, or the approval of a first login: the file first.
Bootstrap(p) ==
    LET k == served.keyset IN
    /\ proc[p].pc = "idle" /\ "bootstrap" \in does[p]
    /\ T!Initial(served.root, k)
    /\ \/ /\ file = None /\ stamps < MaxStamps
          /\ \E m \in Modes :
                Become(p, [op |-> "bootstrap", pc |-> "write", pick |-> None, since |-> 0,
                           config |-> [root |-> served.root, keyset |-> k, at |-> stamps + 1, mode |-> m]])
          /\ stamps' = stamps + 1
       \/ /\ file # None /\ file.root = served.root
          /\ Become(p, [op |-> "bootstrap", pc |-> "write", pick |-> None, since |-> 0,
                        config |-> [Config EXCEPT !.keyset = k]])
          /\ UNCHANGED stamps
    /\ UNCHANGED <<disk, lock>> /\ Quiet

\* Mutant: an approved keyset replaces the stored one whatever it is.
AnyApproved(c, k) == T!Live(k)

\* assertReauthenticationSigningTrust
Approved(c, k) ==
    IF c.keyset = None THEN T!Initial(c.root, k)
    ELSE IF k = c.keyset THEN T!Live(k) ELSE T!Successor(c.root, c.keyset, k)

\* login --reauthenticate: an anchor that is missing is restored.
Reauthenticate(p) ==
    /\ proc[p].pc = "idle" /\ file # None /\ Slot = None
    /\ file.root = served.root /\ Approved(Config, served.keyset)
    /\ Begin(p, "restore", "wait",
             IF Config.keyset = None THEN Config ELSE [Config EXCEPT !.keyset = served.keyset],
             IF Config.keyset \in {None, served.keyset} THEN None ELSE served.keyset)

\* saveDeviceEnrollmentAnchor
Save(p) ==
    LET c == proc[p].config
        op == proc[p].op IN
    /\ Under(p, "held") /\ op \in {"claim", "bootstrap", "restore"}
    /\ IF /\ op = "claim" => now = proc[p].since
          /\ IF op = "restore" THEN Slot = None ELSE Admits(c)
       THEN /\ anchor' = Anchor(TrustOf(c))
            /\ IF op = "claim" \/ (op = "restore" /\ proc[p].pick # None) THEN Go(p, "write", c)
               ELSE IF op = "bootstrap" /\ c.mode # None THEN Go(p, "prefer", c)
               ELSE Become(p, Idle)
            /\ Give(p)
            /\ UNCHANGED <<file, preference, legacy, stamps>>
       ELSE Fail(p)
    /\ Quiet

\* saveDeviceConfig, without the lock; a claim must not have expired.
Write(p) ==
    /\ proc[p].pc = "write"
    /\ IF proc[p].op = "claim" /\ now # proc[p].since THEN Fail(p)
       ELSE /\ file' = proc[p].config
            /\ IF proc[p].op = "bootstrap" THEN Become(p, [proc[p] EXCEPT !.pc = "wait"]) ELSE Become(p, Idle)
            /\ UNCHANGED <<preference, anchor, legacy, lock, stamps>>
    /\ Quiet

\* login --unattended needs a connection, --no-unattended nothing.
Prefer(p) ==
    /\ proc[p].pc = "idle" /\ file # None
    /\ \E m \in {"manual", "resume"} :
          /\ m = "resume" => /\ Config.keyset # None => T!Live(Config.keyset)
                             /\ Slot # None /\ ~ IsJournal(anchor) /\ Slot.trust = TrustOf(Config)
          /\ Begin(p, "prefer", "prefer", Config, m)

\* saveDeviceConnectionPreference, for an enrollment that has not changed but
\* for its keyset.
SavePreference(p) ==
    LET c == proc[p].config
        login == proc[p].op = "prefer" IN
    /\ proc[p].pc = "prefer"
    /\ IF file # None /\ SameBase(file, c) /\ (login => Config.mode = c.mode)
       THEN preference' = [to |-> <<c.root, c.at>>, mode |-> IF login THEN proc[p].pick ELSE c.mode]
       ELSE UNCHANGED preference
    /\ Become(p, Idle)
    /\ UNCHANGED <<file, anchor, legacy, lock, stamps>> /\ Quiet

-----------------------------------------------------------------------------
(* The recovery of expired trust.                                          *)

\* planSigningRecovery: an expired keyset that file and anchor agree on.
Recoverable(c) ==
    /\ c # None /\ c.keyset # None /\ ~ T!Live(c.keyset)
    /\ Slot # None /\ ~ IsJournal(anchor) /\ Slot.trust = TrustOf(c)

\* Mutant: a keyset that skips a generation, from any root.
AnyCandidate(c, r, k) == r # c.root /\ T!Initial(r, k)

\* What both approvals and the candidate must be for (checkedRecoveryHostContext,
\* parseDeviceSigningRecoveryCandidate).
Candidate(c, r, k) == r # c.root /\ T!Initial(r, k) /\ k.gen = c.keyset.gen + 1

Deliver(p) ==
    /\ proc[p].pc = "idle" /\ Recoverable(Config)
    /\ Candidate(Config, served.root, served.keyset)
    /\ Begin(p, "deliver", "wait", Config, served)

\* Mutant: the recovered configuration keeps its connection mode.
KeepsMode(c, x) == [c EXCEPT !.root = x.root, !.keyset = x.keyset]

Replacement(c, x) == [c EXCEPT !.root = x.root, !.keyset = x.keyset, !.mode = "manual"]

\* commitSigningRecoveryJournal, planned again under the lock.
Commit(p) ==
    LET c == proc[p].config IN
    /\ Under(p, "held") /\ proc[p].op = "deliver"
    /\ IF /\ now = proc[p].since /\ Config = c /\ Recoverable(c)
          /\ Candidate(c, proc[p].pick.root, proc[p].pick.keyset)
       THEN /\ anchor' = Journal(TrustOf(Replacement(c, proc[p].pick)), c)
            /\ Go(p, "resume", c)
            /\ UNCHANGED <<file, preference, legacy, lock, stamps>>
       ELSE Fail(p)
    /\ Quiet

\* parseJournal: the configuration is what the journal replaces, or the
\* replacement, and the new keyset is still good.
IsNext(c) == c # None /\ c = Replacement(anchor.from, anchor.trust)
IsPrevious(c) == c # None /\ c = anchor.from

\* resumeSigningRecoveryJournal: the file, ...
Resume(p) ==
    /\ Under(p, "resume")
    /\ IF (IsNext(Config) \/ IsPrevious(Config)) /\ T!Live(anchor.trust.keyset)
       THEN /\ file' = IF IsNext(Config) THEN file ELSE Replacement(anchor.from, anchor.trust)
            /\ Go(p, "confirm", proc[p].config)
            /\ UNCHANGED <<preference, anchor, legacy, lock, stamps>>
       ELSE Fail(p)
    /\ Quiet

\* ... read back, then the anchor in place of the journal, ...
Confirm(p) ==
    /\ Under(p, "confirm")
    /\ IF IsNext(Config) /\ T!Live(anchor.trust.keyset)
       THEN /\ anchor' = Anchor(anchor.trust)
            /\ Go(p, "finish", Config)
            /\ UNCHANGED <<file, preference, legacy, lock, stamps>>
       ELSE Fail(p)
    /\ Quiet

\* ... and the file once more.
Finish(p) ==
    /\ Under(p, "finish")
    /\ IF Config = proc[p].config /\ T!Live(Config.keyset)
       THEN Recovered(p, Config) /\ UNCHANGED <<disk, stamps>>
       ELSE Fail(p)
    /\ Quiet

-----------------------------------------------------------------------------
\* A process ends, or its host withdraws the scope of its operation.
Stop(p) ==
    /\ proc[p].pc # "idle" /\ faults < MaxFaults
    /\ Fail(p)
    /\ faults' = faults + 1
    /\ UNCHANGED <<does, now, served>>

\* The protected store is lost, between two operations.
LoseStore ==
    /\ lock = None /\ faults < MaxFaults
    /\ anchor' = None /\ legacy' = None
    /\ faults' = faults + 1
    /\ UNCHANGED <<does, now, served, file, preference, lock, proc, stamps>>

\* HQ publishes another keyset, or starts again with another root.
Rotate ==
    /\ \E k \in Keysets, root \in Roots :
          /\ k.gen > served.keyset.gen /\ k.gen <= now + 2
          /\ T!Initial(root, k) \/ (root = served.root /\ T!Update(served.keyset, k))
          /\ served' = [root |-> root, keyset |-> k]
    /\ UNCHANGED <<does, now, disk, lock, proc, stamps, faults>>

Tick ==
    /\ now < MaxTime
    /\ \A p \in Processes : ~ At(p, "bootstrap", "write")
    /\ now' = now + 1
    /\ UNCHANGED <<does, served, disk, lock, proc, stamps, faults>>

Step(p) ==
    \/ Take(p) \/ Reread(p) \/ Migrate(p) \/ Agree(p) \/ CatchUp(p) \/ SaveAhead(p) \/ Unverified(p)
    \/ Resumes(p) \/ Install(p) \/ Replace(p) \/ Load(p) \/ Save(p) \/ Write(p) \/ SavePreference(p)
    \/ Commit(p) \/ Resume(p) \/ Confirm(p) \/ Finish(p)

Start(p) ==
    \/ Open(p) \/ Register(p) \/ Close(p) \/ Claim(p) \/ Bootstrap(p) \/ Reauthenticate(p)
    \/ Prefer(p) \/ Deliver(p)

Next == Rotate \/ Tick \/ LoseStore \/ \E p \in Processes : Step(p) \/ Start(p) \/ Stop(p)

Spec == Init /\ [][Next]_vars

-----------------------------------------------------------------------------
TypeOK ==
    /\ now \in 0 .. MaxTime
    /\ served \in [root : Roots, keyset : Keysets]
    /\ file \in Configs \cup {None}
    /\ preference \in [to : Roots \X (0 .. MaxStamps), mode : {"manual", "resume"}] \cup {None}
    /\ anchor \in Anchors \cup {None}
    /\ legacy \in Trusts \cup {None}
    /\ lock \in Processes \cup {None}
    /\ \A p \in Processes : proc[p].config \in Configs \cup {None}
    /\ stamps \in 0 .. MaxStamps
    /\ faults \in 0 .. MaxFaults

\* The next opening makes the file and the anchor agree, if its caller has a
\* host scope; `c' is what it reads of the file.
Mends(c) ==
    IF IsJournal(anchor) THEN (IsNext(c) \/ IsPrevious(c)) /\ T!Live(anchor.trust.keyset)
    ELSE SameBase(anchor.trust, c)
         /\ \/ anchor.trust.keyset = c.keyset
            \/ Ahead(c.keyset, anchor.trust.keyset, c.root)
            \/ Behind(c)

\* Operations that write the file and the anchor without the lock around both.
Enrolling(p) == proc[p].op \in {"claim", "bootstrap", "restore"}

\* A bootstrap was repeated while a recovery was to be finished.
Overwritten == IsJournal(anchor) /\ file.keyset \notin {anchor.from.keyset, anchor.trust.keyset}

\* Wherever a process ends, the device is not left with a file and an anchor
\* that no opening can reconcile while the trust they hold is good: the anchor is
\* ahead of the file, or a journal holds both sides.  Two cases are excepted, a
\* change of the connection mode (AcceptedFinishes shows it) and Overwritten.
NeverStranded ==
    /\ file # None /\ anchor # None
    /\ \A p \in Processes : ~ Enrolling(p)
    /\ LET k == IF anchor.trust.keyset = None THEN file.keyset ELSE anchor.trust.keyset IN
       k # None => T!Live(k)
    => \/ \E m \in Modes : Mends([Config EXCEPT !.mode = m])
       \/ Overwritten

\* The types, and that no crash strands the device.
Safe == TypeOK /\ NeverStranded

\* A recovery that was accepted can be finished as long as its keyset is good.
AcceptedFinishes ==
    file # None /\ IsJournal(anchor) /\ T!Live(anchor.trust.keyset) => Mends(Config)

\* A first claim whose file is missing can be made again.
Repeatable ==
    LET k == served.keyset IN
    /\ file = None /\ anchor # None /\ anchor.trust.root = served.root
    /\ T!Initial(served.root, k) /\ stamps < MaxStamps
    => Admits([root |-> served.root, keyset |-> k, at |-> Stamp, mode |-> None])

OptedIn(c, d) == c # None /\ SameBase(c, d) /\ c.mode = "resume"

\* Nothing but its user makes a device resume by itself: an enrollment that
\* resumes has done so before, or the preference changes in this step, or an
\* operation that has read it so writes back what it read.  Replaced trust never
\* takes the consent over.
Consents == [][Config' # None /\ Config'.mode = "resume" =>
                 \/ Config = None \/ preference' # preference
                 \/ OptedIn(Config, Config')
                 \/ \E p \in Processes : OptedIn(proc[p].config, Config')]_vars

\* Processes, crashes and two copies implement the one trust of DeviceTrust.
Implements == T!TrustSpec

=============================================================================
