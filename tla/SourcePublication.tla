--------------------------- MODULE SourcePublication ---------------------------
(***************************************************************************)
(* How the edits of a checkout reach the repository's source at HQ         *)
(* (cli/src/repositorySourceSync.ts, repositorySourceReconciliation.ts,    *)
(* repositorySourceRestoration.ts, repositorySourceResolutionStore.ts,     *)
(* repositoryCandidateSync.ts, and their use in cli/src/index.ts): a relay *)
(* scans, merges with HQ's head and uploads a candidate, polls it and      *)
(* records it; a user approves conflicts, adopts HQ's candidate, restores  *)
(* a release whose knowledge HQ has archived, or fences such an upload.    *)
(*                                                                         *)
(* A content gives each path a version; versions are never reused, but a   *)
(* checkout may go back to one it had.  HQ is external: it publishes a     *)
(* candidate only over the head that it expects, and answers a repeated    *)
(* operation with what became of it.                                       *)
(***************************************************************************)
EXTENDS Integers, TLC

CONSTANTS
    Paths,         \* the paths of the repository
    MaxVersion,    \* bound on versions
    MaxReleases,   \* bound on publications
    MaxTurns,      \* bound on returns to other versions, approvals and onboardings
    MaxAttempts,   \* bound on the attempts of a restoration, none if 0
    MaxFaults      \* bound on lost answers, failed saves and crashes of commands

PublicationAssumption == {MaxVersion, MaxReleases, MaxTurns, MaxAttempts, MaxFaults} \subseteq Nat

Absent == [p \in Paths |-> -1]
NoOp == [snap |-> Absent, exp |-> Absent, gen |-> 0, rest |-> 0]
NoOutbox == [op |-> NoOp, state |-> "none", local |-> Absent, base |-> Absent, prev |-> NoOp, asked |-> FALSE, mark |-> "none"]
Idle == [at |-> "none"]

VARIABLES
    tree,        \* the checkout
    head,        \* HQ: the published content, the operation that published it, the releases, whether the last is archived
    hq,          \* HQ: the operations it knows, and what became of them
    wire,        \* uploads that HQ may still receive
    registry,    \* the workspace's package in the registry
    relay,       \* the relay: its copy of the package and of the baseline, the watcher, the flight
    outbox,      \* the candidate outbox
    cmd,         \* a restoration command
    active,      \* the approved resolution
    hist,        \* history, for the properties
    made, turns, faults

vars == <<tree, head, hq, wire, registry, relay, outbox, cmd, active, hist, made, turns, faults>>
atHq == <<head, hq, wire>>
device == <<registry, relay, outbox, cmd>>
bounds == <<made, turns, faults>>

Package(op, state, localBase, pub, pendLocal, pendOp) ==
    [op |-> op, state |-> state, localBase |-> localBase, pub |-> pub, pendLocal |-> pendLocal, pendOp |-> pendOp]
Foreign(content) == [snap |-> content, exp |-> Absent, gen |-> 0, rest |-> 0]
Origin == [p \in Paths |-> 0]

\* The first publisher's checkout, and that of a device that joined with an edit of its own.
Init ==
    /\ \/ tree = Origin /\ made = 0
       \/ \E p \in Paths : tree = [Origin EXCEPT ![p] = 1] /\ made = 1
    /\ registry = Package(Foreign(Origin), "published", tree, IF made = 0 THEN Origin ELSE Absent, Absent, NoOp)
    /\ head = [content |-> Origin, op |-> Foreign(Origin), rel |-> 0, archived |-> FALSE]
    /\ hq = (Foreign(Origin) :> "published") /\ wire = {}
    /\ relay = [on |-> FALSE] /\ outbox = [NoOutbox EXCEPT !.op = Foreign(Origin), !.state = "published"]
    /\ cmd = Idle /\ active = [base |-> Absent, tree |-> Absent, head |-> Absent]
    /\ hist = [had |-> [p \in Paths |-> {0, tree[p]}], out |-> {0}, taken |-> 1 .. made,
               approved |-> {}, recorded |-> {}, lost |-> FALSE]
    /\ turns = 0 /\ faults = 0

Locked == cmd.at \in {"post", "registry", "mark", "fencing", "fenced"}
Off == ~ relay.on
Restorations(ops) == {op \in ops : op.rest > 0}
Known(op) == op \in DOMAIN hq /\ hq[op] # "fenced"

-----------------------------------------------------------------------------
(* The checkout, other devices and HQ *)

Become(content) ==
    /\ tree' = content
    /\ hist' = [hist EXCEPT !.had = [p \in Paths |-> @[p] \cup {content[p]}]]

Edit(p) ==
    /\ made < MaxVersion /\ made' = made + 1 /\ Become([tree EXCEPT ![p] = made + 1])
    /\ UNCHANGED <<atHq, device, active, turns, faults>>

\* The checkout goes back to a version it had, or takes HQ's.
Checkout(p) ==
    /\ turns < MaxTurns /\ turns' = turns + 1
    /\ \E v \in hist.had[p] \cup {head.content[p]} : v # tree[p] /\ Become([tree EXCEPT ![p] = v])
    /\ UNCHANGED <<atHq, device, active, made, faults>>

Publish(content, op) ==
    head' = [content |-> content, op |-> op, rel |-> head.rel + 1, archived |-> FALSE]

OthersPublish(p) ==
    /\ made < MaxVersion /\ made' = made + 1 /\ head.rel < MaxReleases
    /\ LET content == [head.content EXCEPT ![p] = made + 1] IN
       Publish(content, Foreign(content)) /\ hq' = hq @@ (Foreign(content) :> "published")
    /\ hist' = [hist EXCEPT !.out = @ \cup {made + 1}]
    /\ UNCHANGED <<tree, wire, device, active, turns, faults>>

Archive ==
    /\ MaxAttempts > 0 /\ ~ head.archived /\ head' = [head EXCEPT !.archived = TRUE]
    /\ UNCHANGED <<tree, hq, wire, device, active, hist, bounds>>

Lost(op) == \E p \in Paths : LET old == head.content[p] new == op.snap[p] IN
                old # new /\ old \notin hist.had[p] /\ <<old, new>> \notin hist.approved

HqPublishes(op) ==
    /\ op \in DOMAIN hq /\ hq[op] = "accepted" /\ op.exp = head.content /\ head.rel < MaxReleases
    /\ hq' = [hq EXCEPT ![op] = "published"] /\ Publish(op.snap, op)
    /\ hist' = [hist EXCEPT !.lost = @ \/ Lost(op), !.out = @ \cup {op.snap[p] : p \in Paths}]
    /\ UNCHANGED <<tree, wire, device, active, bounds>>

HqBlocks(op) ==
    /\ op \in DOMAIN hq /\ hq[op] = "accepted" /\ hq' = [hq EXCEPT ![op] = "blocked"]
    /\ UNCHANGED <<tree, head, wire, device, active, hist, bounds>>

Admit(op) == hq' = IF op \in DOMAIN hq THEN hq ELSE hq @@ (op :> "accepted")

\* An upload whose sender has given up arrives, or never will.
Arrives(op) ==
    /\ op \in wire /\ wire' = wire \ {op} /\ (Admit(op) \/ UNCHANGED hq)
    /\ UNCHANGED <<tree, head, device, active, hist, bounds>>

-----------------------------------------------------------------------------
(* The merge *)

\* Mutant: the candidate that was published is the baseline, with what others changed.
MergedBase(pack, pub) == IF pack.state = "published" THEN pack.op.snap ELSE pub

Base(pack, pub) == IF pub # Absent THEN pub
                   ELSE IF pack.state = "published" /\ pack.pendOp = NoOp THEN pack.localBase ELSE Absent

\* Mutant: the local side wins.
NoConflicts(local, base, theirs) == {}

Conflicts(local, base, theirs) ==
    {p \in Paths : local[p] # base[p] /\ theirs[p] # base[p] /\ local[p] # theirs[p]}

Merge(local, base, theirs) == [p \in Paths |-> IF local[p] # base[p] THEN local[p] ELSE theirs[p]]

\* A resolution is for one baseline, one checkout and one head; it may have
\* expired when it is needed, which only Scan and Submit make a difference of.
Approved(base) == base # Absent /\ active = [base |-> base, tree |-> tree, head |-> head.content]
Mergeable(base) == Conflicts(tree, base, head.content) = {} \/ Approved(base)

Approve ==
    LET base == Base(registry, registry.pub) clash == Conflicts(tree, base, head.content) IN
    /\ registry.state = "published" /\ registry.pendOp = NoOp /\ base # Absent /\ clash # {} /\ ~ Approved(base)
    /\ turns < MaxTurns /\ turns' = turns + 1
    /\ active' = [base |-> base, tree |-> tree, head |-> head.content]
    /\ hist' = [hist EXCEPT !.approved = @ \cup {<<head.content[p], tree[p]>> : p \in clash}]
    /\ UNCHANGED <<tree, atHq, device, made, faults>>

-----------------------------------------------------------------------------
(* The outbox *)

Reconciled == outbox.op.rest = 0 \/ outbox.mark = outbox.state

\* Mutant: an upload that HQ may have admitted is given up for another.
ReplacesPending(op) ==
    /\ outbox.state = "fenced" => op.rest = outbox.op.rest + 1
    /\ outbox.op # op => outbox.state # "accepted" /\ (outbox.state \in {"published", "blocked"} => Reconciled)

\* Mutant: a restoration is replaced before the registry has it.
ReplacesUnrecorded(op) ==
    /\ ~ (outbox.state = "pending_upload" /\ outbox.asked)
    /\ outbox.state = "fenced" => op.rest = outbox.op.rest + 1
    /\ outbox.op # op => outbox.state \in {"none", "published", "blocked", "fenced"}

MaySend(op) ==
    /\ ~ (outbox.state = "pending_upload" /\ outbox.asked)
    /\ outbox.state = "fenced" => op.rest = outbox.op.rest + 1
    /\ outbox.op # op => /\ outbox.state \in {"none", "published", "blocked", "fenced"}
                         /\ outbox.state # "fenced" => Reconciled

Pending(op) == IF outbox.op = op THEN outbox ELSE [NoOutbox EXCEPT !.op = op, !.state = "pending_upload"]

-----------------------------------------------------------------------------
(* The relay *)

Flying(at) == relay.on /\ relay.flight.at = at
Grounded == Flying("none")
Fails == relay' = [relay EXCEPT !.flight = Idle, !.seen = Absent]

Start ==
    LET pub == IF registry.pub # Absent THEN registry.pub
               ELSE IF registry.state = "published" /\ registry.op.snap = registry.localBase THEN registry.localBase ELSE Absent
        base == Base(registry, pub)
        seeded == base # Absent /\ registry.localBase # Absent /\ registry.localBase \in {base, registry.pendLocal} IN
    /\ Off
    /\ relay' = [on |-> TRUE, pack |-> registry, pub |-> pub, seen |-> IF seeded THEN registry.localBase ELSE Absent, flight |-> Idle]
    /\ UNCHANGED <<tree, atHq, registry, outbox, cmd, active, hist, bounds>>

Stop ==
    /\ relay.on /\ relay' = [on |-> FALSE]
    /\ UNCHANGED <<tree, atHq, registry, outbox, cmd, active, hist, bounds>>

\* What HQ answers to an upload of op, or to a question about it.
Answer(op) == IF op \in DOMAIN hq THEN hq[op] ELSE "accepted"
\* A stable checkout that is not the last one collected is merged with the
\* head; the knowledge in it is of the last release or of the one before.
Scan ==
    LET base == Base(relay.pack, relay.pub) merged == Merge(tree, base, head.content) IN
    /\ Grounded /\ tree # relay.seen
    /\ \/ /\ Mergeable(base) /\ merged = head.content
          /\ relay' = [relay EXCEPT !.flight = [at |-> "ready", local |-> tree, state |-> "already"]]
       \/ /\ Mergeable(base) /\ merged # head.content
          /\ \E gen \in {head.rel, IF head.rel = 0 THEN 0 ELSE head.rel - 1} : relay' = [relay EXCEPT !.flight =
                [at |-> "submit", local |-> tree, op |-> [snap |-> merged, exp |-> head.content, gen |-> gen, rest |-> 0],
                 resolved |-> Conflicts(tree, base, head.content) # {}]]
       \/ Conflicts(tree, base, head.content) # {} /\ relay.seen # Absent /\ Fails
    /\ UNCHANGED <<tree, atHq, registry, outbox, cmd, active, hist, bounds>>

\* A resolution is checked again, against the checkout as it is now.
Submit ==
    LET flight == relay.flight out == Pending(flight.op) IN
    /\ Flying("submit")
    /\ IF MaySend(flight.op) /\ (flight.resolved => active.tree = tree)
       THEN outbox' = out /\ relay' = [relay EXCEPT !.flight = [at |-> "send", local |-> flight.local, out |-> out]]
       ELSE Fails /\ UNCHANGED outbox
    /\ UNCHANGED <<tree, atHq, registry, cmd, active, hist, bounds>>

Uploads == relay.flight.out.state = "pending_upload"

Send ==
    LET flight == relay.flight op == flight.out.op IN
    /\ Flying("send")
    /\ IF op \in DOMAIN hq /\ hq[op] = "fenced" THEN Fails /\ UNCHANGED <<hq, outbox>>
       ELSE /\ (IF Uploads THEN Admit(op) ELSE UNCHANGED hq)
            /\ outbox' = [flight.out EXCEPT !.state = Answer(op)]
            /\ relay' = [relay EXCEPT !.flight = [at |-> "ready", local |-> flight.local, state |-> Answer(op), op |-> op]]
    /\ UNCHANGED <<tree, head, wire, registry, cmd, active, hist, bounds>>

SendLost ==
    /\ Flying("send") /\ faults < MaxFaults /\ faults' = faults + 1 /\ Fails
    /\ wire' = IF Uploads THEN wire \cup {relay.flight.out.op} ELSE wire
    /\ UNCHANGED <<tree, head, hq, registry, outbox, cmd, active, hist, made, turns>>

\* The relay's copy is changed first, and the registry saved from it whatever that holds.
Collected(pack) ==
    LET flight == relay.flight IN
    CASE flight.state = "already" -> [pack EXCEPT !.localBase = flight.local, !.pub = flight.local, !.pendLocal = Absent, !.pendOp = NoOp]
      [] flight.state = "published" -> Package(flight.op, "published", flight.local, flight.local, Absent, NoOp)
      [] flight.state = "accepted" -> Package(flight.op, "accepted", flight.local, pack.pub, flight.local, flight.op)
      [] OTHER -> [pack EXCEPT !.op = flight.op, !.state = "blocked", !.localBase = relay.pub]

Consume ==
    LET flight == relay.flight pack == Collected(relay.pack) blocked == flight.state = "blocked" IN
    /\ Flying("ready") /\ ~ Locked
    /\ \/ registry' = pack /\ UNCHANGED faults
       \/ faults < MaxFaults /\ faults' = faults + 1 /\ UNCHANGED registry
    /\ relay' = [relay EXCEPT !.pack = pack, !.flight = Idle,
                    !.pub = IF flight.state \in {"already", "published"} THEN flight.local ELSE @,
                    !.seen = IF blocked \/ faults' # faults THEN Absent ELSE flight.local]
    /\ hist' = [hist EXCEPT !.recorded = @ \cup Restorations({registry'.op})]
    /\ UNCHANGED <<tree, atHq, outbox, cmd, active, made, turns>>

\* Mutant: a blocked candidate's checkout becomes the baseline.
AdvancesBlocked(pack, state) ==
    [pack EXCEPT !.state = state, !.pub = IF state # "accepted" /\ pack.pendOp # NoOp THEN pack.pendLocal ELSE @,
                 !.pendLocal = IF state # "accepted" THEN Absent ELSE @, !.pendOp = IF state # "accepted" THEN NoOp ELSE @]

Advance(pack, state) ==
    [pack EXCEPT !.state = state,
                 !.localBase = IF state = "blocked" /\ pack.pendOp # NoOp THEN pack.pub ELSE @,
                 !.pub = IF state = "published" /\ pack.pendOp # NoOp THEN pack.pendLocal ELSE @,
                 !.pendLocal = IF state # "accepted" THEN Absent ELSE @,
                 !.pendOp = IF state # "accepted" THEN NoOp ELSE @]

\* The marker says which receipt the registry holds; it is made after the save.
Matches(pack, out) ==
    /\ pack.op = out.op /\ pack.state = out.state
    /\ pack.localBase = IF out.state = "blocked" THEN out.base ELSE out.local
    /\ pack.pub = IF out.state = "published" THEN out.local ELSE out.base
    /\ pack.pendLocal = IF out.state = "accepted" THEN out.local ELSE Absent
    /\ pack.pendOp = IF out.state = "accepted" THEN out.op ELSE NoOp
Marked(pack, out) == IF out.op.rest > 0 /\ Matches(pack, out) THEN [out EXCEPT !.mark = out.state] ELSE out

\* A poll writes what HQ says to the outbox before it knows whether the registry agrees.
Poll ==
    LET state == IF outbox.state = "accepted" THEN hq[outbox.op] ELSE outbox.state
        out == [outbox EXCEPT !.state = state]
        pack == Advance(relay.pack, state)
        agrees == /\ outbox.op = relay.pack.op /\ relay.pack.pendOp \in {NoOp, outbox.op}
                  /\ registry = relay.pack /\ ~ Locked IN
    /\ Grounded /\ outbox.state \in {"accepted", "published", "blocked"}
    /\ \/ /\ agrees /\ registry' = pack /\ outbox' \in {out, Marked(pack, out)} /\ (outbox' # outbox \/ pack # relay.pack)
          /\ relay' = [relay EXCEPT !.pack = pack, !.pub = pack.pub,
                          !.seen = IF state = "blocked" /\ relay.pack.state # "blocked" THEN Absent ELSE @]
          /\ hist' = [hist EXCEPT !.recorded = @ \cup Restorations({pack.op})] /\ UNCHANGED faults
       \/ /\ outbox' = out /\ out # outbox /\ UNCHANGED <<registry, relay, hist>>
          /\ IF agrees THEN faults < MaxFaults /\ faults' = faults + 1 ELSE UNCHANGED faults
    /\ UNCHANGED <<tree, atHq, cmd, active, made, turns>>

-----------------------------------------------------------------------------
(* Adoption of HQ's candidate by an onboarding *)

Adoptable(op) == op = head.op \/ (Known(op) /\ hq[op] = "accepted")

\* The outbox, and then the registry unless the command dies in between.
Adopt(op) ==
    LET state == hq[op]
        ofRest == outbox.op.rest > 0
        same == ofRest /\ outbox.state # "fenced" /\ outbox.op = op
        kept == ofRest /\ (outbox.state = "fenced" \/ same)
        pub == IF state = "published" /\ op.snap = tree THEN tree ELSE registry.pub
        pack == IF same THEN Package(op, state, IF state = "blocked" THEN outbox.base ELSE outbox.local,
                                     IF state = "published" THEN outbox.local ELSE outbox.base, Absent, NoOp)
                ELSE Package(op, state, tree, pub, Absent, NoOp)
        out == IF kept THEN outbox ELSE [NoOutbox EXCEPT !.op = op, !.state = state] IN
    /\ Adoptable(op) /\ turns < MaxTurns /\ turns' = turns + 1
    /\ outbox.state = "fenced" => op # outbox.op /\ state # "accepted"
    /\ ofRest /\ outbox.state # "fenced" =>
          outbox.state \in {"published", "blocked"} /\ (IF same THEN state = outbox.state ELSE Reconciled)
    /\ \/ /\ ~ Locked /\ registry' = pack /\ outbox' \in (IF same THEN {out, Marked(pack, out)} ELSE {out})
          /\ hist' = [hist EXCEPT !.recorded = @ \cup Restorations({op}),
                        !.taken = IF pack.pub = Absent THEN @ \cup {tree[p] : p \in Paths} ELSE @]
          /\ UNCHANGED faults
       \/ faults < MaxFaults /\ faults' = faults + 1 /\ outbox' = out /\ UNCHANGED <<registry, hist>>
    /\ <<registry', outbox'>> # <<registry, outbox>>
    /\ UNCHANGED <<tree, atHq, relay, cmd, active, made>>

-----------------------------------------------------------------------------
(* The restoration of an archived release *)

Goes(at) == cmd' = [cmd EXCEPT !.at = at]
Ends == cmd' = Idle
Holds == Off /\ registry = cmd.pack

Attempt ==
    CASE outbox.state = "fenced" -> outbox.op.rest + 1
      [] outbox.state = "pending_upload" /\ outbox.op.rest > 0 -> outbox.op.rest
      [] OTHER -> 1

\* The package for a receipt that the command holds.
Restored(op, state, local, base) ==
    Package(op, state, IF state = "blocked" THEN base ELSE local, IF state = "published" THEN local ELSE base,
            IF state = "accepted" THEN local ELSE Absent, IF state = "accepted" THEN op ELSE NoOp)
Saves(op, state, local, base) == cmd' = [at |-> "registry", pack |-> Restored(op, state, local, base)]

\* A plan made now; one that the outbox already carries is recovered instead.
BeginRestore ==
    LET base == Base(registry, registry.pub)
        op == [snap |-> Merge(tree, base, head.content), exp |-> head.content, gen |-> head.rel, rest |-> Attempt] IN
    /\ cmd = Idle /\ Off /\ head.archived /\ Attempt <= MaxAttempts /\ registry.pendOp = NoOp /\ registry.state \in {"published", "blocked"}
    /\ Mergeable(base) /\ (outbox.op = op => outbox.state = "fenced")
    /\ cmd' = [at |-> "plan", pack |-> registry, op |-> op, local |-> tree, base |-> base]
    /\ UNCHANGED <<tree, atHq, registry, relay, outbox, active, hist, bounds>>

Restore ==
    /\ cmd.at = "plan" /\ ~ Locked
    /\ IF Holds /\ tree = cmd.local /\ head.archived /\ head.content = cmd.op.exp /\ head.rel = cmd.op.gen /\ Mergeable(cmd.base) /\ MaySend(cmd.op)
       THEN LET out == [Pending(cmd.op) EXCEPT !.local = cmd.local, !.base = cmd.base, !.prev = cmd.pack.op] IN
            outbox' = out /\ cmd' = [at |-> "post", out |-> out]
       ELSE Ends /\ UNCHANGED outbox
    /\ UNCHANGED <<tree, atHq, registry, relay, active, hist, bounds>>

RestorePost ==
    LET out == cmd.out op == out.op IN
    /\ cmd.at = "post"
    /\ \/ /\ ~ (op \in DOMAIN hq /\ hq[op] = "fenced") /\ Admit(op)
          /\ outbox' = [out EXCEPT !.state = Answer(op)]
          /\ (IF Off THEN Saves(op, Answer(op), out.local, out.base) ELSE Ends) /\ UNCHANGED <<wire, faults>>
       \/ faults < MaxFaults /\ faults' = faults + 1 /\ Ends /\ wire' = wire \cup {op} /\ UNCHANGED <<hq, outbox>>
    /\ UNCHANGED <<tree, head, registry, relay, active, hist, made, turns>>

\* The candidate of an interrupted restoration is asked for, never uploaded again.
BeginRecover ==
    /\ cmd = Idle /\ Off /\ outbox.op.rest > 0 /\ outbox.state # "fenced" /\ Known(outbox.op)
    /\ registry.op \in {outbox.prev, outbox.op} /\ registry.pendOp \in {NoOp, outbox.op}
    /\ cmd' = [at |-> "recover", pack |-> registry, op |-> outbox.op, got |-> hq[outbox.op]]
    /\ UNCHANGED <<tree, atHq, registry, relay, outbox, active, hist, bounds>>

Recover ==
    /\ cmd.at = "recover"
    /\ IF Holds /\ outbox.op = cmd.op /\ (outbox.state \in {"published", "blocked"} => outbox.state = cmd.got)
       THEN outbox' = [outbox EXCEPT !.state = cmd.got] /\ Saves(cmd.op, cmd.got, outbox.local, outbox.base)
       ELSE Ends /\ UNCHANGED outbox
    /\ UNCHANGED <<tree, atHq, registry, relay, active, hist, bounds>>

\* No look at the relay or at the registry separates the save from its guards.
RestoreSave ==
    /\ cmd.at = "registry" /\ Goes("mark") /\ registry' = cmd.pack
    /\ hist' = [hist EXCEPT !.recorded = @ \cup {cmd.pack.op}]
    /\ UNCHANGED <<tree, atHq, relay, outbox, active, bounds>>

RestoreMark ==
    /\ cmd.at = "mark" /\ outbox' = Marked(cmd.pack, outbox) /\ Ends
    /\ UNCHANGED <<tree, atHq, registry, relay, active, hist, bounds>>

\* The fence of an upload that HQ has not admitted.
BeginFence ==
    /\ cmd = Idle /\ Off /\ outbox.op.rest > 0 /\ outbox.state = "pending_upload"
    /\ registry.op = outbox.prev /\ registry.pendOp = NoOp
    /\ cmd' = [at |-> "fence", pack |-> registry, op |-> outbox.op]
    /\ UNCHANGED <<tree, atHq, registry, relay, outbox, active, hist, bounds>>

AskFence ==
    /\ cmd.at = "fence"
    /\ IF Holds /\ outbox.op = cmd.op /\ outbox.state = "pending_upload"
       THEN LET out == [outbox EXCEPT !.asked = TRUE] IN outbox' = out /\ cmd' = [at |-> "fencing", out |-> out] ELSE Ends /\ UNCHANGED outbox
    /\ UNCHANGED <<tree, atHq, registry, relay, active, hist, bounds>>

\* HQ fences what it does not know; what it has admitted is only reported.
FencePost ==
    LET op == cmd.out.op IN
    /\ cmd.at = "fencing"
    /\ hq' = IF op \in DOMAIN hq THEN hq ELSE hq @@ (op :> "fenced")
    /\ \/ (IF Off /\ hq'[op] = "fenced" THEN Goes("fenced") ELSE Ends) /\ UNCHANGED faults
       \/ faults < MaxFaults /\ faults' = faults + 1 /\ Ends
    /\ UNCHANGED <<tree, head, wire, registry, relay, outbox, active, hist, made, turns>>

FenceSave ==
    /\ cmd.at = "fenced" /\ Ends
    /\ outbox' = IF outbox = cmd.out THEN [outbox EXCEPT !.state = "fenced"] ELSE outbox
    /\ UNCHANGED <<tree, atHq, registry, relay, active, hist, bounds>>

Crash ==
    /\ cmd # Idle /\ cmd.at \notin {"plan", "recover", "fence"} /\ faults < MaxFaults /\ faults' = faults + 1 /\ Ends
    /\ UNCHANGED <<tree, atHq, registry, relay, outbox, active, hist, made, turns>>

Next ==
    \/ \E p \in Paths : Edit(p) \/ Checkout(p) \/ OthersPublish(p)
    \/ Archive \/ \E op \in DOMAIN hq : HqPublishes(op) \/ HqBlocks(op) \/ Adopt(op)
    \/ \E op \in wire : Arrives(op)
    \/ Approve
    \/ Start \/ Stop \/ Scan \/ Submit \/ Send \/ SendLost \/ Consume \/ Poll
    \/ BeginRestore \/ Restore \/ RestorePost \/ BeginRecover \/ Recover \/ RestoreSave \/ RestoreMark
    \/ BeginFence \/ AskFence \/ FencePost \/ FenceSave \/ Crash

Spec == Init /\ [][Next]_vars

-----------------------------------------------------------------------------
(* Properties *)

TypeOK ==
    /\ tree \in [Paths -> Nat] /\ head.content \in [Paths -> Nat]
    /\ registry.state \in {"accepted", "published", "blocked"}
    /\ outbox.state \in {"pending_upload", "fenced", "accepted", "published", "blocked"}
    /\ made \in 0 .. MaxVersion /\ faults \in 0 .. MaxFaults

\* A device never publishes over a change it has not had in its checkout,
\* unless its user approved exactly that.
NoLostUpdate == ~ hist.lost

\* An edit that was never published is never taken for one that was: it
\* differs from the baseline, of the registry and of the relay.  Only an
\* onboarding where nothing was published yet takes the checkout as it is.
Hidden(base) == \E p \in Paths : base # Absent /\ tree[p] = base[p] /\ tree[p] \notin hist.out \cup hist.taken
EditsStaySeen ==
    ~ Hidden(Base(registry, registry.pub)) /\ (relay.on => ~ Hidden(Base(relay.pack, relay.pub)))

\* HQ never holds two restorations that are under way.
OneRestoration ==
    \A a, b \in {op \in DOMAIN hq : op.rest > 0 /\ hq[op] = "accepted"} : a = b

\* A restoration that HQ has admitted stays in the outbox until the registry
\* has recorded it.
ProvenanceKept ==
    \A op \in DOMAIN hq : op.rest > 0 /\ Known(op) => outbox.op = op \/ op \in hist.recorded

PublicationSafe == TypeOK /\ NoLostUpdate /\ EditsStaySeen /\ OneRestoration /\ ProvenanceKept
=============================================================================
