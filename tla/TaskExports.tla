----------------------------- MODULE TaskExports ------------------------------
(***************************************************************************)
(* What a named session exports of the work it does: the work keeps a      *)
(* redacted copy of its turn in the vault when the organisation consents   *)
(* (cli/src/namedSessionRepositoryState.ts, namedSessionTaskExport.ts,     *)
(* stageNamedSessionTaskExport), and the service sends the copies to HQ,   *)
(* one after the other (syncNamedSessionTaskExports).  Both run in the     *)
(* session's queue, one at a time.  HQ changes the consent, another        *)
(* process refreshes the policy file or revokes the binding, and the       *)
(* service crashes, between any two steps.                                 *)
(*                                                                         *)
(* The redaction is a function of the capture and the policy: an export is *)
(* told by its work and by the policy it was made under.                   *)
(***************************************************************************)
EXTENDS Integers, FiniteSets, Sequences, TLC

CONSTANTS
    Works,       \* ids of local work
    MaxRevision, \* bound: revisions of the policy
    MaxSyncs,    \* bound: rounds of syncNamedSessionTaskExports
    MaxCrashes,  \* bound: crashes of the service
    Batch        \* rows.slice(0, 5)

TaskExportsAssumption == {MaxRevision, MaxSyncs, MaxCrashes} \subseteq Nat /\ Batch \in Nat \ {0}

VARIABLES
    policy,   \* HQ's policy of the workspace: revision and consent receipt, 0 for none
    local,    \* the verified policy file of the device
    bound,    \* the session's binding is not revoked
    ledger,   \* work_receipts of the session's budget
    rows,     \* provider_session_task_exports of the binding, in order of created_at
    capsule,  \* the trajectory capsule of each work: none, committed, queued
    hq,       \* the exports that HQ holds
    job,      \* the handler at the head of the queue
    hist      \* history, for the properties

vars == <<policy, local, bound, ledger, rows, capsule, hq, job, hist>>

Policies == {p \in [rev : 1..MaxRevision, consent : 0..MaxRevision] : p.consent <= p.rev}
NoPolicy == [rev |-> 0, consent |-> 0]
Idle == [at |-> "idle", work |-> "none", seen |-> NoPolicy, pol |-> NoPolicy, todo |-> <<>>, prep |-> NoPolicy]

Init ==
    /\ policy = [rev |-> 1, consent |-> 1] /\ local = policy /\ bound = TRUE
    /\ ledger = [w \in Works |-> "none"]
    /\ rows = <<>> /\ hq = {}
    /\ capsule = [w \in Works |-> "none"]
    /\ job = Idle
    /\ hist = [turns |-> [w \in Works |-> 0], moved |-> FALSE, broken |-> {}, sent |-> {},
               late |-> [r \in 1..MaxRevision |-> 0], orphan |-> 0, syncs |-> 0, crashes |-> 0]

At(at) == job.at = at
To(at) == job' = [job EXCEPT !.at = at]
Staged(w) == \E i \in DOMAIN rows : rows[i].work = w
Pending == SelectSeq(rows, LAMBDA r : ~r.acked)

\* verifyWorkspacePolicyForTransmission: the current policy, or a failure; the file is replaced.
Refresh ==
    /\ local' = policy
    /\ hist' = [hist EXCEPT !.moved = @ \/ local # policy]

----------------------------------------------------------------------------
\* HQ and the other processes of the device.

Changes(c) ==
    /\ policy.rev < MaxRevision
    /\ c \in {0, policy.consent, policy.rev + 1}
    /\ policy' = [rev |-> policy.rev + 1, consent |-> c]
    /\ UNCHANGED <<local, bound, ledger, rows, capsule, hq, job, hist>>

OthersRefresh ==
    /\ local # policy /\ Refresh
    /\ UNCHANGED <<policy, bound, ledger, rows, capsule, hq, job>>

Revokes ==
    /\ bound /\ bound' = FALSE
    /\ UNCHANGED <<policy, local, ledger, rows, capsule, hq, job, hist>>

\* The relay uploads the capsules that are queued; that is outside this module.
Crash ==
    /\ hist.crashes < MaxCrashes
    /\ job' = Idle
    /\ ledger' = [w \in Works |-> IF ledger[w] = "executing" THEN "interrupted" ELSE ledger[w]]
    /\ hist' = [hist EXCEPT !.crashes = @ + 1]
    /\ UNCHANGED <<policy, local, bound, rows, capsule, hq>>

----------------------------------------------------------------------------
\* One piece of local work.

\* A mutant: interrupted work may be asked for again.
AsksAgain(w) == ledger[w] \in {"none", "interrupted", "failed"}

Recordable(w) == ledger[w] = "none"

Begin(w) ==
    /\ At("idle") /\ Recordable(w)
    /\ Refresh
    /\ ledger' = [ledger EXCEPT ![w] = "executing"]
    /\ job' = [Idle EXCEPT !.at = "boundary", !.work = w]
    /\ UNCHANGED <<policy, bound, rows, capsule, hq>>

\* withActivationBoundary: the state before the task is kept under the policy of the file;
\* when it cannot be, the task runs all the same.
Boundary ==
    /\ At("boundary")
    /\ \E kept \in BOOLEAN :
          job' = [job EXCEPT !.at = "turn",
                             !.seen = IF kept /\ local.consent # 0 /\ bound THEN local ELSE NoPolicy]
    /\ hist' = [hist EXCEPT !.moved = FALSE]
    /\ UNCHANGED <<policy, local, bound, ledger, rows, capsule, hq>>

\* The second authorizeLocalWork and the provider's turn.
Turn ==
    /\ At("turn")
    /\ To("retain")
    /\ local' = policy
    /\ hist' = [hist EXCEPT !.turns[job.work] = @ + 1, !.moved = @ \/ local # policy]
    /\ UNCHANGED <<policy, bound, ledger, rows, capsule, hq>>

\* A mutant: any consent of the organisation will do.
AnyConsent(seen, now) == seen # NoPolicy /\ now.consent # 0

\* retainRepositoryState: the policy is still the one of the boundary.
Retainable(seen, now) == seen # NoPolicy /\ now.consent # 0 /\ now = seen

Retain ==
    /\ At("retain")
    /\ job' = IF Retainable(job.seen, local) /\ bound THEN [job EXCEPT !.at = "keep", !.pol = local]
              ELSE [job EXCEPT !.at = "evidence"]
    /\ hist' = [hist EXCEPT !.broken = IF hist.moved /\ job'.at = "keep" THEN @ \cup {job.work} ELSE @]
    /\ UNCHANGED <<policy, local, bound, ledger, rows, capsule, hq>>

\* retainNamedSessionRepositoryState: the source authorization before and after the task is one.
Keep ==
    /\ At("keep")
    /\ To("stage") \/ To("evidence")
    /\ UNCHANGED <<policy, local, bound, ledger, rows, capsule, hq, hist>>

\* The projection of a capture is ready, or its paths, size or content exclude it.
Projections == {"ready", "excluded"}

\* stageNamedSessionTaskExport: the binding is read, the projection made, the blobs written.
Stage ==
    /\ At("stage")
    /\ \E exported \in Projections :
          IF bound /\ exported = "ready" THEN To("insert") ELSE To("evidence")
    /\ UNCHANGED <<policy, local, bound, ledger, rows, capsule, hq, hist>>

\* stageProviderSessionTaskExport, after the blobs are written: one row of a binding that is not revoked.
Insert ==
    /\ At("insert") /\ To("evidence")
    /\ rows' = IF bound /\ ~Staged(job.work)
               THEN Append(rows, [work |-> job.work, pol |-> job.pol, acked |-> FALSE])
               ELSE rows
    /\ UNCHANGED <<policy, local, bound, ledger, capsule, hq, hist>>

\* queueNamedSessionEvidence: the capsule is committed once, and queued.
Evidence ==
    /\ At("evidence")
    /\ \/ bound /\ To("queue") /\ capsule' = [capsule EXCEPT ![job.work] = "committed"]
       \/ To("finish") /\ UNCHANGED capsule
    /\ UNCHANGED <<policy, local, bound, ledger, rows, hq, hist>>

Queue ==
    /\ At("queue") /\ To("finish")
    /\ capsule' = [capsule EXCEPT ![job.work] = "queued"]
    /\ UNCHANGED <<policy, local, bound, ledger, rows, hq, hist>>

\* finishWork; any step of the work may fail before.
Finish ==
    /\ job.work # "none"
    /\ job' = Idle
    /\ ledger' = [ledger EXCEPT ![job.work] = IF At("finish") THEN "completed" ELSE "failed"]
    /\ UNCHANGED <<policy, local, bound, rows, capsule, hq, hist>>

----------------------------------------------------------------------------
\* One round of the exports.

Syncing == job.at \in {"first", "check", "second", "rebound", "send", "reply", "ack"}
Row == Head(job.todo)
Over == job' = Idle

Start ==
    /\ At("idle") /\ hist.syncs < MaxSyncs /\ bound /\ Pending # <<>>
    /\ job' = [Idle EXCEPT !.at = "first",
                           !.todo = SubSeq(Pending, 1, IF Len(Pending) < Batch THEN Len(Pending) ELSE Batch)]
    /\ hist' = [hist EXCEPT !.syncs = @ + 1]
    /\ UNCHANGED <<policy, local, bound, ledger, rows, capsule, hq>>

\* A mutant: any consent, not the one of the export.
Consents(p, row) == p.consent # 0

Authorized(p, row) == p.consent # 0 /\ p = row.pol

\* loadPolicy, before the content is read again; the round ends unless it is the consent of the row.
First ==
    /\ At("first")
    /\ Refresh
    /\ IF Authorized(policy, Row) THEN job' = [job EXCEPT !.at = "check", !.pol = policy] ELSE Over
    /\ UNCHANGED <<policy, bound, ledger, rows, capsule, hq>>

\* The binding is read and the projection repeated; it must be what was retained.
Check ==
    /\ At("check")
    /\ IF bound THEN job' = [job EXCEPT !.at = "second", !.prep = policy] ELSE Over
    /\ UNCHANGED <<policy, local, bound, ledger, rows, capsule, hq, hist>>

\* The policy once more, after the content was read.
Second ==
    /\ At("second")
    /\ Refresh
    /\ IF Authorized(policy, Row) THEN job' = [job EXCEPT !.at = "rebound", !.pol = policy] ELSE Over
    /\ UNCHANGED <<policy, bound, ledger, rows, capsule, hq>>

Rebound ==
    /\ At("rebound")
    /\ IF bound THEN To("send") ELSE Over
    /\ UNCHANGED <<policy, local, bound, ledger, rows, capsule, hq, hist>>

\* The request leaves; HQ takes it, refuses it or never sees it.
Send ==
    /\ At("send") /\ To("reply")
    /\ hq' \in {hq, hq \cup {Row.work}}
    /\ hist' = [hist EXCEPT
                  !.sent = @ \cup {[work |-> Row.work, pol |-> Row.pol, prep |-> job.prep]},
                  !.late[policy.rev] = IF policy = Row.pol THEN @ ELSE @ + 1,
                  !.orphan = IF bound THEN @ ELSE @ + 1]
    /\ UNCHANGED <<policy, local, bound, ledger, rows, capsule>>

\* A receipt names the export, of those HQ holds, that it is for; any other answer, or none, ends the round.
Reply(x) ==
    /\ At("reply") /\ x \in hq
    /\ IF x = Row.work THEN To("ack") ELSE Over
    /\ UNCHANGED <<policy, local, bound, ledger, rows, capsule, hq, hist>>

\* acknowledgeProviderSessionTaskExport, and the next row of the round.
Acknowledge ==
    /\ At("ack")
    /\ IF bound
       THEN /\ rows' = [i \in DOMAIN rows |-> IF rows[i].work = Row.work THEN [rows[i] EXCEPT !.acked = TRUE] ELSE rows[i]]
            /\ job' = IF Len(job.todo) = 1 THEN Idle
                      ELSE [Idle EXCEPT !.at = "first", !.todo = Tail(job.todo)]
       ELSE Over /\ UNCHANGED rows
    /\ UNCHANGED <<policy, local, bound, ledger, capsule, hq, hist>>

\* A policy that cannot be read, content that cannot, a definitive refusal, a lost answer.
Ends ==
    /\ Syncing /\ Over
    /\ UNCHANGED <<policy, local, bound, ledger, rows, capsule, hq, hist>>

Next ==
    \/ \E c \in 0..MaxRevision : Changes(c)
    \/ OthersRefresh \/ Revokes \/ Crash
    \/ \E w \in Works : Begin(w)
    \/ Boundary \/ Turn \/ Retain \/ Keep \/ Stage \/ Insert \/ Evidence \/ Queue \/ Finish
    \/ Start \/ First \/ Check \/ Second \/ Rebound \/ Send
    \/ \E x \in Works : Reply(x)
    \/ Acknowledge \/ Ends

Spec == Init /\ [][Next]_vars

-----------------------------------------------------------------------------
\* The variables have their types.
TypeOK ==
    /\ policy \in Policies /\ local \in Policies /\ local.rev <= policy.rev
    /\ bound \in BOOLEAN /\ hq \subseteq Works
    /\ ledger \in [Works -> {"none", "executing", "completed", "failed", "interrupted"}]
    /\ capsule \in [Works -> {"none", "committed", "queued"}]
    /\ rows \in Seq([work : Works, pol : Policies, acked : BOOLEAN])
    /\ job.work \in Works \cup {"none"} /\ {job.seen, job.pol, job.prep} \subseteq Policies \cup {NoPolicy}

\* What is exported of a task was kept under one consent: the device's policy did not change
\* between the state kept before the task and the capture kept after it.
KeptUnderOneConsent == hist.broken = {}

\* No export is sent unless HQ's consent to it still stood when its content had been read again.
SentAsConsented == \A s \in hist.sent : s.pol.consent # 0 /\ s.prep = s.pol

\* When a consent or the binding is taken away, at most the one export under way leaves after it.
FewLate == hist.orphan <= 1 /\ \A r \in 1..MaxRevision : hist.late[r] <= 1

\* An export is retired only once HQ holds it, in the order they were made, one for each work,
\* whatever was refused, lost or interrupted.
RetiredInOrder ==
    \A i, k \in DOMAIN rows :
        /\ rows[i].acked => rows[i].work \in hq
        /\ rows[k].acked /\ i < k => rows[i].acked
        /\ i # k => rows[i].work # rows[k].work

\* Work is given to the provider once, whatever failed or crashed.
OneTurn == \A w \in Works : hist.turns[w] <= 1

ExportsSafe == TypeOK /\ KeptUnderOneConsent /\ SentAsConsented /\ FewLate /\ RetiredInOrder /\ OneTurn

=============================================================================
