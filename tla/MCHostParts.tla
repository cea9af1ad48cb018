----------------------------- MODULE MCHostParts -----------------------------
(***************************************************************************)
(* Small instances of parts of a host that share no state with each other, *)
(* checked for safety together as MCDeviceParts does: the signed outboxes  *)
(* of a relay and of an isolated command, the upgrade of the relay, the     *)
(* publication of the edits of a checkout, without and with restorations,  *)
(* a named session, the turns of a provider, a relay in a container, and   *)
(* the exports of a session's work.                                        *)
(* In the other parts the outboxes are ones that nobody uses.              *)
(***************************************************************************)
EXTENDS MCSignedOutbox

CONSTANTS Unused

VARIABLES part, v1, v2, v3, v4, v5, v6, v7, v8, v9, v10, v11, v12, v13, v14, v15, v16, v17

vs == <<v1, v2, v3, v4, v5, v6, v7, v8, v9, v10, v11, v12, v13, v14, v15, v16, v17>>

U == INSTANCE RelayUpgrade WITH
    MaxVersion <- 3, MaxRuns <- 3, MaxFaults <- 1,
    shell <- v1, windows <- v2, unit <- v3, reg <- v4, enabled <- v5, journal <- v6, maint <- v7, archive <- v8,
    cmd <- v9, proc <- v10, poll <- v11, busy <- v12, trusted <- v13, torn <- v14, runs <- v15, faults <- v16

Cra == INSTANCE RelayUpgrade WITH
    MaxVersion <- 3, MaxRuns <- 2, MaxFaults <- 2,
    shell <- v1, windows <- v2, unit <- v3, reg <- v4, enabled <- v5, journal <- v6, maint <- v7, archive <- v8,
    cmd <- v9, proc <- v10, poll <- v11, busy <- v12, trusted <- v13, torn <- v14, runs <- v15, faults <- v16

Pub == INSTANCE SourcePublication WITH
    Paths <- {"a", "b"}, MaxVersion <- 2, MaxReleases <- 2, MaxTurns <- 1, MaxAttempts <- 0, MaxFaults <- 0,
    tree <- v1, head <- v2, hq <- v3, wire <- v4, registry <- v5, relay <- v6, outbox <- v7, cmd <- v8,
    active <- v9, hist <- v10, made <- v11, turns <- v12, faults <- v13

Flt == INSTANCE SourcePublication WITH
    Paths <- {"a", "b"}, MaxVersion <- 2, MaxReleases <- 2, MaxTurns <- 0, MaxAttempts <- 0, MaxFaults <- 2,
    tree <- v1, head <- v2, hq <- v3, wire <- v4, registry <- v5, relay <- v6, outbox <- v7, cmd <- v8,
    active <- v9, hist <- v10, made <- v11, turns <- v12, faults <- v13

Res == INSTANCE SourcePublication WITH
    Paths <- {"a"}, MaxVersion <- 1, MaxReleases <- 1, MaxTurns <- 0, MaxAttempts <- 1, MaxFaults <- 1,
    tree <- v1, head <- v2, hq <- v3, wire <- v4, registry <- v5, relay <- v6, outbox <- v7, cmd <- v8,
    active <- v9, hist <- v10, made <- v11, turns <- v12, faults <- v13

Ret == INSTANCE SourcePublication WITH
    Paths <- {"a"}, MaxVersion <- 1, MaxReleases <- 1, MaxTurns <- 0, MaxAttempts <- 2, MaxFaults <- 0,
    tree <- v1, head <- v2, hq <- v3, wire <- v4, registry <- v5, relay <- v6, outbox <- v7, cmd <- v8,
    active <- v9, hist <- v10, made <- v11, turns <- v12, faults <- v13

Rec == INSTANCE SourcePublication WITH
    Paths <- {"a"}, MaxVersion <- 1, MaxReleases <- 1, MaxTurns <- 1, MaxAttempts <- 1, MaxFaults <- 0,
    tree <- v1, head <- v2, hq <- v3, wire <- v4, registry <- v5, relay <- v6, outbox <- v7, cmd <- v8,
    active <- v9, hist <- v10, made <- v11, turns <- v12, faults <- v13

Nam == INSTANCE NamedSession WITH
    Fences <- {"f"}, Works <- {"w"}, MaxTurns <- 1, MaxQueue <- 2, MaxGenerations <- 2, MaxAsks <- 1, MaxStops <- 1,
    reg <- v1, svc <- v2, handlers <- v3, wire <- v4, boot <- v5, stopper <- v6, budget <- v7, hist <- v8

Ask == INSTANCE CodexTurns WITH
    Questions <- {"q"}, Works <- {}, Texts <- {"a", "b"}, MaxRuns <- 2, MaxFrames <- 4, MaxBudget <- 2,
    child <- v1, stopped <- v2, pipe <- v3, prov <- v4, owner <- v5, lease <- v6, turn <- v7, tool <- v8,
    paid <- v9, hist <- v10

Wrk == INSTANCE CodexTurns WITH
    Questions <- {}, Works <- {"w"}, Texts <- {"a"}, MaxRuns <- 2, MaxFrames <- 4, MaxBudget <- 2,
    child <- v1, stopped <- v2, pipe <- v3, prov <- v4, owner <- v5, lease <- v6, turn <- v7, tool <- v8,
    paid <- v9, hist <- v10

Bth == INSTANCE CodexTurns WITH
    Questions <- {"q"}, Works <- {"w"}, Texts <- {"a"}, MaxRuns <- 2, MaxFrames <- 2, MaxBudget <- 2,
    child <- v1, stopped <- v2, pipe <- v3, prov <- v4, owner <- v5, lease <- v6, turn <- v7, tool <- v8,
    paid <- v9, hist <- v10

ConA == INSTANCE ContainerRelay WITH
    Regs <- {"r"}, Fit <- {"r"}, Cmds <- {1, 2}, MaxBoots <- 1, MaxCmds <- 3, MaxSpawns <- 1, MaxOthers <- 0,
    boot <- v1, files <- v2, entry <- v3, child <- v4, cmd <- v5, hist <- v6

ConB == INSTANCE ContainerRelay WITH
    Regs <- {"r", "s"}, Fit <- {"r", "s"}, Cmds <- {1}, MaxBoots <- 1, MaxCmds <- 3, MaxSpawns <- 1, MaxOthers <- 0,
    boot <- v1, files <- v2, entry <- v3, child <- v4, cmd <- v5, hist <- v6

ConC == INSTANCE ContainerRelay WITH
    Regs <- {"r"}, Fit <- {"r"}, Cmds <- {1}, MaxBoots <- 2, MaxCmds <- 1, MaxSpawns <- 1, MaxOthers <- 1,
    boot <- v1, files <- v2, entry <- v3, child <- v4, cmd <- v5, hist <- v6

ConD == INSTANCE ContainerRelay WITH
    Regs <- {"r", "s"}, Fit <- {"r"}, Cmds <- {1}, MaxBoots <- 2, MaxCmds <- 3, MaxSpawns <- 1, MaxOthers <- 0,
    boot <- v1, files <- v2, entry <- v3, child <- v4, cmd <- v5, hist <- v6

Exp == INSTANCE TaskExports WITH
    Works <- {"w"}, MaxRevision <- 3, MaxSyncs <- 2, MaxCrashes <- 1, Batch <- 1,
    policy <- v1, local <- v2, bound <- v3, ledger <- v4, rows <- v5, capsule <- v6, hq <- v7, job <- v8, hist <- v9

Rnd == INSTANCE TaskExports WITH
    Works <- {"w", "x"}, MaxRevision <- 2, MaxSyncs <- 2, MaxCrashes <- 0, Batch <- 2,
    policy <- v1, local <- v2, bound <- v3, ledger <- v4, rows <- v5, capsule <- v6, hq <- v7, job <- v8, hist <- v9

ASSUME Assumptions == U!UpgradeAssumption /\ Cra!UpgradeAssumption /\ Ret!PublicationAssumption
                       /\ Pub!PublicationAssumption /\ Flt!PublicationAssumption
                       /\ Res!PublicationAssumption /\ Rec!PublicationAssumption
                       /\ Nam!NamedSessionAssumption /\ Ask!CodexTurnsAssumption /\ Wrk!CodexTurnsAssumption
                       /\ Bth!CodexTurnsAssumption
                       /\ ConA!ContainerAssumption /\ ConB!ContainerAssumption /\ ConC!ContainerAssumption
                       /\ ConD!ContainerAssumption /\ Exp!TaskExportsAssumption /\ Rnd!TaskExportsAssumption

-----------------------------------------------------------------------------
Rest(k) ==
    /\ k <= 1 => v1 = Unused /\ v2 = Unused /\ v3 = Unused /\ v4 = Unused /\ v5 = Unused /\ v6 = Unused
    /\ k <= 7 => v7 = Unused /\ v8 = Unused
    /\ k <= 9 => v9 = Unused /\ v10 = Unused
    /\ k <= 11 => v11 = Unused /\ v12 = Unused /\ v13 = Unused
    /\ k <= 14 => v14 = Unused /\ v15 = Unused /\ v16 = Unused
    /\ k <= 17 => v17 = Unused

AllInit ==
    /\ Init
    /\ \/ part = "outbox" /\ Rest(1)
       \/ part = "upgrade" /\ U!Init /\ Rest(17)
       \/ part = "crashes" /\ Cra!Init /\ Rest(17)
       \/ part = "publish" /\ Pub!Init /\ Rest(14)
       \/ part = "faults" /\ Flt!Init /\ Rest(14)
       \/ part = "restore" /\ Res!Init /\ Rest(14)
       \/ part = "retries" /\ Ret!Init /\ Rest(14)
       \/ part = "reconcile" /\ Rec!Init /\ Rest(14)
       \/ part = "session" /\ Nam!Init /\ Rest(9)
       \/ part = "questions" /\ Ask!Init /\ Rest(11)
       \/ part = "works" /\ Wrk!Init /\ Rest(11)
       \/ part = "turns" /\ Bth!Init /\ Rest(11)
       \/ part = "commands" /\ ConA!Init /\ Rest(7)
       \/ part = "changes" /\ ConB!Init /\ Rest(7)
       \/ part = "entrypoints" /\ ConC!Init /\ Rest(7)
       \/ part = "boots" /\ ConD!Init /\ Rest(7)
       \/ part = "exports" /\ Exp!Init /\ v10 = Unused /\ Rest(11)
       \/ part = "rounds" /\ Rnd!Init /\ v10 = Unused /\ Rest(11)

AllNext ==
    /\ \/ part = "outbox" /\ Next /\ UNCHANGED vs
       \/ part = "upgrade" /\ U!Next /\ UNCHANGED <<vars, v17>>
       \/ part = "crashes" /\ Cra!Next /\ UNCHANGED <<vars, v17>>
       \/ part = "publish" /\ Pub!Next /\ UNCHANGED <<vars, v14, v15, v16, v17>>
       \/ part = "faults" /\ Flt!Next /\ UNCHANGED <<vars, v14, v15, v16, v17>>
       \/ part = "restore" /\ Res!Next /\ UNCHANGED <<vars, v14, v15, v16, v17>>
       \/ part = "retries" /\ Ret!Next /\ UNCHANGED <<vars, v14, v15, v16, v17>>
       \/ part = "reconcile" /\ Rec!Next /\ UNCHANGED <<vars, v14, v15, v16, v17>>
       \/ part = "session" /\ Nam!Next /\ UNCHANGED <<vars, v9, v10, v11, v12, v13, v14, v15, v16, v17>>
       \/ part = "questions" /\ Ask!Next /\ UNCHANGED <<vars, v11, v12, v13, v14, v15, v16, v17>>
       \/ part = "works" /\ Wrk!Next /\ UNCHANGED <<vars, v11, v12, v13, v14, v15, v16, v17>>
       \/ part = "turns" /\ Bth!Next /\ UNCHANGED <<vars, v11, v12, v13, v14, v15, v16, v17>>
       \/ part = "commands" /\ ConA!Next /\ UNCHANGED <<vars, v7, v8, v9, v10, v11, v12, v13, v14, v15, v16, v17>>
       \/ part = "changes" /\ ConB!Next /\ UNCHANGED <<vars, v7, v8, v9, v10, v11, v12, v13, v14, v15, v16, v17>>
       \/ part = "entrypoints" /\ ConC!Next /\ UNCHANGED <<vars, v7, v8, v9, v10, v11, v12, v13, v14, v15, v16, v17>>
       \/ part = "boots" /\ ConD!Next /\ UNCHANGED <<vars, v7, v8, v9, v10, v11, v12, v13, v14, v15, v16, v17>>
       \/ part = "exports" /\ Exp!Next /\ UNCHANGED <<vars, v10, v11, v12, v13, v14, v15, v16, v17>>
       \/ part = "rounds" /\ Rnd!Next /\ UNCHANGED <<vars, v10, v11, v12, v13, v14, v15, v16, v17>>
    /\ UNCHANGED part

AllSpec == AllInit /\ [][AllNext]_<<part, vars, vs>>

-----------------------------------------------------------------------------
(* The properties of the other parts, where their modules state and        *)
(* explain them; those of the outbox are checked as its module has them.   *)

\* Upgrade: types, consistent once settled, always undoable, truthful.
\* Publication: no lost update, edits stay seen, one restoration, recorded.
\* Session: quiesced means quiet, turns are paid once, receipts are live.
\* Turns: the fence covers the process, answers are exact, turns and calls once.
\* Container: a confirmed pause stands, one relay runs at a time, as it was asked to.
\* Exports: sent as consented, retired in order once HQ holds them, work runs once.
PartsSafe ==
    /\ part = "upgrade" => U!UpgradeSafe
    /\ part = "crashes" => Cra!UpgradeSafe
    /\ part = "publish" => Pub!PublicationSafe
    /\ part = "faults" => Flt!PublicationSafe
    /\ part = "restore" => Res!PublicationSafe
    /\ part = "retries" => Ret!PublicationSafe
    /\ part = "reconcile" => Rec!PublicationSafe
    /\ part = "session" => Nam!NamedSessionSafe
    /\ part = "questions" => Ask!CodexTurnsSafe
    /\ part = "works" => Wrk!CodexTurnsSafe
    /\ part = "turns" => Bth!CodexTurnsSafe
    /\ part = "entrypoints" => ConC!ContainerSafe
    /\ part = "boots" => ConD!ContainerSafe
    /\ part = "changes" => ConB!ContainerSafe
    /\ part = "commands" => ConA!ContainerSafe
    /\ part = "exports" => Exp!ExportsSafe
    /\ part = "rounds" => Rnd!ExportsSafe

=============================================================================
