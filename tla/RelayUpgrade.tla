----------------------------- MODULE RelayUpgrade -----------------------------
(***************************************************************************)
(* The upgrade of the managed relay of a device and its rollback           *)
(* (relayRuntimeUpgrade.ts), the upgrade that is staged while the signing  *)
(* trust is expired (relaySigningMaintenanceUpgrade.ts), and what they     *)
(* change: the two launchers of the checkout, the user unit and its        *)
(* registration (relayAutostart.ts), the journals and the running relay    *)
(* (cli/src/index.ts).  The home-wide startup lock is taken to be          *)
(* exclusive: one command at a time.  A relay, by contrast, is started or  *)
(* ended at any moment, and so are commands and named sessions.            *)
(*                                                                         *)
(* A command is a plan of steps.  The unit says only which provider        *)
(* context it starts with, the registration which version too: it owns the *)
(* unit when the two agree.                                                *)
(***************************************************************************)
EXTENDS Naturals, Sequences

CONSTANTS
    MaxVersion,    \* bound on releases
    MaxRuns,       \* bound on commands
    MaxFaults      \* bound on crashes, failures and starts by others

UpgradeAssumption == {MaxVersion, MaxRuns, MaxFaults} \subseteq Nat /\ MaxVersion >= 1

Nothing == "none"
Versions == 1 .. MaxVersion
Contexts == {Nothing, "profile"}

VARIABLES
    shell, windows,     \* the versions of the two launchers
    unit,               \* the context the unit file starts with
    reg,                \* autostart.json: version and context
    enabled,            \* the unit starts with the user's session
    journal,            \* runtime-upgrade.json
    maint,              \* signing-maintenance-upgrade.json
    archive,            \* the journal kept before the maintenance
    cmd,                \* the command that holds the startup lock
    proc,               \* the version that runs
    poll,               \* the last successful poll: its version, and whether it is later than the start
    busy, trusted,      \* a named session is at work; the signing trust is recovered
    torn,               \* history: the unit was written without its registration
    runs, faults

vars == <<shell, windows, unit, reg, enabled, journal, maint, archive, cmd, proc, poll, busy, trusted, torn, runs, faults>>
files == <<shell, windows, unit, reg, enabled>>
journals == <<journal, maint, archive>>
world == <<proc, poll, busy, trusted>>
bounds == <<torn, runs, faults>>

Init ==
    /\ shell = 1 /\ windows = 1 /\ unit = Nothing /\ reg = [version |-> 1, context |-> Nothing] /\ enabled = TRUE
    /\ journal = [state |-> Nothing] /\ maint = [state |-> Nothing] /\ archive = [state |-> Nothing]
    /\ cmd = [kind |-> Nothing] /\ proc = 1 /\ poll = [version |-> 1, fresh |-> FALSE]
    /\ busy = FALSE /\ trusted = FALSE /\ torn = FALSE /\ runs = 0 /\ faults = 0

Free == cmd.kind = Nothing
Owned == unit = reg.context
Stopped == proc = 0 /\ ~ busy
Paused == Owned /\ ~ enabled /\ Stopped
Launchers(set) == shell \in set /\ windows \in set
Settled(j) == j.state \in {Nothing, "completed", "rolled_back"}

\* The journal a command writes, and what it puts in place.
Maintains == cmd.kind \in {"stage", "unstage", "finish"}
Own == IF Maintains THEN maint ELSE journal
Target == IF cmd.kind \in {"rollback", "unstage"} THEN Own.previous ELSE Own.version
\* An upgrade adds the context of its caller, the others restore the recorded one.
TargetContext == IF cmd.kind = "upgrade" THEN (IF cmd.context = Nothing THEN reg.context ELSE cmd.context) ELSE Own.context

Plan(kind) ==
    CASE kind = "upgrade" -> <<"prepared", "recheck", "shell", "windows", "unit", "register", "installed", "start", "verify", "completed">>
      [] kind = "rollback" -> <<"stop", "recheck", "shell", "windows", "unit", "register", "start", "verify", "rolled_back">>
      [] kind = "stage" -> <<"prepared", "recheck", "hold", "shell", "windows", "unit", "register", "paused", "staged">>
      [] kind = "unstage" -> <<"recheck", "shell", "windows", "unit", "register", "paused", "staging_reverted">>
      [] OTHER -> <<"finishing", "unit", "register", "start", "verify", "record", "completed">>

Saves == {"prepared", "installed", "completed", "rolled_back", "staged", "staging_reverted", "finishing"}
Step == Plan(cmd.kind)[cmd.at]
At(step) == ~ Free /\ Step = step
End == cmd' = [kind |-> Nothing]
Advance == IF cmd.at = Len(Plan(cmd.kind)) THEN End ELSE cmd' = [cmd EXCEPT !.at = @ + 1]
Begins(kind, context) == cmd' = [kind |-> kind, at |-> 1, context |-> context] /\ runs' = runs + 1
Record(version, context) == [state |-> "new", version |-> version, previous |-> reg.version, context |-> reg.context]
Save(state) ==
    IF Maintains THEN maint' = [maint EXCEPT !.state = state] /\ UNCHANGED <<journal, archive>>
    ELSE journal' = [journal EXCEPT !.state = state] /\ UNCHANGED <<maint, archive>>

\* Another plan for what went wrong, or the end of the command with what it records.
Otherwise ==
    CASE cmd.kind = "upgrade" -> cmd' = [cmd EXCEPT !.kind = "rollback", !.at = 1] /\ UNCHANGED <<journals, world>>
      [] cmd.kind = "stage" -> cmd' = [cmd EXCEPT !.kind = "unstage", !.at = 1] /\ UNCHANGED <<journals, world>>
      [] cmd.kind = "rollback" -> End /\ Save("rollback_failed") /\ UNCHANGED world
      [] cmd.kind = "unstage" -> End /\ Save("staging_failed") /\ UNCHANGED world
      [] OTHER -> End /\ Save("finish_failed") /\ proc' \in {proc, 0} /\ UNCHANGED <<poll, busy, trusted>>

-----------------------------------------------------------------------------
(* Commands *)

\* An upgrade is the first, or follows one that is settled.
CanUpgrade(v) == Owned /\ Stopped /\ Settled(journal) /\ v >= reg.version /\ Launchers({reg.version})

BeginUpgrade(v, context) ==
    /\ Free /\ runs < MaxRuns /\ CanUpgrade(v)
    /\ Begins("upgrade", context) /\ journal' = Record(v, context)
    /\ UNCHANGED <<files, maint, archive, world, torn, faults>>

\* Mutant: a rollback insists on launchers of one version.
OneVersion(v) ==
    /\ Owned /\ journal.state # Nothing /\ journal.version = v
    /\ reg.version \in {v, journal.previous} /\ shell = windows /\ Launchers({v, journal.previous})
    /\ journal.context # Nothing => journal.context = reg.context

CanRollback(v) ==
    /\ Owned /\ journal.state # Nothing /\ journal.version = v
    /\ reg.version \in {v, journal.previous} /\ Launchers({v, journal.previous})
    /\ journal.context # Nothing => journal.context = reg.context

BeginRollback(v) ==
    /\ Free /\ runs < MaxRuns /\ CanRollback(v)
    /\ Begins("rollback", Nothing)
    /\ UNCHANGED <<files, journals, world, torn, faults>>

\* A failed rollback may be taken into custody when it left the previous version.
CanStage(v) ==
    /\ Owned /\ Stopped /\ maint.state = Nothing /\ v > reg.version /\ Launchers({reg.version})
    /\ \/ Settled(journal)
       \/ /\ journal.state = "rollback_failed" /\ reg.version = journal.previous
          /\ reg.context = journal.context

BeginStage(v) ==
    /\ Free /\ runs < MaxRuns /\ CanStage(v)
    /\ Begins("stage", Nothing) /\ maint' = Record(v, Nothing) /\ archive' = journal
    /\ UNCHANGED <<files, journal, world, torn, faults>>

\* Mutant: what is staged is finished without the trust.
FinishesAnyway ==
    /\ Free /\ runs < MaxRuns /\ maint.state = "staged"
    /\ Paused /\ journal = archive
    /\ reg = [version |-> maint.version, context |-> maint.context] /\ Launchers({maint.version})
    /\ Begins("finish", Nothing)
    /\ UNCHANGED <<files, journals, world, torn, faults>>

BeginFinish ==
    /\ Free /\ runs < MaxRuns /\ maint.state = "staged"
    /\ trusted /\ Paused /\ journal = archive
    /\ reg = [version |-> maint.version, context |-> maint.context] /\ Launchers({maint.version})
    /\ Begins("finish", Nothing)
    /\ UNCHANGED <<files, journals, world, torn, faults>>

-----------------------------------------------------------------------------
(* Steps *)

SaveState ==
    /\ ~ Free /\ Step \in Saves
    /\ Save(Step) /\ Advance
    /\ UNCHANGED <<files, world, bounds>>

Intact ==
    CASE cmd.kind = "upgrade" -> Stopped /\ Launchers({journal.previous})
      [] cmd.kind = "rollback" -> Stopped /\ Launchers({journal.previous, journal.version})
      [] cmd.kind = "stage" -> Stopped /\ Launchers({maint.previous}) /\ journal = archive
      [] OTHER -> Paused /\ Launchers({maint.previous, maint.version}) /\ journal = archive

Recheck ==
    /\ At("recheck")
    /\ IF Intact THEN Advance /\ UNCHANGED <<journals, world>> ELSE Otherwise
    /\ UNCHANGED <<files, bounds>>

Shell == At("shell") /\ shell' = Target /\ Advance /\ UNCHANGED <<windows, unit, reg, enabled, journals, world, bounds>>
Windows == At("windows") /\ windows' = Target /\ Advance /\ UNCHANGED <<shell, unit, reg, enabled, journals, world, bounds>>

\* The unit file is replaced only when the registration owns it.
Unit ==
    /\ At("unit")
    /\ IF Owned THEN unit' = TargetContext /\ Advance /\ UNCHANGED <<journals, world>>
       ELSE UNCHANGED unit /\ Otherwise
    /\ UNCHANGED <<shell, windows, reg, enabled, bounds>>

\* Mutant: a rollback leaves the context of the upgrade.
RegistersUnit ==
    /\ At("register")
    /\ reg' = [version |-> Target, context |-> IF cmd.kind = "rollback" THEN reg.context ELSE unit]
    /\ enabled' = (cmd.kind \notin {"stage", "unstage"}) /\ Advance
    /\ UNCHANGED <<shell, windows, unit, journals, world, bounds>>

Register ==
    /\ At("register")
    /\ reg' = [version |-> Target, context |-> unit]
    /\ enabled' = (cmd.kind \notin {"stage", "unstage"}) /\ Advance
    /\ UNCHANGED <<shell, windows, unit, journals, world, bounds>>

\* The maintenance pauses the relay before it changes it: the files stay as they are.
Hold ==
    /\ At("hold")
    /\ enabled' = (enabled /\ ~ Owned)
    /\ IF Owned /\ Stopped /\ journal = archive THEN Advance /\ UNCHANGED <<journals, world>> ELSE Otherwise
    /\ UNCHANGED <<shell, windows, unit, reg, bounds>>

CheckPaused ==
    /\ At("paused")
    /\ IF Paused /\ journal = archive /\ Launchers({Target}) /\ reg = [version |-> Target, context |-> maint.context]
       THEN Advance /\ UNCHANGED <<journals, world>> ELSE Otherwise
    /\ UNCHANGED <<files, bounds>>

\* A stop waits for a session to end, and may not be confirmed.
StopRelay ==
    /\ At("stop")
    /\ IF busy THEN Otherwise ELSE proc' = 0 /\ Advance /\ UNCHANGED <<journals, poll, busy, trusted>>
    /\ UNCHANGED <<files, bounds>>

\* A unit that is active stays as it is.
Start ==
    /\ At("start")
    /\ IF Owned /\ enabled
       THEN /\ proc' = (IF proc = 0 THEN shell ELSE proc)
            /\ poll' = [poll EXCEPT !.fresh = FALSE]
            /\ Advance /\ UNCHANGED <<journals, busy, trusted>>
       ELSE Otherwise
    /\ UNCHANGED <<files, bounds>>

\* Mutant: any poll of the version will do.
StalePoll ==
    /\ At("verify")
    /\ \/ proc = Target /\ poll.version = Target /\ Advance /\ UNCHANGED <<journals, world>>
       \/ Otherwise
    /\ UNCHANGED <<files, bounds>>

\* The running version and a poll of it, later than the start; or the wait is over.
Verify ==
    /\ At("verify")
    /\ \/ proc = Target /\ poll = [version |-> Target, fresh |-> TRUE] /\ Advance /\ UNCHANGED <<journals, world>>
       \/ Otherwise
    /\ UNCHANGED <<files, bounds>>

\* A finished maintenance becomes the upgrade that can be rolled back.
RecordFinished ==
    /\ At("record")
    /\ IF journal = archive
       THEN journal' = [maint EXCEPT !.state = "completed"] /\ Advance /\ UNCHANGED <<maint, archive, world>> ELSE Otherwise
    /\ UNCHANGED <<files, bounds>>

-----------------------------------------------------------------------------
(* What may happen meanwhile *)

Fault == faults < MaxFaults /\ faults' = faults + 1
\* The registration of a new context is all that a write can be separated from.
Tears == torn' = (torn \/ unit # reg.context)

\* A step throws.  Before the first save there is nothing to undo.
Fail ==
    /\ ~ Free /\ Fault /\ Tears
    /\ IF cmd.kind \in {"upgrade", "stage", "finish"} /\ cmd.at = 1 THEN End /\ UNCHANGED <<journals, world>> ELSE Otherwise
    /\ UNCHANGED <<files, runs>>

\* The command dies; a reboot ends the relay as well.
Crash ==
    /\ ~ Free /\ Fault /\ Tears /\ End
    /\ proc' \in {proc, 0}
    /\ UNCHANGED <<files, journals, poll, busy, trusted, runs>>

\* A user or the session manager starts a relay, or it ends.
StartedByOthers == Fault /\ proc = 0 /\ proc' = shell /\ UNCHANGED <<files, journals, cmd, poll, busy, trusted, torn, runs>>
EndedByOthers == proc # 0 /\ proc' = 0 /\ UNCHANGED <<files, journals, cmd, poll, busy, trusted, bounds>>
Polls == proc # 0 /\ poll' = [version |-> proc, fresh |-> TRUE] /\ UNCHANGED <<files, journals, cmd, proc, busy, trusted, bounds>>

\* A named session is admitted under the startup lock and works on without it.
SessionBegins == Free /\ ~ busy /\ Fault /\ busy' = TRUE /\ UNCHANGED <<files, journals, cmd, proc, poll, trusted, torn, runs>>
SessionEnds == busy /\ busy' = FALSE /\ UNCHANGED <<files, journals, cmd, proc, poll, trusted, bounds>>
TrustRecovered == ~ trusted /\ Stopped /\ trusted' = TRUE /\ UNCHANGED <<files, journals, cmd, proc, poll, busy, bounds>>

Next ==
    \/ \E v \in Versions, c \in Contexts : BeginUpgrade(v, c)
    \/ \E v \in Versions : BeginRollback(v) \/ BeginStage(v)
    \/ BeginFinish
    \/ SaveState \/ Recheck \/ Shell \/ Windows \/ Unit \/ Register \/ Hold \/ CheckPaused
    \/ StopRelay \/ Start \/ Verify \/ RecordFinished
    \/ Fail \/ Crash \/ StartedByOthers \/ EndedByOthers \/ Polls \/ SessionBegins \/ SessionEnds \/ TrustRecovered

Spec == Init /\ [][Next]_vars

-----------------------------------------------------------------------------
(* Properties *)

Journals == {[state |-> Nothing]} \cup
    [state : {"new", "rollback_failed", "staging_failed", "finish_failed"} \cup Saves,
     version : Versions, previous : Versions, context : Contexts]

TypeOK ==
    /\ {shell, windows} \subseteq Versions /\ unit \in Contexts /\ reg \in [version : Versions, context : Contexts]
    /\ {journal, maint, archive} \subseteq Journals /\ proc \in {0} \cup Versions
    /\ poll \in [version : Versions, fresh : BOOLEAN] /\ {enabled, busy, trusted, torn} \subseteq BOOLEAN

\* When no journal is open, launchers, unit and registration belong to one
\* version, whatever was interrupted, undone or staged before.  The exception is
\* a rollback of what is recorded as settled: it saves nothing before its end,
\* so its interruption shows in the files only, and another rollback mends them.
Consistent == Launchers({reg.version}) /\ Owned
SettledIsConsistent ==
    Free /\ ~ torn /\ Settled(journal) /\ maint.state \in {Nothing, "staged", "completed", "staging_reverted"}
    => Consistent \/ CanRollback(journal.version)

\* An upgrade that was interrupted or could not be undone can always be rolled
\* back by its own version.
AlwaysUndoable == Free /\ ~ torn /\ ~ Settled(journal) /\ maint.state = Nothing => CanRollback(journal.version)

\* What is reported: the version and context in place, and a poll of that
\* version since it was started.
Reported(j, v) == Launchers({v}) /\ reg.version = v /\ Owned /\ poll = [version |-> v, fresh |-> TRUE]
Truthful ==
    /\ At("completed") => Reported(Own, Own.version)
    /\ At("rolled_back") => Reported(Own, Own.previous) /\ reg.context = Own.context
    /\ maint.state \in {"finishing", "completed", "finish_failed"} => trusted

UpgradeSafe == TypeOK /\ SettledIsConsistent /\ AlwaysUndoable /\ Truthful

=============================================================================
