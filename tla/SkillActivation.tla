-------------------------- MODULE SkillActivation --------------------------
(***************************************************************************)
(* The installation of signed skill bundles for one workspace and provider *)
(* (packages/skill-manager/src/index.ts) and the synchronisation around it *)
(* (packages/cli/src/index.ts).                                            *)
(*                                                                         *)
(* A bundle is in force when five things agree: the pointer ACTIVE_BUNDLE, *)
(* the directory `active` with its install receipt, the copies of its      *)
(* skills in the provider's native directory, and the anchor of the        *)
(* receipt in the secure store.  Every action below is one durable change, *)
(* so that a crash or a failed call can come between any two.              *)
(*                                                                         *)
(* "sync" is whoever holds the activation lock; "reader" is a command or   *)
(* the relay's source scan, which asks for the authorization without the   *)
(* lock and repairs what it finds on the way.  The lock itself is taken to *)
(* exclude; `native` is the directory of one workspace.  A call that fails *)
(* has had no effect; what it leaves half done is the step of a crash.     *)
(***************************************************************************)
EXTENDS Integers, FiniteSets

CONSTANTS
    Bundles,
    SkillIds,
    Skills,         \* the skills of each bundle
    None,
    Readers,        \* {"reader"}, or {} for a workspace nobody else reads
    MaxReceipts,    \* bound on receipts that differ
    MaxRollouts,    \* bound on bundles HQ assigns
    MaxFaults,      \* bound on crashes, failed calls, lost and refused receipts
    MaxCommands     \* bound on commands: `skills sync`, and what readers ask

VARIABLES
    pointer,        \* ACTIVE_BUNDLE
    dir,            \* the managed directories, and those of the rollback transaction
    txn,            \* ROLLBACK_RECOVERY.json: the bundle to return to
    native,         \* of each skill, the bundle its native copy comes from
    release,        \* releases/<bundle>
    anchor,         \* the receipt anchored in the secure store
    assigned,       \* HQ: the bundle this endpoint shall run
    rollouts,
    proc,           \* of each process: its step and what it keeps in memory
    crashes, errors, commands,
    touched         \* history: a reader was repairing while a synchronisation ran

disk == <<pointer, dir, txn, native, release>>
world == <<assigned, rollouts>>
counters == <<crashes, errors, commands>>
vars == <<disk, anchor, world, proc, counters, touched>>

Processes == {"sync"} \cup Readers
OptBundle == Bundles \cup {None}
Receipts == [id : 1 .. MaxReceipts, bundle : Bundles]
OptReceipt == Receipts \cup {None}

\* A copy of a release; one that is not whole may lack its BUNDLE.json.
Copies == [bundle : OptBundle, receipt : OptReceipt, whole : BOOLEAN]
NoBundle == "no manifest"       \* a transaction directory without its manifest
Absent == [bundle |-> None, receipt |-> None, whole |-> FALSE]
Names == {"active", "rollback", "rejected", "staged", "backup"}

SkillAssumption ==
    /\ Skills \in [Bundles -> SUBSET SkillIds]
    /\ None \notin Bundles \cup Copies \cup {NoBundle}
    /\ NoBundle \notin Bundles
    /\ Readers \in SUBSET {"reader"}
    /\ {MaxReceipts, MaxRollouts, MaxFaults, MaxCommands} \subseteq Nat

SkillsOf(b) == IF b = None THEN {} ELSE Skills[b]
Missing(d) == dir[d] = None
BundleIn(d) == IF Missing(d) THEN None ELSE dir[d].bundle
CopyOf(b) == [bundle |-> b, receipt |-> release[b].receipt, whole |-> release[b].whole]

Asleep == [step |-> "idle", then |-> "idle", catch |-> "idle", load |-> None, drop |-> {},
           bundle |-> None, prev |-> None, anchor |-> None, receipt |-> None, write |-> FALSE]

Init ==
    /\ pointer = None
    /\ dir = [d \in Names |-> None]
    /\ txn = None
    /\ native = [s \in SkillIds |-> None]
    /\ release = [b \in Bundles |-> Absent]
    /\ anchor = None
    /\ assigned \in Bundles
    /\ rollouts = 0
    /\ proc = [p \in Processes |-> Asleep]
    /\ crashes = 0 /\ errors = 0 /\ commands = 0
    /\ touched = FALSE

At(p, step) == proc[p].step = step
Become(p, state) == proc' = [proc EXCEPT ![p] = state]
Goto(p, step) == proc' = [proc EXCEPT ![p].step = step]
Throw(p) == Goto(p, proc[p].catch)
\* A reader is in the middle of a repair while the lock is held, or rejects the active
\* bundle although a rollback has begun since it looked.
Repairs(p) == proc[p].step \in {"recovering", "recovered", "clearing", "reject"}
Interferes ==
    \E p \in Readers : \/ Repairs(p) /\ ~ At("sync", "idle")
                       \/ At(p, "reject") /\ txn # None
Touch == touched' = (touched \/ Interferes')
Keep == UNCHANGED <<anchor, world, crashes, errors, commands>> /\ Touch

\* Enter activateNativeSkills: load the skills of `load`, drop those of `drop`.
Natively(p, load, drop, then, catch) ==
    Become(p, [proc[p] EXCEPT !.step = "unload", !.load = load, !.drop = drop,
                              !.then = then, !.catch = catch])

\* Enter the recovery and the reading of the pointer.
ReadPointer(p, state, then, catch) ==
    Become(p, [state EXCEPT !.step = "recover", !.then = then, !.catch = catch])

-----------------------------------------------------------------------------
(* activateNativeSkills: what is replaced is moved into a backup, then the  *)
(* staged copies take its place.  A failure puts everything back.           *)

Unload(p) ==
    /\ At(p, "unload")
    /\ proc[p].load # None => release[proc[p].load].whole
    /\ native' = [s \in SkillIds |->
                     IF s \in proc[p].drop \cup SkillsOf(proc[p].load) THEN None ELSE native[s]]
    /\ Goto(p, "load")
    /\ UNCHANGED <<pointer, dir, txn, release>> /\ Keep

\* The release the copies come from is gone or not complete.
UnloadFails(p) ==
    /\ At(p, "unload")
    /\ proc[p].load # None /\ ~ release[proc[p].load].whole
    /\ Throw(p)
    /\ UNCHANGED disk /\ Keep

Load(p) ==
    /\ At(p, "load")
    /\ native' = [s \in SkillIds |->
                     IF s \in SkillsOf(proc[p].load) THEN proc[p].load ELSE native[s]]
    /\ Goto(p, proc[p].then)
    /\ UNCHANGED <<pointer, dir, txn, release>> /\ Keep

-----------------------------------------------------------------------------
(* recoverInterruptedSkillRollbacks and readActiveBundlePointer, with which *)
(* every reader and every installation begins.                              *)

\* No interrupted rollback, or one whose manifest is missing.
Recover(p) ==
    /\ At(p, "recover")
    /\ txn \notin Bundles
    /\ IF txn = NoBundle THEN Throw(p) ELSE Goto(p, "read")
    /\ UNCHANGED disk /\ Keep

RecoverRollback(p) ==
    /\ At(p, "recover")
    /\ txn \in Bundles
    /\ dir' = IF ~ Missing("backup") THEN [dir EXCEPT !["active"] = dir["backup"], !["backup"] = None]
              ELSE IF Missing("active") THEN [dir EXCEPT !["active"] = CopyOf(txn)]
              ELSE dir
    /\ Become(p, [proc[p] EXCEPT !.step = "recovering"])
    /\ UNCHANGED <<pointer, txn, native, release>> /\ Keep

RecoverNative(p) ==
    /\ At(p, "recovering")
    /\ IF txn \notin Bundles THEN Throw(p) /\ UNCHANGED native
       ELSE IF ~ release[txn].whole THEN Throw(p) /\ UNCHANGED native
       ELSE /\ native' = [s \in SkillIds |-> IF s \in Skills[txn] THEN txn ELSE None]
            /\ Goto(p, "recovered")
    /\ UNCHANGED <<pointer, dir, txn, release>> /\ Keep

RecoverPointer(p) ==
    /\ At(p, "recovered")
    /\ IF txn \notin Bundles THEN Throw(p) /\ UNCHANGED pointer
       ELSE pointer' = txn /\ Goto(p, "clearing")
    /\ UNCHANGED <<dir, txn, native, release>> /\ Keep

ClearRecovered(p) ==
    /\ At(p, "clearing")
    /\ txn' = None
    /\ dir' = [dir EXCEPT !["staged"] = None, !["backup"] = None]
    /\ Goto(p, "recover")
    /\ UNCHANGED <<pointer, native, release>> /\ Keep

\* Mutant: a pointer without its bundle is refused and never mended.
NeverMends == FALSE

\* recoverRejectedActivation: the pointer names the bundle that was set aside.
CanMend == BundleIn("rollback") = pointer /\ ~ Missing("active")

Read(p) ==
    /\ At(p, "read")
    /\ pointer = None \/ BundleIn("active") = pointer
    /\ Goto(p, proc[p].then)
    /\ UNCHANGED disk /\ Keep

\* Without `active` the first rename fails, and so does every later attempt.
ReadRefused(p) ==
    /\ At(p, "read")
    /\ pointer # None /\ BundleIn("active") # pointer
    /\ ~ CanMend
    /\ Throw(p)
    /\ UNCHANGED disk /\ Keep

RejectActive(p) ==
    /\ At(p, "read")
    /\ pointer # None /\ BundleIn("active") # pointer
    /\ CanMend
    /\ dir' = [dir EXCEPT !["rejected"] = dir["active"], !["active"] = None]
    /\ Goto(p, "reject")
    /\ UNCHANGED <<pointer, txn, native, release>> /\ Keep

\* When `rollback` is gone as well, what was rejected is put back.
RestoreRollback(p) ==
    /\ At(p, "reject")
    /\ IF Missing("rollback")
       THEN /\ dir' = IF Missing("active") THEN [dir EXCEPT !["active"] = dir["rejected"], !["rejected"] = None]
                      ELSE dir
            /\ Throw(p)
       ELSE /\ dir' = [dir EXCEPT !["active"] = dir["rollback"], !["rollback"] = None, !["rejected"] = None]
            /\ Goto(p, "read")
    /\ UNCHANGED <<pointer, txn, native, release>> /\ Keep

-----------------------------------------------------------------------------
(* A synchronisation asks HQ for a bundle, by what is installed.            *)

\* getActiveSkillBundleAuthorization, of what is on disk now.
Granted(b) ==
    /\ txn = None
    /\ pointer = b
    /\ BundleIn("active") = b
    /\ dir["active"].receipt # None
    /\ dir["active"].receipt = anchor

\* The relay tells HQ the bundle of its anchor.
Poll ==
    /\ At("sync", "idle")
    /\ anchor # None => anchor.bundle # assigned
    /\ ReadPointer("sync", [Asleep EXCEPT !.bundle = assigned, !.anchor = anchor], "build", "idle")
    /\ UNCHANGED disk /\ Keep

\* `skills sync` tells the authorized bundle, or else what the pointer names and
\* that it asks for a new baseline: HQ may then offer the same bundle again.
PollByHand ==
    /\ At("sync", "idle")
    /\ ~ Granted(assigned)
    /\ commands < MaxCommands
    /\ commands' = commands + 1
    /\ ReadPointer("sync", [Asleep EXCEPT !.bundle = assigned, !.anchor = anchor], "ask", "idle")
    /\ UNCHANGED <<disk, anchor, world, crashes, errors>> /\ Touch

AskHq ==
    /\ At("sync", "ask")
    /\ \/ pointer = assigned /\ Become("sync", Asleep)
       \/ Goto("sync", "build")
    /\ UNCHANGED disk /\ Keep

\* A task, or the source scan of the relay, asks for the authorization.
Consult ==
    /\ At("sync", "idle")
    /\ txn # None \/ BundleIn("active") # pointer
    /\ pointer # None
    /\ ReadPointer("sync", Asleep, "idle", "idle")
    /\ UNCHANGED disk /\ Keep

BeginRead(p) ==
    /\ p \in Readers
    /\ At(p, "idle")
    /\ commands < MaxCommands
    /\ commands' = commands + 1
    /\ pointer # None
    /\ ReadPointer(p, Asleep, "idle", "idle")
    /\ UNCHANGED <<disk, anchor, world, crashes, errors>> /\ Touch

-----------------------------------------------------------------------------
(* installSkillBundle. *)

New == proc["sync"].bundle
Prev == proc["sync"].prev

\* The release is built anew, even the one that is active.
BuildRelease ==
    /\ At("sync", "build")
    /\ release' = [release EXCEPT ![New] = Absent]
    /\ Become("sync", [proc["sync"] EXCEPT !.step = "verify", !.prev = pointer])
    /\ UNCHANGED <<pointer, dir, txn, native>> /\ Keep

VerifyRelease ==
    /\ At("sync", "verify")
    /\ release' = [release EXCEPT ![New] = [bundle |-> New, receipt |-> None, whole |-> TRUE]]
    /\ Goto("sync", "aside")
    /\ UNCHANGED <<pointer, dir, txn, native>> /\ Keep

SetAside ==
    /\ At("sync", "aside")
    /\ dir' = [dir EXCEPT !["rollback"] = dir["active"], !["active"] = None]
    /\ Goto("sync", "copy")
    /\ UNCHANGED <<pointer, txn, native, release>> /\ Keep

\* A copy in progress may have its BUNDLE.json or not.
BeginCopy ==
    /\ At("sync", "copy")
    /\ \E b \in {New, None} :
          dir' = [dir EXCEPT !["active"] = [Absent EXCEPT !.bundle = b]]
    /\ Goto("sync", "copied")
    /\ UNCHANGED <<pointer, txn, native, release>> /\ Keep

EndCopy ==
    /\ At("sync", "copied")
    /\ dir' = [dir EXCEPT !["active"] = [bundle |-> New, receipt |-> None, whole |-> TRUE]]
    /\ Natively("sync", New, SkillsOf(Prev), "check", "revert")
    /\ UNCHANGED <<pointer, txn, native, release>> /\ Keep

\* The native activation has failed: `active` goes, `rollback` comes back.
Reinstated == [dir EXCEPT !["active"] = dir["rollback"], !["rollback"] = None]

Revert ==
    /\ At("sync", "revert")
    /\ dir' = Reinstated
    /\ Become("sync", Asleep)
    /\ UNCHANGED <<pointer, txn, native, release>> /\ Keep

Check ==
    /\ At("sync", "check")
    /\ Goto("sync", "receipt")
    /\ UNCHANGED disk /\ Keep

\* Mutant: the native skills of the bundle that failed are left in place.
UndoDirectory ==
    /\ At("sync", "undo")
    /\ dir' = Reinstated
    /\ Goto("sync", "repoint")
    /\ UNCHANGED <<pointer, txn, native, release>> /\ Keep

\* restorePreviousBundle, after a failed check or a failed write of the receipt.
Undo ==
    /\ At("sync", "undo")
    /\ dir' = Reinstated
    /\ Natively("sync", Prev, Skills[New], "repoint", IF proc["sync"].write THEN "repoint" ELSE "idle")
    /\ UNCHANGED <<pointer, txn, native, release>> /\ Keep

Repoint ==
    /\ At("sync", "repoint")
    /\ pointer' = Prev
    /\ Become("sync", Asleep)
    /\ UNCHANGED <<dir, txn, native, release>> /\ Keep

\* A receipt is told from every other by its id.
InUse == {r \in Receipts : r = anchor \/ r = proc["sync"].anchor
                           \/ (\E d \in Names : ~ Missing(d) /\ dir[d].receipt = r)
                           \/ (\E b \in Bundles : release[b].receipt = r)}

FreshIds == {i \in 1 .. MaxReceipts : \A r \in InUse : r.id # i}
NewReceipt(b) == [id |-> CHOOSE i \in FreshIds : TRUE, bundle |-> b]

WriteReleaseReceipt ==
    /\ At("sync", "receipt")
    /\ FreshIds # {}
    /\ LET r == NewReceipt(New) IN
       /\ release' = [release EXCEPT ![New].receipt = r]
       /\ Become("sync", [proc["sync"] EXCEPT !.step = "publish", !.receipt = r])
    /\ UNCHANGED <<pointer, dir, txn, native>> /\ Keep

\* Without the directory the write fails.
WriteActiveReceipt ==
    /\ At("sync", "publish")
    /\ IF Missing("active")
       THEN Become("sync", [proc["sync"] EXCEPT !.step = "undo", !.write = TRUE]) /\ UNCHANGED dir
       ELSE dir' = [dir EXCEPT !["active"].receipt = proc["sync"].receipt] /\ Goto("sync", "point")
    /\ UNCHANGED <<pointer, txn, native, release>> /\ Keep

SwitchPointer ==
    /\ At("sync", "point")
    /\ pointer' = New
    /\ Goto("sync", "anchor")
    /\ UNCHANGED <<dir, txn, native, release>> /\ Keep

SaveAnchor ==
    /\ At("sync", "anchor")
    /\ anchor' = proc["sync"].receipt
    /\ Goto("sync", "post")
    /\ UNCHANGED <<disk, world, crashes, errors, commands>> /\ Touch

PostReceipt ==
    /\ At("sync", "post")
    /\ Become("sync", Asleep)
    /\ UNCHANGED disk /\ Keep

-----------------------------------------------------------------------------
(* rollbackUnconfirmedSkillBundle, when the anchor cannot be saved or HQ    *)
(* refuses the receipt, and then the anchor as it was.                      *)

Rollback(state) == ReadPointer("sync", state, "confirm", "restore")

Confirm ==
    /\ At("sync", "confirm")
    /\ Goto("sync", IF pointer = New THEN "begin" ELSE "restore")
    /\ UNCHANGED disk /\ Keep

BeginTransaction ==
    /\ At("sync", "begin")
    /\ txn' = NoBundle
    /\ Goto("sync", "manifest")
    /\ UNCHANGED <<pointer, dir, native, release>> /\ Keep

WriteManifest ==
    /\ At("sync", "manifest")
    /\ txn' = New
    /\ Goto("sync", "stage")
    /\ UNCHANGED <<pointer, dir, native, release>> /\ Keep

StagePrevious ==
    /\ At("sync", "stage")
    /\ dir' = IF Prev = None THEN dir ELSE [dir EXCEPT !["staged"] = CopyOf(Prev)]
    /\ Natively("sync", Prev, Skills[New], "shelve", "unmoved")
    /\ UNCHANGED <<pointer, txn, native, release>> /\ Keep

ShelveActive ==
    /\ At("sync", "shelve")
    /\ IF Missing("active") \/ txn = None
       THEN Goto("sync", "mend") /\ UNCHANGED dir
       ELSE /\ dir' = [dir EXCEPT !["backup"] = dir["active"], !["active"] = None]
            /\ Goto("sync", "swap")
    /\ UNCHANGED <<pointer, txn, native, release>> /\ Keep

\* Mutant: the pointer goes back before the directory does.
PointerFirst == /\ pointer' = Prev
                /\ UNCHANGED dir

SwapIn == /\ dir' = [dir EXCEPT !["active"] = dir["staged"], !["staged"] = None]
          /\ UNCHANGED pointer

SwapActive ==
    /\ At("sync", "swap")
    /\ IF Prev # None /\ Missing("staged")
       THEN Goto("sync", "mend") /\ UNCHANGED <<pointer, dir>>
       ELSE SwapIn /\ Goto("sync", "switch")
    /\ UNCHANGED <<txn, native, release>> /\ Keep

SwitchBack ==
    /\ At("sync", "switch")
    /\ pointer' = Prev
    /\ Goto("sync", "clear")
    /\ UNCHANGED <<dir, txn, native, release>> /\ Keep

\* The failure of a step above: `active` back in its place, ...
Mend ==
    /\ At("sync", "mend")
    /\ dir' = IF Missing("backup") THEN dir
              ELSE [dir EXCEPT !["active"] = dir["backup"], !["backup"] = None]
    /\ Natively("sync", New, SkillsOf(Prev), "mended", "restore")
    /\ UNCHANGED <<pointer, txn, native, release>> /\ Keep

\* ... the native skills, and the pointer.
MendPointer ==
    /\ At("sync", "mended") \/ At("sync", "unmoved")
    /\ pointer' = New
    /\ Goto("sync", "clear")
    /\ UNCHANGED <<dir, txn, native, release>> /\ Keep

ClearTransaction ==
    /\ At("sync", "clear")
    /\ txn' = None
    /\ dir' = [dir EXCEPT !["staged"] = None, !["backup"] = None]
    /\ Goto("sync", "restore")
    /\ UNCHANGED <<pointer, native, release>> /\ Keep

RestoreAnchor ==
    /\ At("sync", "restore")
    /\ anchor' = proc["sync"].anchor
    /\ Become("sync", Asleep)
    /\ UNCHANGED <<disk, world, crashes, errors, commands>> /\ Touch

-----------------------------------------------------------------------------
(* HQ and faults. *)

Assign(b) ==
    /\ rollouts < MaxRollouts
    /\ b # assigned
    /\ rollouts' = rollouts + 1
    /\ assigned' = b
    /\ UNCHANGED <<disk, anchor, proc, counters, touched>>

Faulty == crashes + errors < MaxFaults

\* HQ refuses the receipt for good.
Refuse ==
    /\ Faulty /\ errors' = errors + 1
    /\ At("sync", "post")
    /\ Rollback(proc["sync"])
    /\ UNCHANGED <<disk, anchor, world, crashes, commands>> /\ Touch

\* Where a step that fails goes on: `catch` of activateNativeSkills and of the
\* recovery, the handlers of the installation and of the rollback.
Handlers ==
    [build |-> "idle", verify |-> "idle", aside |-> "idle", copy |-> "idle", copied |-> "idle",
     revert |-> "idle", check |-> "undo", receipt |-> "undo", publish |-> "undo", point |-> "undo",
     undo |-> "undo", repoint |-> "idle", post |-> "idle", begin |-> "restore",
     manifest |-> "restore", stage |-> "restore", shelve |-> "mend", swap |-> "mend",
     switch |-> "mend", clear |-> "restore", restore |-> "idle"]

FailStep ==
    /\ Faulty /\ errors' = errors + 1
    /\ LET me == proc["sync"] IN
       CASE me.step \in {"unload", "recover", "recovering", "recovered", "clearing", "read"} -> Throw("sync")
         [] me.step = "anchor" -> Rollback(me)
         [] me.step = "undo" -> Goto("sync", IF me.write THEN "repoint" ELSE "idle")
         [] me.step \in {"receipt", "publish", "point"} ->
              Become("sync", [me EXCEPT !.step = "undo", !.write = TRUE])
         [] me.step \in DOMAIN Handlers \ {"undo", "receipt", "publish", "point"} ->
              Goto("sync", Handlers[me.step])
         [] OTHER -> FALSE
    /\ UNCHANGED <<disk, anchor, world, crashes, commands>> /\ Touch

\* A crash may leave half of a write of the pointer, or a transaction directory
\* that has lost its manifest on the way out.
Crash ==
    /\ Faulty /\ crashes' = crashes + 1
    /\ ~ At("sync", "idle")
    /\ Become("sync", Asleep)
    /\ pointer' \in IF At("sync", "point") \/ At("sync", "repoint") THEN {pointer, None} ELSE {pointer}
    /\ txn' \in IF txn # None /\ (At("sync", "clear") \/ At("sync", "clearing"))
                THEN {txn, NoBundle} ELSE {txn}
    /\ UNCHANGED <<dir, native, release, anchor, world, errors, commands>> /\ Touch

-----------------------------------------------------------------------------
Step(p) ==
    \/ Unload(p) \/ UnloadFails(p) \/ Load(p)
    \/ Recover(p) \/ RecoverRollback(p) \/ RecoverNative(p) \/ RecoverPointer(p)
    \/ ClearRecovered(p) \/ Read(p) \/ ReadRefused(p) \/ RejectActive(p) \/ RestoreRollback(p)

Install ==
    \/ BuildRelease \/ VerifyRelease \/ SetAside \/ BeginCopy \/ EndCopy \/ Revert \/ Check
    \/ Undo \/ Repoint \/ WriteReleaseReceipt \/ WriteActiveReceipt \/ SwitchPointer
    \/ SaveAnchor \/ PostReceipt

Unconfirmed ==
    \/ Confirm \/ BeginTransaction \/ WriteManifest \/ StagePrevious \/ ShelveActive
    \/ SwapActive \/ SwitchBack \/ Mend \/ MendPointer \/ ClearTransaction \/ RestoreAnchor

Sync == (Step("sync") \/ Install \/ Unconfirmed \/ AskHq)

Next ==
    \/ Poll \/ Consult \/ PollByHand
    \/ Sync
    \/ \E p \in Readers : BeginRead(p) \/ Step(p)
    \/ \E b \in Bundles : Assign(b)
    \/ Refuse \/ FailStep \/ Crash

\* The relay polls again and again; a step of a live process is taken.
Fairness ==
    /\ SF_vars(Poll)
    /\ SF_vars(Consult)
    /\ WF_vars(Sync)

Spec == Init /\ [][Next]_vars /\ Fairness

-----------------------------------------------------------------------------
(* Properties. *)

TypeOK ==
    /\ pointer \in OptBundle
    /\ dir \in [Names -> Copies \cup {None}]
    /\ txn \in OptBundle \cup {NoBundle}
    /\ native \in [SkillIds -> OptBundle]
    /\ release \in [Bundles -> Copies]
    /\ anchor \in OptReceipt
    /\ assigned \in Bundles
    /\ DOMAIN proc = Processes
    /\ touched \in BOOLEAN

\* An authorization is granted only for a whole copy of the bundle, however often
\* its installation or its rollback was cut short.
GrantsWholeCopies == \A b \in Bundles : Granted(b) => dir["active"].whole

\* While no process has died and one call at most has failed, the skills that the
\* provider sees are those of the bundle that is granted, whichever call it was.
GrantsWhatIsNative ==
    \A b \in Bundles : crashes = 0 /\ errors <= 1 /\ At("sync", "idle") /\ Granted(b)
        => native = [s \in SkillIds |-> IF s \in Skills[b] THEN b ELSE None]

SkillSafe == TypeOK /\ (touched \/ (GrantsWholeCopies /\ GrantsWhatIsNative))

\* The pointer moves to a bundle only when `active` holds a whole copy of it.
SwitchesToACopy ==
    [][pointer' # pointer /\ pointer' # None
         => BundleIn("active") = pointer' /\ dir["active"].whole]_vars

\* The same with readers about: what they change behind the lock is excepted.
SwitchesToCopy ==
    pointer' # pointer /\ pointer' # None /\ ~ touched'
        => BundleIn("active") = pointer' /\ dir["active"].whole
SwitchesUnlessTouched == [][SwitchesToCopy]_vars

\* What no code repairs: `active` is gone but the pointer is not, or a rollback
\* transaction has no manifest.
Stuck ==
    \/ txn = NoBundle
    \/ /\ txn = None /\ pointer # None /\ BundleIn("active") # pointer
       /\ Missing("active") \/ BundleIn("rollback") # pointer

\* What only `skills sync` by hand repairs: the relay reports the bundle of its
\* anchor to HQ, but another one, or none, is in place.
Misreported == anchor # None /\ anchor.bundle = assigned /\ ~ Granted(assigned)

\* After the last fault the assigned bundle is in force again and again, unless
\* the workspace is in one of the two states above for good or a reader interfered.
Recovers == []<>Granted(assigned) \/ <>[]Stuck \/ <>[]Misreported \/ <>touched
=============================================================================
