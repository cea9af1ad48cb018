----------------------------- MODULE LocalVault -----------------------------
(***************************************************************************)
(* The encrypted vault of a device (packages/local-vault/src/index.ts) and *)
(* the captures and drains of the sync queue that work on it               *)
(* (packages/cli/src/index.ts).                                            *)
(*                                                                         *)
(* A blob is a row of the database and a file at the address of its        *)
(* contents.  The rows are transactional, the files are not: the module is *)
(* about what processes that open the same vault do to each other's files, *)
(* and what a crash leaves.  The database lets one transaction write; who  *)
(* meets another's gets SQLITE_BUSY, which is thrown to the caller.        *)
(*                                                                         *)
(* One trajectory is followed.  A snapshot of its session is a raw blob;   *)
(* a capsule is a blob that names the snapshot and the capsule before it.  *)
(***************************************************************************)
EXTENDS Integers, FiniteSets

CONSTANTS
    Procs,          \* processes that open the vault
    Relay,          \* the one that opens it again and again
    Raws, First,    \* snapshots of the session, and the first of them
    Suffixes,       \* bound on the names of files moved aside, which end at random
    None,
    MaxCaptures,    \* bound on captures
    MaxExpiries,    \* bound on snapshots that reach their age
    MaxRetired,     \* bound on queued capsules that the policy supersedes
    MaxFaults       \* bound on crashes and failed writes

ASSUME VaultAssumption ==
    /\ Relay \in Procs
    /\ First \in Raws
    /\ None \notin Procs \cup Raws
    /\ {MaxCaptures, MaxExpiries, MaxRetired, MaxFaults} \subseteq Nat

VARIABLES
    db,             \* the committed rows
    txn,            \* the open write transaction: its owner and its rows
    final,          \* contents with a file at their address
    temps,          \* temporary files, <<contents, writer>>
    quarantine,     \* files moved aside by an expiry, <<contents, suffix>>
    hq,             \* the head of the trajectory at HQ
    proc,           \* of each process: its step and what it keeps in memory
    captures, expiries, retired, faults,
    raced,          \* history: a process unlinked the file of another's row
    reverted        \* history: a discard has uncovered a capsule of an expired snapshot

files == <<final, temps, quarantine>>
bounds == <<captures, expiries, retired, faults>>
vars == <<db, txn, files, hq, proc, bounds, raced, reverted>>

\* A capsule: [rev, raw, avail, prev].
Dead == "dead"
Child(prev, raw, avail) ==
    [rev |-> IF prev = None THEN 1 ELSE prev.rev + 1, raw |-> raw, avail |-> avail, prev |-> prev]
Newest(caps) == IF caps = {} THEN None ELSE CHOOSE k \in caps : \A l \in caps : l.rev <= k.rev

Asleep == [step |-> "idle", list |-> {}, item |-> None, kept |-> FALSE, made |-> {}, moved |-> {},
           raw |-> None, sync |-> FALSE, head |-> None, capsule |-> None]

Init ==
    /\ db = [rows |-> {}, old |-> {}, caps |-> {}, queue |-> {}]
    /\ txn = None
    /\ final = {} /\ temps = {} /\ quarantine = {}
    /\ hq = None
    /\ proc = [p \in Procs |-> Asleep]
    /\ captures = 0 /\ expiries = 0 /\ retired = 0 /\ faults = 0
    /\ raced = FALSE /\ reverted = FALSE

At(p, step) == proc[p].step = step
Become(p, state) == proc' = [proc EXCEPT ![p] = state]
Goto(p, step) == Become(p, [proc[p] EXCEPT !.step = step])
Throw(p) == Become(p, Asleep)
List(p, step, set) == Become(p, [proc[p] EXCEPT !.step = step, !.list = set])
Done(p, item) == Become(p, [proc[p] EXCEPT !.list = @ \ {item}])

Free == txn = None
Mine(p) == txn # None /\ txn.owner = p
Busy(p) == ~ Free /\ Throw(p) /\ UNCHANGED <<db, files>>
Write(rows) == txn' = [txn EXCEPT !.db = rows]

\* The rows that are committed, or will be.
Indexed == db.rows \cup IF Free THEN {} ELSE txn.db.rows

Calm == UNCHANGED <<hq, bounds, raced, reverted>>

-----------------------------------------------------------------------------
(* LocalVault.open: files of interrupted expiries go back or away, ...      *)

Open(p) ==
    /\ At(p, "idle")
    /\ p = Relay \/ captures < MaxCaptures
    /\ List(p, "restore", quarantine)
    /\ UNCHANGED <<db, txn, files>> /\ Calm

\* recoverRetentionQuarantine reads the row without the write lock, ...
RestoreLook(p) ==
    /\ At(p, "restore")
    /\ \E e \in proc[p].list :
          Become(p, [proc[p] EXCEPT !.step = "restoring", !.item = e, !.kept = e[1] \in db.rows])
    /\ UNCHANGED <<db, txn, files>> /\ Calm

\* Mutant: a file whose row is there stays aside.
LeaveAside(p) ==
    /\ At(p, "restoring")
    /\ quarantine' = IF proc[p].kept THEN quarantine ELSE quarantine \ {proc[p].item}
    /\ Become(p, [proc[p] EXCEPT !.step = "restore", !.list = @ \ {proc[p].item}])
    /\ UNCHANGED <<db, txn, final, temps>> /\ Calm

\* ... and acts on what it read.  A file that is gone by then is ENOENT.
RestoreMove(p) ==
    /\ At(p, "restoring")
    /\ LET e == proc[p].item IN
       IF proc[p].kept /\ e \notin quarantine
       THEN Throw(p) /\ UNCHANGED <<final, quarantine>>
       ELSE /\ quarantine' = quarantine \ {e}
            /\ final' = IF proc[p].kept THEN final \cup {e[1]} ELSE final
            /\ Become(p, [proc[p] EXCEPT !.step = "restore", !.list = @ \ {e}])
    /\ UNCHANGED <<db, txn, temps>> /\ Calm

Restored(p) ==
    /\ At(p, "restore") /\ proc[p].list = {}
    /\ List(p, "sweep", {<<c, None>> : c \in final} \cup {t \in temps : t[2] = Dead})
    /\ UNCHANGED <<db, txn, files>> /\ Calm

\* Mutant: only capsules are looked up.
NotACapsule(e) == e[2] = None /\ e[1] \notin db.caps

\* ... and what no row knows is removed.
Orphan(e) == e[2] = None /\ e[1] \notin db.rows

\* recoverUnindexedBlobs looks and unlinks under the write lock, in some fixed order.
Sweep(p) ==
    /\ At(p, "sweep") /\ proc[p].list # {}
    /\ LET e == CHOOSE e \in proc[p].list : TRUE IN
       IF ~ Free THEN Throw(p) /\ UNCHANGED files
       ELSE /\ final' = IF Orphan(e) THEN final \ {e[1]} ELSE final
            /\ temps' = IF e[2] = Dead THEN temps \ {e} ELSE temps
            /\ Done(p, e)
            /\ UNCHANGED quarantine
    /\ UNCHANGED <<db, txn>> /\ Calm

Swept(p) ==
    /\ At(p, "sweep") /\ proc[p].list = {}
    /\ Goto(p, "expire")
    /\ UNCHANGED <<db, txn, files>> /\ Calm

-----------------------------------------------------------------------------
(* enforceRawEvidenceRetention, one batch at a time: the files are moved    *)
(* aside, the newest capsule is revised, the rows go, then the files.       *)

Expired == db.old

SelectExpired(p) ==
    /\ At(p, "expire")
    /\ IF Expired = {} THEN Become(p, [Asleep EXCEPT !.step = "ready"])
       ELSE List(p, "begin expiry", Expired)
    /\ UNCHANGED <<db, txn, files>> /\ Calm

BeginExpiry(p) ==
    /\ At(p, "begin expiry")
    /\ \/ Busy(p) /\ UNCHANGED txn
       \/ /\ Free
          /\ txn' = [owner |-> p, db |-> db]
          /\ Become(p, [proc[p] EXCEPT !.step = "move", !.made = {}, !.moved = {}])
          /\ UNCHANGED <<db, files>>
    /\ Calm

\* A failure rolls the transaction back and goes on with the files.
Abort(p) ==
    /\ txn' = None
    /\ Goto(p, "undo")

\* A file that is moved aside gets a name that nobody has listed.
Listed(q) == IF proc[q].step \in {"restore", "restoring", "purge"} THEN proc[q].list ELSE {}
Known(e) == e \in quarantine \/ \E q \in Procs : e \in Listed(q) \cup proc[q].moved
Fresh(c) == {n \in Suffixes : ~ Known(<<c, n>>)}

MoveAside(p) ==
    /\ At(p, "move")
    /\ \E c \in proc[p].list :
          IF c \notin final
          THEN Abort(p) /\ UNCHANGED <<final, quarantine>>
          ELSE LET e == <<c, CHOOSE n \in Fresh(c) : TRUE>> IN
               /\ Fresh(c) # {}
               /\ final' = final \ {c}
               /\ quarantine' = quarantine \cup {e}
               /\ Become(p, [proc[p] EXCEPT !.step = "revise", !.item = c, !.moved = @ \cup {e}])
               /\ UNCHANGED txn
    /\ UNCHANGED <<db, temps>> /\ Calm

\* The newest capsule, if it says that the snapshot is here.
Revisable(c) == LET k == Newest(txn.db.caps) IN k # None /\ k.raw = c /\ k.avail
Revision(c) == Child(Newest(txn.db.caps), c, FALSE)
Without(rows, c) == [rows EXCEPT !.rows = @ \ {c}, !.old = @ \ {c}]

\* The row that another process has deleted in between is missed.
DeleteRow(p) ==
    /\ At(p, "revise")
    /\ LET c == proc[p].item IN
       /\ ~ Revisable(c)
       /\ IF c \notin txn.db.rows THEN Abort(p)
          ELSE /\ Write(Without(txn.db, c))
               /\ Become(p, [proc[p] EXCEPT !.step = "move", !.list = @ \ {c}])
    /\ UNCHANGED <<db, files>> /\ Calm

WriteRevision(p) ==
    /\ At(p, "revise")
    /\ Revisable(proc[p].item)
    /\ temps' = temps \cup {<<Revision(proc[p].item), p>>}
    /\ Goto(p, "revised")
    /\ UNCHANGED <<db, txn, final, quarantine>> /\ Calm

\* The insertion of the row and the renaming of the file, without an await.
PublishRevision(p) ==
    /\ At(p, "revised")
    /\ LET c == proc[p].item
           k == Revision(c)
           rows == [txn.db EXCEPT !.rows = @ \cup {k}, !.caps = @ \cup {k}, !.queue = @ \cup {k}]
           made == IF k \in txn.db.rows THEN proc[p].made ELSE proc[p].made \cup {k}
       IN /\ temps' = temps \ {<<k, p>>}
          /\ final' = final \cup {k}
          /\ IF c \notin txn.db.rows
             THEN txn' = None /\ Become(p, [proc[p] EXCEPT !.step = "undo", !.made = made])
             ELSE /\ Write(Without(rows, c))
                  /\ Become(p, [proc[p] EXCEPT !.step = "move", !.list = @ \ {c}, !.made = made])
    /\ UNCHANGED <<db, quarantine>> /\ Calm

CommitExpiry(p) ==
    /\ At(p, "move") /\ proc[p].list = {}
    /\ db' = txn.db /\ txn' = None
    /\ Become(p, [proc[p] EXCEPT !.step = "purge", !.list = proc[p].moved, !.moved = {}])
    /\ UNCHANGED files /\ Calm

Purge(p) ==
    /\ At(p, "purge")
    /\ \/ \E e \in proc[p].list : quarantine' = quarantine \ {e} /\ Done(p, e)
       \/ proc[p].list = {} /\ Goto(p, "expire") /\ UNCHANGED quarantine
    /\ UNCHANGED <<db, txn, final, temps>> /\ Calm

\* After a rollback: the files that were made are unlinked, ...
UndoMade(p) ==
    /\ At(p, "undo")
    /\ \E c \in proc[p].made :
          /\ final' = final \ {c}
          /\ raced' = (raced \/ (c \in final /\ c \in Indexed))
          /\ Become(p, [proc[p] EXCEPT !.made = @ \ {c}])
    /\ UNCHANGED <<db, txn, temps, quarantine, hq, bounds, reverted>>

\* ... and those that were moved go back; one that is gone is passed over.
UndoMoved(p) ==
    /\ At(p, "undo") /\ proc[p].made = {}
    /\ \E e \in proc[p].moved :
          /\ quarantine' = quarantine \ {e}
          /\ final' = IF e \in quarantine THEN final \cup {e[1]} ELSE final
          /\ Become(p, [proc[p] EXCEPT !.moved = @ \ {e}])
    /\ UNCHANGED <<db, txn, temps>> /\ Calm

Undone(p) ==
    /\ At(p, "undo") /\ proc[p].made = {} /\ proc[p].moved = {}
    /\ Throw(p)
    /\ UNCHANGED <<db, txn, files>> /\ Calm

-----------------------------------------------------------------------------
(* capture: with --sync it drops what HQ does not know, builds a capsule on *)
(* the head of HQ, and uploads it.                                          *)

Close(p) ==
    /\ At(p, "ready")
    /\ Throw(p)
    /\ UNCHANGED <<db, txn, files>> /\ Calm

\* The session has its first snapshot, and later another.  With --sync the queue
\* comes first.
BeginCapture(p, raw, sync) ==
    /\ At(p, "ready")
    /\ captures < MaxCaptures
    /\ captures = 0 => raw = First
    /\ captures' = captures + 1
    /\ LET me == [Asleep EXCEPT !.raw = raw, !.sync = sync] IN
       IF ~ sync THEN Become(p, [me EXCEPT !.step = "latest"])
       ELSE IF db.queue \subseteq final THEN Become(p, [me EXCEPT !.step = "drain", !.list = db.queue])
       ELSE Throw(p)
    /\ UNCHANGED <<db, txn, files, hq, expiries, retired, faults, raced, reverted>>

FetchHead(p) ==
    /\ At(p, "head")
    /\ Become(p, [proc[p] EXCEPT !.step = "discard", !.head = hq])
    /\ UNCHANGED <<db, txn, files>> /\ Calm

HeadRev(p) == IF proc[p].head = None THEN 0 ELSE proc[p].head.rev
Newer(p) == {k \in db.caps : k.rev > HeadRev(p)}

\* The newest capsule says that its snapshot is in the vault only when it is.
Honest(rows) == LET k == Newest(rows.caps) IN k # None /\ k.avail => k.raw \in rows.rows

\* discardCapsuleRevisionsAfter.  What is then the newest capsule may be of a
\* snapshot that has expired when it was not.
Discard(p) ==
    /\ At(p, "discard")
    /\ IF Newer(p) # {} /\ ~ Free THEN Throw(p) /\ UNCHANGED <<db, reverted>>
       ELSE /\ db' = [db EXCEPT !.caps = @ \ Newer(p), !.queue = @ \ Newer(p)]
            /\ reverted' = (reverted \/ ~ Honest(db'))
            /\ List(p, "drop", Newer(p))
    /\ UNCHANGED <<txn, files, hq, bounds, raced>>

DropRow(p) ==
    /\ At(p, "drop")
    /\ \E k \in proc[p].list :
          IF k \in db.caps THEN Done(p, k) /\ UNCHANGED db
          ELSE IF ~ Free THEN Throw(p) /\ UNCHANGED db
          ELSE /\ db' = [db EXCEPT !.rows = @ \ {k}]
               /\ Become(p, [proc[p] EXCEPT !.step = "unlink", !.item = k])
    /\ UNCHANGED <<txn, files>> /\ Calm

DropFile(p) ==
    /\ At(p, "unlink")
    /\ LET k == proc[p].item IN
       /\ final' = final \ {k}
       /\ raced' = (raced \/ (k \in final /\ k \in Indexed))
       /\ Become(p, [proc[p] EXCEPT !.step = "drop", !.list = @ \ {k}])
    /\ UNCHANGED <<db, txn, temps, quarantine, hq, bounds, reverted>>

Dropped(p) ==
    /\ At(p, "drop") /\ proc[p].list = {}
    /\ Goto(p, "latest")
    /\ UNCHANGED <<db, txn, files>> /\ Calm

\* The newest local capsule is used again when it says the same.
Same(latest, p) ==
    /\ latest # None
    /\ latest.raw = proc[p].raw /\ latest.avail
    /\ proc[p].sync => latest = proc[p].head \/ latest.prev = proc[p].head
Base(latest, p) == IF proc[p].sync THEN proc[p].head ELSE latest

ReadLatest(p) ==
    /\ At(p, "latest")
    /\ LET latest == Newest(db.caps) IN
       IF latest # None /\ latest \notin final THEN Throw(p)
       ELSE IF Same(latest, p)
       THEN Become(p, [proc[p] EXCEPT !.step = "enqueue", !.capsule = latest])
       ELSE Become(p, [proc[p] EXCEPT !.step = "begin", !.made = {},
                                      !.capsule = Child(Base(latest, p), proc[p].raw, TRUE)])
    /\ UNCHANGED <<db, txn, files>> /\ Calm

\* commitCapture
BeginCommit(p) ==
    /\ At(p, "begin")
    /\ \/ Busy(p) /\ UNCHANGED txn
       \/ /\ Free
          /\ txn' = [owner |-> p, db |-> db]
          /\ Goto(p, "raw")
          /\ UNCHANGED <<db, files>>
    /\ Calm

Put(p, c, step, then) ==
    /\ At(p, step)
    /\ IF c \in txn.db.rows THEN Goto(p, then) /\ UNCHANGED temps
       ELSE temps' = temps \cup {<<c, p>>} /\ Goto(p, IF step = "raw" THEN "publish raw" ELSE "publish capsule")
    /\ UNCHANGED <<db, txn, final, quarantine>> /\ Calm

Publish(p, c, step, then) ==
    /\ At(p, step)
    /\ Write([txn.db EXCEPT !.rows = @ \cup {c}])
    /\ temps' = temps \ {<<c, p>>}
    /\ final' = final \cup {c}
    /\ Become(p, [proc[p] EXCEPT !.step = then, !.made = @ \cup {c}])
    /\ UNCHANGED <<db, quarantine>> /\ Calm

PutRaw(p) == Put(p, proc[p].raw, "raw", "capsule") \/ Publish(p, proc[p].raw, "publish raw", "capsule")
PutCapsule(p) == Put(p, proc[p].capsule, "capsule", "record") \/ Publish(p, proc[p].capsule, "publish capsule", "record")

\* recordCapsule: another capsule has the revision.
Conflicts(p) == \E k \in txn.db.caps : k.rev = proc[p].capsule.rev /\ k # proc[p].capsule

CommitCapture(p) ==
    /\ At(p, "record")
    /\ IF Conflicts(p) THEN Abort(p) /\ UNCHANGED db
       ELSE /\ db' = [txn.db EXCEPT !.caps = @ \cup {proc[p].capsule}]
            /\ txn' = None
            /\ IF proc[p].sync THEN Goto(p, "enqueue") ELSE Throw(p)
    /\ UNCHANGED files /\ Calm

\* queueCapsuleSync
Enqueue(p) ==
    /\ At(p, "enqueue")
    /\ IF ~ proc[p].sync \/ ~ Free \/ (\A k \in db.caps : k.rev # proc[p].capsule.rev)
       THEN Throw(p) /\ UNCHANGED db
       ELSE /\ db' = [db EXCEPT !.queue = @ \cup {CHOOSE k \in db.caps : k.rev = proc[p].capsule.rev}]
            /\ Become(p, [proc[p] EXCEPT !.step = "upload", !.list = {}, !.raw = None])
    /\ UNCHANGED <<txn, files>> /\ Calm

-----------------------------------------------------------------------------
(* syncPendingRetentionCapsules, and the upload that both share.            *)

\* The queue is listed with the contents of its capsules.
Drain(p) ==
    /\ At(p, "ready")
    /\ IF db.queue \subseteq final THEN List(p, "drain", db.queue) ELSE Throw(p)
    /\ UNCHANGED <<db, txn, files>> /\ Calm

\* The oldest first.
Oldest(p) == CHOOSE k \in proc[p].list : \A l \in proc[p].list : k.rev <= l.rev

Take(p) ==
    /\ At(p, "drain") /\ proc[p].list # {}
    /\ Become(p, [proc[p] EXCEPT !.step = "upload", !.capsule = Oldest(p), !.list = @ \ {Oldest(p)}])
    /\ UNCHANGED <<db, txn, files>> /\ Calm

\* The current policy does not cover the capsule.
Retire(p) ==
    /\ At(p, "drain") /\ proc[p].list # {}
    /\ retired < MaxRetired
    /\ retired' = retired + 1
    /\ IF ~ Free THEN Throw(p) /\ UNCHANGED db
       ELSE db' = [db EXCEPT !.queue = @ \ {Oldest(p)}] /\ Done(p, Oldest(p))
    /\ UNCHANGED <<txn, files, hq, captures, expiries, faults, raced, reverted>>

Drained(p) ==
    /\ At(p, "drain") /\ proc[p].list = {}
    /\ IF proc[p].raw = None THEN Throw(p) ELSE Goto(p, "head")
    /\ UNCHANGED <<db, txn, files>> /\ Calm

\* HQ takes what follows its head, and its head again.
Accepts(k) == k = hq \/ k.prev = hq

Upload(p) ==
    /\ At(p, "upload")
    /\ IF Accepts(proc[p].capsule)
       THEN hq' = proc[p].capsule /\ Goto(p, "mark")
       ELSE Throw(p) /\ UNCHANGED hq
    /\ UNCHANGED <<db, txn, files, bounds, raced, reverted>>

\* markCapsuleSynced goes by the revision.
Mark(p) ==
    /\ At(p, "mark")
    /\ IF ~ Free THEN Throw(p) /\ UNCHANGED db
       ELSE /\ db' = [db EXCEPT !.queue = {k \in @ : k.rev # proc[p].capsule.rev}]
            /\ Goto(p, "drain")
    /\ UNCHANGED <<txn, files>> /\ Calm

-----------------------------------------------------------------------------
(* Time and faults. *)

Age(c) ==
    /\ expiries < MaxExpiries
    /\ Free
    /\ c \in db.rows \ db.old
    /\ expiries' = expiries + 1
    /\ db' = [db EXCEPT !.old = @ \cup {c}]
    /\ UNCHANGED <<txn, files, hq, proc, captures, retired, faults, raced, reverted>>

\* A write fails in a transaction.
FailWrite(p) ==
    /\ faults < MaxFaults /\ faults' = faults + 1
    /\ Mine(p)
    /\ Abort(p)
    /\ temps' = {t \in temps : t[2] # p}
    /\ UNCHANGED <<db, final, quarantine, hq, captures, expiries, retired, raced, reverted>>

Crash(p) ==
    /\ faults < MaxFaults /\ faults' = faults + 1
    /\ ~ At(p, "idle")
    /\ Throw(p)
    /\ txn' = IF Mine(p) THEN None ELSE txn
    /\ temps' = {IF t[2] = p THEN <<t[1], Dead>> ELSE t : t \in temps}
    /\ UNCHANGED <<db, final, quarantine, hq, captures, expiries, retired, raced, reverted>>

\* The upload arrives but its answer does not.
LoseAnswer(p) ==
    /\ faults < MaxFaults /\ faults' = faults + 1
    /\ At(p, "upload")
    /\ Accepts(proc[p].capsule)
    /\ hq' = proc[p].capsule
    /\ Throw(p)
    /\ UNCHANGED <<db, txn, files, captures, expiries, retired, raced, reverted>>

-----------------------------------------------------------------------------
Retention(p) ==
    \/ RestoreLook(p) \/ RestoreMove(p) \/ Restored(p) \/ Sweep(p) \/ Swept(p)
    \/ SelectExpired(p) \/ BeginExpiry(p) \/ MoveAside(p) \/ DeleteRow(p) \/ WriteRevision(p)
    \/ PublishRevision(p) \/ CommitExpiry(p) \/ Purge(p) \/ UndoMade(p) \/ UndoMoved(p) \/ Undone(p)

Capture(p) ==
    \/ FetchHead(p) \/ Discard(p) \/ DropRow(p) \/ DropFile(p) \/ Dropped(p) \/ ReadLatest(p)
    \/ BeginCommit(p) \/ PutRaw(p) \/ PutCapsule(p) \/ CommitCapture(p) \/ Enqueue(p)

Sync(p) == Take(p) \/ Drained(p) \/ Upload(p) \/ Mark(p)

Work(p) == Retention(p) \/ Capture(p) \/ Sync(p)

Next ==
    \/ \E p \in Procs : Open(p) \/ Work(p) \/ Close(p) \/ Drain(p) \/ Retire(p)
    \/ \E p \in Procs, raw \in Raws, sync \in BOOLEAN : BeginCapture(p, raw, sync)
    \/ \E c \in Raws : Age(c)
    \/ \E p \in Procs : FailWrite(p) \/ Crash(p) \/ LoseAnswer(p)

\* A process that works goes on, and closes the vault; the relay opens it and
\* drains the queue in every cycle.
Fairness ==
    /\ \A p \in Procs : WF_vars(Work(p)) /\ WF_vars(Close(p))
    /\ WF_vars(Open(Relay)) /\ SF_vars(Drain(Relay))

Spec == Init /\ [][Next]_vars /\ Fairness

-----------------------------------------------------------------------------
(* Properties. *)

TypeOK ==
    /\ db.old \subseteq db.rows \cap Raws
    /\ db.caps \subseteq db.rows
    /\ db.queue \subseteq db.caps
    /\ \A t \in temps : t[2] \in Procs \cup {Dead}
    /\ \A e \in quarantine : e[2] \in Suffixes
    /\ DOMAIN proc = Procs
    /\ txn # None => txn.owner \in Procs

HasFile(c) == c \in final \/ \E n \in Suffixes : <<c, n>> \in quarantine

\* No process takes away the file of a committed row: it stays at its address, or
\* aside where the next process that opens the vault finds it.
FilesOfRows == \A c \in db.rows : HasFile(c)

\* A revision has one capsule, and the newest one says that its snapshot is in the
\* vault only when it is.
OneChain == \A k, l \in db.caps : k.rev = l.rev => k = l
IndexHonest == Honest(db)

VaultSafe ==
    /\ TypeOK /\ OneChain
    /\ raced \/ FilesOfRows
    /\ reverted \/ IndexHonest

\* What waits and HQ will never take: its predecessor was never uploaded.
Blocked == \E k \in db.queue : ~ Accepts(k) /\ \A l \in db.queue : l.rev < k.rev => ~ Accepts(l)

\* Once captures and faults have ended, snapshots past their age are gone, files and
\* rows agree, and the queue is empty unless it is blocked or a file was lost.
Tidy == db.old = {} /\ quarantine = {} /\ final = db.rows
Settles ==
    \/ <>raced
    \/ []<>Tidy /\ ([]<>(db.queue = {}) \/ <>[]Blocked)
=============================================================================
