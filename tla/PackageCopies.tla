---------------------------- MODULE PackageCopies ----------------------------
(***************************************************************************)
(* The managed copies of a repository package: withCopyLock, recoverCopies,*)
(* prepareCopies and applyJournal in packages/cli/src/repositoryPackage.ts.*)
(*                                                                         *)
(* A snapshot names the files that are copied into the repository.  Under  *)
(* a lock file a writer finishes what a journal says is under way, stages  *)
(* the new files, writes a journal of its own, and then moves every old    *)
(* file to a backup and links the new one in its place, writes the index   *)
(* and the manifest, and removes what it staged and backed up.  Writers    *)
(* die, steps fail, and the user edits the copies, at any point.           *)
(*                                                                         *)
(* Snapshots are stored under their digest before anything else, and stay. *)
(***************************************************************************)
EXTENDS Integers, FiniteSets

CONSTANTS
    Writers,     \* processes that write the package of one repository
    Paths,       \* numbers of the copied files, in their order
    Contents,
    Snapshots,
    Files,       \* of each snapshot: the content of each path, or None
    Own,         \* a content the user wrote
    None,
    MaxTx,       \* bound on the transactions
    MaxFaults    \* bound on deaths, failing steps and edits together

CopiesAssumption ==
    /\ Paths \subseteq Nat /\ IsFiniteSet(Paths)
    /\ Files \in [Snapshots -> [Paths -> Contents \cup {None}]]
    /\ Own \notin Contents /\ None \notin Contents \cup {Own} \cup Snapshots \cup Writers
    /\ {MaxTx, MaxFaults} \subseteq Nat
    /\ None \notin [owner : Writers, life : Nat]
    /\ None \notin [tx : Nat, previous : Snapshots \cup {None}, manifest : Snapshots \cup {None}, desired : Snapshots]

VARIABLES
    target,     \* of each path: its text and the transaction it is linked with
    staged, backup,   \* of each transaction and path
    index, manifest,  \* COPY-INDEX.json and MANIFEST.json: a snapshot
    journal,    \* COPY-JOURNAL.json
    lock,       \* COPY-LOCK.json: a writer and the life it was taken in
    life,       \* of each writer: the times it has died
    pc, want, mine, seen, todo, tries,   \* of each writer: its step, the snapshot
                \* it is to write, the journal it applies, the lock it found, ...
    txs,        \* transactions so far
    faults,
    edited,     \* history: the user has changed a copy
    kept,       \* history: paths with a text of the user
    usurped     \* history: a writer has removed a live one's lock, for that of a dead one

files == <<target, staged, backup, index, manifest, journal>>
locals == <<want, mine, seen, todo, tries>>
history == <<edited, kept, usurped>>
vars == <<files, lock, life, pc, locals, txs, faults, history>>

Tx == 1 .. MaxTx
Absent == [text |-> None, tx |-> 0]
NoFiles == [p \in Paths |-> None]
FilesOf(s) == IF s = None THEN NoFiles ELSE Files[s]

\* What a journal is about to change, and to what.
Before(j) == FilesOf(j.previous)
After(j) == FilesOf(j.desired)
Changes(j) == {p \in Paths : Before(j)[p] # After(j)[p]}

Init ==
    /\ target = [p \in Paths |-> Absent]
    /\ staged = [t \in Tx |-> NoFiles] /\ backup = [t \in Tx |-> NoFiles]
    /\ index = None
    /\ manifest \in {None} \cup Snapshots     \* of a version that made no copies
    /\ journal = None /\ lock = None
    /\ life = [w \in Writers |-> 0]
    /\ pc = [w \in Writers |-> "out"]
    /\ want = [w \in Writers |-> None] /\ mine = [w \in Writers |-> None] /\ seen = [w \in Writers |-> None]
    /\ todo = [w \in Writers |-> {}] /\ tries = [w \in Writers |-> 0]
    /\ txs = 0 /\ faults = 0 /\ edited = FALSE /\ kept = {} /\ usurped = FALSE

-----------------------------------------------------------------------------
(* withCopyLock *)

GoTo(w, step) == pc' = [pc EXCEPT ![w] = step]
Self(w) == [owner |-> w, life |-> life[w]]
Dead(l) == life[l.owner] # l.life
Keeping == <<life, txs, faults, edited, kept>>

\* A command, a synchronisation or a setup writes a snapshot.
Begin(w, s) ==
    /\ pc[w] = "out"
    /\ GoTo(w, "link")
    /\ want' = [want EXCEPT ![w] = s]
    /\ tries' = [tries EXCEPT ![w] = 0]
    /\ UNCHANGED <<files, lock, mine, seen, todo, usurped, Keeping>>

\* The lock is linked, or somebody has it: after two attempts the call ends.
Link(w) ==
    /\ pc[w] = "link"
    /\ CASE tries[w] = 2 -> GoTo(w, "release") /\ UNCHANGED <<lock, seen>>
         [] tries[w] < 2 /\ lock = None -> GoTo(w, "recover") /\ lock' = Self(w) /\ UNCHANGED seen
         [] OTHER -> GoTo(w, "probe") /\ seen' = [seen EXCEPT ![w] = lock] /\ UNCHANGED lock
    /\ tries' = [tries EXCEPT ![w] = @ + 1]
    /\ UNCHANGED <<files, want, mine, todo, usurped, Keeping>>

\* Mutant: nobody asks whether the owner still runs.
TakesOver(w) ==
    /\ pc[w] = "probe"
    /\ GoTo(w, IF lock = seen[w] THEN "unlink" ELSE "release")
    /\ UNCHANGED <<files, lock, locals, usurped, Keeping>>

\* The owner is looked for, and the lock is read again.
Probe(w) ==
    /\ pc[w] = "probe"
    /\ GoTo(w, IF Dead(seen[w]) /\ lock = seen[w] THEN "unlink" ELSE "release")
    /\ UNCHANGED <<files, lock, locals, usurped, Keeping>>

\* The lock is removed by its name, whoever has it by now.
Unlink(w) ==
    /\ pc[w] = "unlink"
    /\ lock' = None
    /\ GoTo(w, IF lock = None THEN "release" ELSE "link")
    /\ usurped' = (usurped \/ (lock \notin {None, seen[w]} /\ ~ Dead(lock)))
    /\ UNCHANGED <<files, locals, Keeping>>

Forgotten(w) ==
    /\ want' = [want EXCEPT ![w] = None] /\ mine' = [mine EXCEPT ![w] = None]
    /\ seen' = [seen EXCEPT ![w] = None] /\ todo' = [todo EXCEPT ![w] = {}]
    /\ tries' = [tries EXCEPT ![w] = 0]

\* The call ends, and removes the lock if it is still its own.
Release(w) ==
    /\ pc[w] = "release"
    /\ GoTo(w, IF lock = Self(w) THEN "releasing" ELSE "out")
    /\ Forgotten(w)
    /\ UNCHANGED <<files, lock, usurped, Keeping>>

Released(w) ==
    /\ pc[w] = "releasing"
    /\ lock' = None
    /\ GoTo(w, "out")
    /\ UNCHANGED <<files, locals, usurped, Keeping>>

-----------------------------------------------------------------------------
(* recoverCopies and prepareCopies *)

meta == <<index, manifest, journal>>
alone == <<lock, usurped, Keeping, seen, tries>>   \* what the steps below leave alone

\* The metadata or a file is not what the journal explains: the call throws.
Refuse(w) == GoTo(w, "refused") /\ UNCHANGED <<files, want, mine, todo>>

Foreign(j) ==
    \/ index \notin {j.desired, j.previous, None} \/ (index = None /\ j.previous # None)
    \/ manifest \notin {j.desired, j.manifest, None} \/ (manifest = None /\ j.manifest # None)
Committed(j) == index = j.desired /\ manifest = j.desired

\* The head of applyJournal.
Apply(w, j) ==
    IF Foreign(j) THEN Refuse(w)
    ELSE /\ GoTo(w, IF Committed(j) THEN "verify" ELSE "file")
         /\ mine' = [mine EXCEPT ![w] = j]
         /\ todo' = [todo EXCEPT ![w] = Changes(j)]
         /\ UNCHANGED <<files, want>>

\* Mutant: a journal of an earlier writer is not looked for.
NeverRecovers(w) ==
    /\ pc[w] = "recover"
    /\ GoTo(w, "prepare")
    /\ UNCHANGED <<files, want, mine, todo, alone>>

Recover(w) ==
    /\ pc[w] = "recover"
    /\ IF journal = None THEN GoTo(w, "prepare") /\ UNCHANGED <<files, want, mine, todo>>
                         ELSE Apply(w, journal)
    /\ UNCHANGED alone

\* Every copy of the index is there, and nothing where a new one will be.
Prepared(s) ==
    /\ index # None => index = manifest
    /\ \A p \in Paths :
         IF FilesOf(index)[p] # None THEN target[p].text = FilesOf(index)[p]
                                     ELSE Files[s][p] # None => target[p] = Absent

\* The new files are staged, in directories of the transaction's own.
Prepare(w) ==
    /\ pc[w] = "prepare"
    /\ IF ~ Prepared(want[w]) THEN Refuse(w) /\ UNCHANGED alone
       ELSE /\ txs < MaxTx /\ txs' = txs + 1
            /\ LET j == [tx |-> txs', previous |-> index, manifest |-> manifest, desired |-> want[w]] IN
               /\ mine' = [mine EXCEPT ![w] = j]
               /\ staged' = [staged EXCEPT ![txs'] = [p \in Paths |-> IF p \in Changes(j) THEN After(j)[p] ELSE None]]
            /\ want' = [want EXCEPT ![w] = None]
            /\ GoTo(w, "journal")
            /\ UNCHANGED <<target, backup, meta, todo, lock, usurped, life, faults, edited, kept, seen, tries>>

WriteJournal(w) ==
    /\ pc[w] = "journal"
    /\ journal' = mine[w]
    /\ GoTo(w, "apply")
    /\ UNCHANGED <<target, staged, backup, index, manifest, want, mine, todo, alone>>

ApplyOwn(w) == pc[w] = "apply" /\ Apply(w, mine[w]) /\ UNCHANGED alone

-----------------------------------------------------------------------------
(* applyJournal: the files, one after the other *)

NextFile(w) == CHOOSE p \in todo[w] : \A q \in todo[w] : p <= q
Done(w, p) == todo' = [todo EXCEPT ![w] = @ \ {p}]

Conflict(found, expected) == found # None /\ found # expected

\* A copy is installed when it is the staged file itself.
Installed(j, p) ==
    After(j)[p] # None /\ target[p] = [text |-> After(j)[p], tx |-> j.tx] /\ staged[j.tx][p] # None

\* What is at the target: the old copy, which is moved away, the new one, ...
Look(w) ==
    /\ pc[w] = "file" /\ todo[w] # {}
    /\ LET j == mine[w]
           p == NextFile(w)
           saved == backup[j.tx][p] # None
           old == Before(j)[p] # None IN
       CASE Conflict(backup[j.tx][p], Before(j)[p]) -> Refuse(w)
         [] Installed(j, p) -> Done(w, p) /\ UNCHANGED <<pc, files, want, mine>>
         [] OTHER ->
              IF target[p] # Absent
              THEN IF old /\ ~ saved /\ target[p].text = Before(j)[p]
                   THEN GoTo(w, "move") /\ UNCHANGED <<files, want, mine, todo>> ELSE Refuse(w)
              ELSE IF old /\ ~ saved THEN Refuse(w)
                   ELSE GoTo(w, "place") /\ UNCHANGED <<files, want, mine, todo>>
    /\ UNCHANGED alone

\* ... and it is moved by its name, whatever is there by now.
Move(w) ==
    /\ pc[w] = "move"
    /\ LET j == mine[w]  p == NextFile(w) IN
       IF target[p] = Absent THEN Refuse(w)
       ELSE /\ backup' = [backup EXCEPT ![j.tx][p] = target[p].text]
            /\ target' = [target EXCEPT ![p] = Absent]
            /\ GoTo(w, "place")
            /\ UNCHANGED <<staged, meta, want, mine, todo>>
    /\ UNCHANGED alone

\* Mutant: the new copy is renamed over what is at the target.
PlacesOver(w) ==
    /\ pc[w] = "place"
    /\ LET j == mine[w]  p == NextFile(w) IN
       /\ target' = [target EXCEPT ![p] = IF After(j)[p] = None THEN @ ELSE [text |-> After(j)[p], tx |-> j.tx]]
       /\ Done(w, p) /\ GoTo(w, "file") /\ UNCHANGED <<staged, backup, meta, want, mine>>
    /\ UNCHANGED alone

\* link() does not replace what the user has put there meanwhile.
Place(w) ==
    /\ pc[w] = "place"
    /\ LET j == mine[w]  p == NextFile(w) IN
       IF After(j)[p] = None THEN Done(w, p) /\ GoTo(w, "file") /\ UNCHANGED <<files, want, mine>>
       ELSE IF staged[j.tx][p] # After(j)[p] \/ target[p] # Absent THEN Refuse(w)
       ELSE /\ target' = [target EXCEPT ![p] = [text |-> After(j)[p], tx |-> j.tx]]
            /\ Done(w, p) /\ GoTo(w, "file")
            /\ UNCHANGED <<staged, backup, meta, want, mine>>
    /\ UNCHANGED alone

-----------------------------------------------------------------------------
(* applyJournal: the metadata, and what is left behind *)

\* verifyCopies
AllCopied(j) ==
    \A p \in Paths : IF After(j)[p] # None THEN target[p].text = After(j)[p]
                                           ELSE Before(j)[p] # None => target[p] = Absent

WriteIndex(w) ==
    /\ pc[w] = "file" /\ todo[w] = {}
    /\ IF AllCopied(mine[w]) /\ ~ Foreign(mine[w])
       THEN /\ index' = mine[w].desired /\ GoTo(w, "manifest")
            /\ UNCHANGED <<target, staged, backup, manifest, journal, want, mine, todo>>
       ELSE Refuse(w)
    /\ UNCHANGED alone

WriteManifest(w) ==
    /\ pc[w] = "manifest"
    /\ IF Foreign(mine[w]) THEN Refuse(w)
       ELSE /\ manifest' = mine[w].desired /\ GoTo(w, "verify")
            /\ UNCHANGED <<target, staged, backup, index, journal, want, mine, todo>>
    /\ UNCHANGED alone

Verify(w) ==
    /\ pc[w] = "verify"
    /\ IF AllCopied(mine[w]) THEN /\ GoTo(w, "clean")
                                  /\ todo' = [todo EXCEPT ![w] = Changes(mine[w])]
                                  /\ UNCHANGED <<files, want, mine>>
                             ELSE Refuse(w)
    /\ UNCHANGED alone

\* Mutant: files are removed by their names.
CleansUnread(w) ==
    /\ pc[w] = "clean" /\ todo[w] # {}
    /\ LET j == mine[w]  p == NextFile(w) IN
       /\ staged' = [staged EXCEPT ![j.tx][p] = None]
       /\ backup' = [backup EXCEPT ![j.tx][p] = None]
       /\ target' = IF target[p].tx = j.tx THEN [target EXCEPT ![p].tx = 0] ELSE target
       /\ Done(w, p) /\ UNCHANGED <<pc, meta, want, mine>>
    /\ UNCHANGED alone

\* The staged file and the backup go, each if it has the content it should.
Clean(w) ==
    /\ pc[w] = "clean" /\ todo[w] # {}
    /\ LET j == mine[w]  p == NextFile(w) IN
       IF staged[j.tx][p] # None
       THEN IF staged[j.tx][p] # After(j)[p] THEN Refuse(w)
            ELSE /\ staged' = [staged EXCEPT ![j.tx][p] = None]
                 /\ target' = IF target[p].tx = j.tx THEN [target EXCEPT ![p].tx = 0] ELSE target
                 /\ UNCHANGED <<pc, backup, meta, want, mine, todo>>
       ELSE IF Conflict(backup[j.tx][p], Before(j)[p]) THEN Refuse(w)
       ELSE /\ backup' = [backup EXCEPT ![j.tx][p] = None]
            /\ Done(w, p) /\ UNCHANGED <<pc, target, staged, meta, want, mine>>
    /\ UNCHANGED alone

\* The journal goes last, and the snapshot asked for follows a recovery.
Finish(w) ==
    /\ pc[w] = "clean" /\ todo[w] = {}
    /\ IF journal = mine[w]
       THEN /\ journal' = None /\ GoTo(w, IF want[w] = None THEN "release" ELSE "prepare")
            /\ mine' = [mine EXCEPT ![w] = None]
            /\ UNCHANGED <<target, staged, backup, index, manifest, want, todo>>
       ELSE Refuse(w)
    /\ UNCHANGED alone

-----------------------------------------------------------------------------
(* What may happen meanwhile *)

Under == {"recover", "prepare", "journal", "apply", "file", "move", "place", "manifest", "verify", "clean"}
\* A step throws: an I/O error, or a refusal; the lock is released.
Fail(w) ==
    /\ \/ pc[w] \in Under /\ faults < MaxFaults /\ faults' = faults + 1
       \/ pc[w] = "refused" /\ UNCHANGED faults
    /\ GoTo(w, "release")
    /\ UNCHANGED <<files, locals, lock, life, txs, history>>

\* The process dies, and another one may take its place.
Crash(w) ==
    /\ pc[w] # "out" /\ faults < MaxFaults /\ faults' = faults + 1
    /\ life' = [life EXCEPT ![w] = @ + 1]
    /\ GoTo(w, "out") /\ Forgotten(w)
    /\ UNCHANGED <<files, lock, txs, history>>

\* The user writes a copy in place, puts a file of theirs there, or removes it.
User(p) ==
    /\ faults < MaxFaults /\ faults' = faults + 1 /\ edited' = TRUE
    /\ \/ /\ target[p] # Absent
          /\ target' = [target EXCEPT ![p].text = Own]
          /\ staged' = IF target[p].tx = 0 THEN staged ELSE [staged EXCEPT ![target[p].tx][p] = Own]
          /\ kept' = kept \cup {p}
       \/ target' = [target EXCEPT ![p] = [text |-> Own, tx |-> 0]] /\ kept' = kept \cup {p} /\ UNCHANGED staged
       \/ target[p] # Absent /\ target' = [target EXCEPT ![p] = Absent] /\ kept' = kept \ {p} /\ UNCHANGED staged
    /\ UNCHANGED <<backup, meta, lock, life, pc, locals, txs, usurped>>

Step(w) ==
    \/ \E s \in Snapshots : Begin(w, s)
    \/ Link(w) \/ Probe(w) \/ Unlink(w) \/ Release(w) \/ Released(w)
    \/ Recover(w) \/ Prepare(w) \/ WriteJournal(w) \/ ApplyOwn(w)
    \/ Look(w) \/ Move(w) \/ Place(w) \/ WriteIndex(w) \/ WriteManifest(w)
    \/ Verify(w) \/ Clean(w) \/ Finish(w) \/ Fail(w) \/ Crash(w)

\* Once a live writer has lost its lock two may be at work, of whom nothing is
\* claimed here: the model ends there.
Next == ~ usurped /\ ((\E w \in Writers : Step(w)) \/ (\E p \in Paths : User(p)))

Spec == Init /\ [][Next]_vars

-----------------------------------------------------------------------------
(* Properties *)

Texts == Contents \cup {Own, None}
Journals == [tx : Tx, previous : Snapshots \cup {None}, manifest : Snapshots \cup {None}, desired : Snapshots]
TypeOK ==
    /\ target \in [Paths -> [text : Texts, tx : 0 .. MaxTx]]
    /\ {staged, backup} \subseteq [Tx -> [Paths -> Texts]]
    /\ {index, manifest} \subseteq Snapshots \cup {None}
    /\ journal \in Journals \cup {None}
    /\ lock \in [owner : Writers, life : 0 .. MaxFaults] \cup {None}
    /\ pc \in [Writers -> Under \cup {"out", "link", "probe", "unlink", "refused", "release", "releasing"}]
    /\ mine \in [Writers -> Journals \cup {None}] /\ want \in [Writers -> Snapshots \cup {None}]
    /\ todo \in [Writers -> SUBSET Paths]

\* Without a journal the copies are exactly those of the index, and the
\* manifest names the same snapshot: what a reader of the repository finds is
\* one snapshot, whatever was interrupted before.
WholeAtRest ==
    ~ edited /\ journal = None =>
        /\ \A p \in Paths : target[p].text = FilesOf(index)[p]
        /\ index # None => manifest = index

\* With a journal every file it needs is still there: each new content at its
\* target or staged, each old one at its target or backed up, until the new
\* snapshot is complete.
RollsForward ==
    ~ edited /\ journal # None =>
        \A p \in Changes(journal) :
            /\ After(journal)[p] # None => After(journal)[p] \in {target[p].text, staged[journal.tx][p]}
            /\ Committed(journal) \/ Before(journal)[p] = None
                 \/ Before(journal)[p] \in {target[p].text, backup[journal.tx][p]}

\* Nobody finds files that the journal does not explain, and so no recovery is
\* refused, unless the user changed a copy.
NeverStuck == ~ edited => \A w \in Writers : pc[w] # "refused"

\* What the user wrote into a copy, or put in its place, at whatever moment, is
\* still there or in a backup.
UserTextKept ==
    \A p \in kept : target[p].text = Own \/ \E t \in Tx : backup[t][p] = Own

\* One writer at a time is under the lock.
OneWriter ==
    \A v, w \in Writers : pc[v] \in Under /\ pc[w] \in Under => v = w

CopiesSafe == TypeOK /\ WholeAtRest /\ RollsForward /\ NeverStuck /\ UserTextKept /\ OneWriter

=============================================================================
