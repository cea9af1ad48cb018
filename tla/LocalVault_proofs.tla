------------------------- MODULE LocalVault_proofs --------------------------
(***************************************************************************)
(* Proofs about the vault, for any set of processes and snapshots and any  *)
(* bounds on captures, expiries and faults: its rows stay consistent, and  *)
(* no process takes away the file of a row, unless a clean-up has unlinked *)
(* an address outside the write lock.                                      *)
(***************************************************************************)
EXTENDS LocalVault, WellFoundedInduction, NaturalsInduction, TLAPS

\* A blob has the address of its contents: no capsule is a snapshot.
CapsulesAreNoSnapshots ==
    \A rev, raw, avail, prev :
        [rev |-> rev, raw |-> raw, avail |-> avail, prev |-> prev] \notin Raws \cup {None}

\* None stands for no transaction.
NoneIsNoTransaction == \A owner, rows : [owner |-> owner, db |-> rows] # None

(***************************************************************************)
(* The parts of the invariant.                                             *)
(***************************************************************************)
ExpirySteps == {"move", "revise", "revised"}
StoreSteps == {"raw", "publish raw", "capsule", "publish capsule", "record"}
TxnSteps == ExpirySteps \cup StoreSteps

Capsule(k) == k \notin Raws \cup {None} /\ k.rev \in Nat /\ k.raw \in Raws

\* Capsules of different revisions, finitely many.
Chain(caps) ==
    /\ \A k \in caps : Capsule(k)
    /\ \A k, l \in caps : k.rev = l.rev => k = l
    /\ \E B \in Nat : \A k \in caps : k.rev <= B

IsRows(d) == d = [rows |-> d.rows, old |-> d.old, caps |-> d.caps, queue |-> d.queue]

RowsOK(d) ==
    /\ IsRows(d)
    /\ d.old \subseteq d.rows \cap Raws
    /\ d.caps \subseteq d.rows
    /\ d.queue \subseteq d.caps
    /\ Chain(d.caps)

\* The committed rows.
Index == RowsOK(db) /\ (reverted \/ Honest(db))

Head == hq # None => hq.rev \in Nat

\* What a process keeps in memory at each step.
IsMemory(s) ==
    s = [step |-> s.step, list |-> s.list, item |-> s.item, kept |-> s.kept, made |-> s.made, moved |-> s.moved,
         raw |-> s.raw, sync |-> s.sync, head |-> s.head, capsule |-> s.capsule]

Local(s) ==
    /\ IsMemory(s)
    /\ s.raw \in Raws \cup {None}
    /\ s.head # None => s.head.rev \in Nat
    /\ s.step = "restoring" => s.item \in s.list
    /\ s.step \in {"begin expiry"} \cup ExpirySteps => s.list \subseteq Raws
    /\ s.step \in ExpirySteps => \A e \in s.moved : e[1] \in Raws
    /\ s.step \in {"revise", "revised"} => s.item \in Raws
    /\ s.step \in {"drop", "unlink"} => s.list \cap Raws = {}
    /\ s.step \in {"drain", "upload", "mark"} => \A k \in s.list : k.rev \in Nat
    /\ s.step \in {"head", "discard", "drop", "unlink", "latest", "begin"} \cup StoreSteps => s.raw \in Raws
    /\ s.step \in {"begin"} \cup StoreSteps => Capsule(s.capsule) /\ s.capsule.raw = s.raw
    /\ s.step \in {"enqueue", "upload", "mark"} => s.capsule.rev \in Nat

Memories == DOMAIN proc = Procs /\ \A p \in Procs : Local(proc[p])

\* Who is at a step of a transaction has it open.
Owners ==
    /\ txn # None => txn.owner \in Procs
    /\ \A p \in Procs : proc[p].step \in TxnSteps <=> Mine(p)

\* What the rows of an expiry and of a capture are on their way to the commit.
OfExpiry(s) ==
    /\ \A c \in txn.db.rows \cap Raws : c \in db.rows
    /\ \A e \in s.moved : e[1] \in txn.db.rows => s.step # "move" /\ e[1] = s.item
OfCapture(s) ==
    /\ s.step \in {"capsule", "publish capsule", "record"} => s.raw \in txn.db.rows
    /\ s.step = "record" => s.capsule \in txn.db.rows

Transaction ==
    txn # None =>
        /\ txn = [owner |-> txn.owner, db |-> txn.db]
        /\ RowsOK(txn.db)
        /\ reverted \/ Honest(txn.db)
        /\ proc[txn.owner].step \in ExpirySteps => OfExpiry(proc[txn.owner])
        /\ OfCapture(proc[txn.owner])

\* A file that was moved aside and that a process is about to remove.
Doomed(e) == \E p \in Procs :
    \/ At(p, "restoring") /\ e = proc[p].item /\ ~ proc[p].kept
    \/ At(p, "purge") /\ e \in proc[p].list

Kept(c) == c \in final \/ \E n \in Suffixes : <<c, n>> \in quarantine /\ ~ Doomed(<<c, n>>)
NewRows == IF Free THEN {} ELSE txn.db.rows \ db.rows

\* A row has a file that nobody is about to remove, and one that is not yet committed
\* has it at its address.
Files ==
    raced \/ ((\A c \in Indexed : Kept(c)) /\ NewRows \subseteq final)

Names ==
    /\ \A t \in temps : t[2] \in Procs \cup {Dead}
    /\ \A e \in quarantine : e[2] \in Suffixes

VaultInv == Index /\ Head /\ Memories /\ Owners /\ Transaction /\ Files /\ Names

(***************************************************************************)
(* The newest capsule.                                                     *)
(***************************************************************************)
LEMMA LeastNat ==
  ASSUME NEW S, S \subseteq Nat, S # {}
  PROVE  \E x \in S : \A y \in S : x <= y
<1>. DEFINE R == OpToRel(<, Nat)
<1>1. \E x \in S : \A y \in S : ~ (<<y, x>> \in R)
  BY NatLessThanWellFounded, WFMin
<1>2. \A x, y \in Nat : y < x => <<y, x>> \in R
  BY DEF OpToRel
<1>3. \A x, y \in Nat : ~ (y < x) => x <= y
  OBVIOUS
<1>. HIDE DEF R
<1>. QED BY <1>1, <1>2, <1>3

LEMMA GreatestNat ==
  ASSUME NEW S, S \subseteq Nat, S # {}, NEW B \in Nat, \A x \in S : x <= B
  PROVE  \E x \in S : \A y \in S : y <= x
<1>. DEFINE T == {B - x : x \in S}
<1>1. T \subseteq Nat
  OBVIOUS
<1>2. T # {}
  OBVIOUS
<1>3. PICK m \in T : \A n \in T : m <= n
  <2>. HIDE DEF T
  <2>. QED BY <1>1, <1>2, LeastNat
<1>4. PICK x \in S : m = B - x
  OBVIOUS
<1>5. \A y \in S : B - y \in T
  OBVIOUS
<1>6. \A y \in S : B - x <= B - y
  BY <1>3, <1>4, <1>5
<1>. QED BY <1>6

\* Newest is the capsule of the highest revision.
LEMMA NewestIsNewest ==
  ASSUME NEW caps, Chain(caps), caps # {}
  PROVE  /\ Newest(caps) \in caps
         /\ Newest(caps) # None
         /\ \A l \in caps : l.rev <= Newest(caps).rev
<1>. DEFINE Revs == {k.rev : k \in caps}
<1>1. PICK B \in Nat : \A k \in caps : k.rev <= B
  BY DEF Chain
<1>2. Revs \subseteq Nat /\ Revs # {} /\ \A x \in Revs : x <= B
  BY <1>1 DEF Chain, Capsule
<1>3. PICK m \in Revs : \A n \in Revs : n <= m
  <2>. HIDE DEF Revs
  <2>. QED BY <1>2, GreatestNat
<1>4. \E k \in caps : \A l \in caps : l.rev <= k.rev
  BY <1>3
<1>5. None \notin caps
  BY DEF Chain, Capsule
<1>. QED BY <1>4, <1>5 DEF Newest

\* No other capsule is as new as the newest.
LEMMA NewestIsUnique ==
  ASSUME NEW caps, Chain(caps), NEW k \in caps, \A l \in caps : l.rev <= k.rev
  PROVE  Newest(caps) = k
<1>1. Newest(caps) \in caps /\ k.rev <= Newest(caps).rev
  BY NewestIsNewest
<1>. QED BY <1>1 DEF Chain, Capsule

LEMMA NewestOfNone == Newest({}) = None
  BY DEF Newest

(***************************************************************************)
(* What each change makes of consistent rows.                              *)
(***************************************************************************)
\* The newest capsule says the truth about its snapshot.
LEMMA HonestMeans ==
  ASSUME NEW d, RowsOK(d)
  PROVE  Honest(d) <=> \A k \in d.caps : (\A l \in d.caps : l.rev <= k.rev) /\ k.avail => k.raw \in d.rows
<1>1. CASE d.caps = {}
  BY <1>1, NewestOfNone DEF Honest
<1>2. CASE d.caps # {}
  <2>1. Chain(d.caps)
    BY DEF RowsOK
  <2>. DEFINE n == Newest(d.caps)
  <2>2. n \in d.caps /\ n # None /\ \A l \in d.caps : l.rev <= n.rev
    BY <1>2, <2>1, NewestIsNewest
  <2>3. \A k \in d.caps : (\A l \in d.caps : l.rev <= k.rev) => k = n
    BY <2>1, NewestIsUnique
  <2>. HIDE DEF n
  <2>4. Honest(d) <=> (n # None /\ n.avail => n.raw \in d.rows)
    BY DEF Honest, n
  <2>. QED BY <2>2, <2>3, <2>4
<1>. QED BY <1>1, <1>2

\* Fewer capsules are still a chain, ...
LEMMA FewerCapsules ==
  ASSUME NEW caps, Chain(caps), NEW fewer \in SUBSET caps
  PROVE  Chain(fewer)
  BY DEF Chain

\* ... and so is one more, of a revision of its own.
LEMMA OneMoreCapsule ==
  ASSUME NEW caps, Chain(caps), NEW k, Capsule(k), \A l \in caps : l.rev = k.rev => l = k
  PROVE  Chain(caps \cup {k})
<1>1. PICK B \in Nat : \A l \in caps : l.rev <= B
  BY DEF Chain
<1>2. B + k.rev \in Nat /\ \A l \in caps \cup {k} : l.rev <= B + k.rev
  BY <1>1 DEF Chain, Capsule
<1>3. \A l \in caps \cup {k} : Capsule(l)
  BY DEF Chain
<1>4. \A l, j \in caps \cup {k} : l.rev = j.rev => l = j
  BY DEF Chain
<1>. QED BY <1>2, <1>3, <1>4 DEF Chain

\* The row of an expired snapshot that the newest capsule does not claim goes.
LEMMA RowsWithout ==
  ASSUME NEW d, RowsOK(d), NEW c \in Raws, NEW e, e = Without(d, c)
  PROVE  /\ RowsOK(e) /\ e.rows = d.rows \ {c} /\ e.caps = d.caps
         /\ Honest(d) /\ (Newest(d.caps) = None \/ Newest(d.caps).raw # c \/ ~ Newest(d.caps).avail) => Honest(e)
<1>1. IsRows(e) /\ e.rows = d.rows \ {c} /\ e.old = d.old \ {c} /\ e.caps = d.caps /\ e.queue = d.queue
  BY DEF Without, RowsOK, IsRows
<1>2. c \notin d.caps
  BY DEF RowsOK, Chain, Capsule
<1>3. RowsOK(e)
  BY <1>1, <1>2 DEF RowsOK
<1>4. Honest(d) /\ (Newest(d.caps) = None \/ Newest(d.caps).raw # c \/ ~ Newest(d.caps).avail) => Honest(e)
  BY <1>1 DEF Honest
<1>. QED BY <1>1, <1>3, <1>4

\* A blob is added, ...
LEMMA RowsWith ==
  ASSUME NEW d, RowsOK(d), NEW c, NEW e, IsRows(e), e.rows = d.rows \cup {c}, e.old = d.old,
         e.caps = d.caps, e.queue = d.queue
  PROVE  RowsOK(e) /\ (Honest(d) => Honest(e))
<1>1. RowsOK(e)
  BY DEF RowsOK
<1>. QED BY <1>1 DEF Honest

\* ... and one that is neither a snapshot nor a capsule's goes.
LEMMA RowsDropped ==
  ASSUME NEW d, RowsOK(d), NEW k, k \notin Raws, k \notin d.caps, NEW e, e = [d EXCEPT !.rows = @ \ {k}]
  PROVE  /\ RowsOK(e) /\ e.rows = d.rows \ {k} /\ e.caps = d.caps
         /\ Honest(d) => Honest(e)
<1>1. RowsOK(e) /\ e.rows = d.rows \ {k} /\ e.caps = d.caps
  BY DEF RowsOK, IsRows
<1>2. Newest(d.caps) # None => Newest(d.caps).raw \in Raws
  BY NewestIsNewest, NewestOfNone DEF RowsOK, Chain, Capsule
<1>. QED BY <1>1, <1>2 DEF Honest

\* Capsules of the highest revisions are discarded, with what they wait for.
LEMMA RowsDiscarded ==
  ASSUME NEW d, RowsOK(d), NEW X, NEW e, IsRows(e), e.rows = d.rows, e.old = d.old,
         e.caps = d.caps \ X, e.queue = d.queue \ X
  PROVE  RowsOK(e)
<1>1. Chain(e.caps)
  BY FewerCapsules DEF RowsOK
<1>. QED BY <1>1 DEF RowsOK

\* What waits to be sent is some of the capsules.
LEMMA RowsQueued ==
  ASSUME NEW d, RowsOK(d), NEW Q \in SUBSET d.caps, NEW e, e = [d EXCEPT !.queue = Q]
  PROVE  /\ RowsOK(e) /\ e.rows = d.rows /\ e.caps = d.caps
         /\ Honest(d) => Honest(e)
<1>1. RowsOK(e) /\ e.rows = d.rows /\ e.caps = d.caps
  BY DEF RowsOK, IsRows
<1>. QED BY <1>1 DEF Honest

\* A snapshot reaches its age.
LEMMA RowsAged ==
  ASSUME NEW d, RowsOK(d), NEW c \in d.rows \cap Raws, NEW e, e = [d EXCEPT !.old = @ \cup {c}]
  PROVE  /\ RowsOK(e) /\ e.rows = d.rows /\ e.caps = d.caps
         /\ Honest(d) => Honest(e)
<1>1. RowsOK(e) /\ e.rows = d.rows /\ e.caps = d.caps
  BY DEF RowsOK, IsRows
<1>. QED BY <1>1 DEF Honest

\* A capture records its capsule.
LEMMA RowsRecorded ==
  ASSUME NEW d, RowsOK(d), NEW k \in d.rows, Capsule(k), k.raw \in d.rows,
         \A l \in d.caps : l.rev = k.rev => l = k,
         NEW e, e = [d EXCEPT !.caps = @ \cup {k}]
  PROVE  /\ RowsOK(e) /\ e.rows = d.rows /\ e.caps = d.caps \cup {k}
         /\ Honest(d) => Honest(e)
<1>1. IsRows(e) /\ e.rows = d.rows /\ e.old = d.old /\ e.caps = d.caps \cup {k} /\ e.queue = d.queue
  BY DEF RowsOK, IsRows
<1>2. Chain(e.caps)
  BY <1>1, OneMoreCapsule DEF RowsOK
<1>3. RowsOK(e)
  BY <1>1, <1>2 DEF RowsOK
<1>4. Honest(d) => Honest(e)
  BY <1>1, <1>3, HonestMeans
<1>. QED BY <1>1, <1>3, <1>4

\* An expiry revises the newest capsule: the new one no longer claims its snapshot.
LEMMA RowsRevised ==
  ASSUME NEW d, RowsOK(d), NEW k, Capsule(k), k.avail = FALSE, \A l \in d.caps : l.rev < k.rev,
         NEW e, IsRows(e), e.old = d.old,
         e.rows = d.rows \cup {k}, e.caps = d.caps \cup {k}, e.queue = d.queue \cup {k}
  PROVE  RowsOK(e) /\ Newest(e.caps) = k /\ Honest(e)
<1>1. \A l \in d.caps : l.rev # k.rev /\ l.rev <= k.rev
  BY DEF RowsOK, Chain, Capsule
<1>2. Chain(d.caps) /\ \A l \in d.caps : l.rev = k.rev => l = k
  BY <1>1 DEF RowsOK
<1>3. Chain(e.caps)
  BY <1>2, OneMoreCapsule
<1>4. RowsOK(e)
  BY <1>3 DEF RowsOK
<1>5. Newest(e.caps) = k
  <2>1. k \in e.caps /\ \A l \in e.caps : l.rev <= k.rev
    BY <1>1 DEF Capsule
  <2>. QED BY <1>3, <2>1, NewestIsUnique
<1>6. Honest(e)
  BY <1>5 DEF Honest
<1>. QED BY <1>4, <1>5, <1>6

(***************************************************************************)
(* What a process keeps in memory.                                         *)
(***************************************************************************)
\* A process changes only its own.
LEMMA Becomes ==
  ASSUME Memories, NEW p \in Procs, NEW s, Become(p, s)
  PROVE  /\ DOMAIN proc' = Procs
         /\ proc'[p] = s
         /\ \A q \in Procs : q # p => proc'[q] = proc[q]
  BY DEF Memories, Become

LEMMA AsleepLocal == Local(Asleep)
  BY DEF Local, IsMemory, Asleep, ExpirySteps, StoreSteps

(***************************************************************************)
(* Kinds of steps.                                                         *)
(***************************************************************************)
Core == Index /\ Memories /\ Owners /\ Transaction /\ Files

\* Process p takes a step.
Moves(p) ==
    /\ DOMAIN proc' = Procs
    /\ \A q \in Procs : q # p => proc'[q] = proc[q]
    /\ Local(proc'[p])

\* It is not about to remove a file that it was not about to remove before.
DoomsNoMore(p) ==
    \/ proc'[p] = proc[p]
    \/ /\ proc'[p].step # "restoring"
       /\ proc'[p].step = "purge" => proc[p].step = "purge" /\ proc'[p].list \subseteq proc[p].list

LEMMA DoomedBefore ==
  ASSUME NEW p \in Procs, Moves(p), DoomsNoMore(p), NEW e, Doomed(e)'
  PROVE  Doomed(e)
  BY DEF Moves, DoomsNoMore, Doomed, At

\* No file is lost in a step that removes none and adds no row.
LEMMA FilesStay ==
  ASSUME Files, NEW p \in Procs, Moves(p), DoomsNoMore(p), raced' = raced,
         Indexed' \subseteq Indexed, NewRows' \subseteq NewRows,
         final \subseteq final', quarantine \subseteq quarantine'
  PROVE  Files'
<1>1. ASSUME NEW c, Kept(c) PROVE Kept(c)'
  BY <1>1, DoomedBefore DEF Kept
<1>. QED BY <1>1 DEF Files

\* ... nor in one that takes aside only what has returned or is to be removed, ...
LEMMA FilesReturn ==
  ASSUME Files, NEW p \in Procs, Moves(p), DoomsNoMore(p), UNCHANGED <<db, txn, raced>>, final \subseteq final',
         \A e \in quarantine \ quarantine' : e[1] \in final' \/ Doomed(e)
  PROVE  Files'
<1>1. ASSUME NEW c, Kept(c) PROVE Kept(c)'
  <2>1. CASE c \in final
    BY <2>1 DEF Kept
  <2>2. CASE c \notin final
    <3>1. PICK n \in Suffixes : <<c, n>> \in quarantine /\ ~ Doomed(<<c, n>>)
      BY <1>1, <2>2 DEF Kept
    <3>2. ~ Doomed(<<c, n>>)'
      BY <3>1, DoomedBefore
    <3>. QED BY <3>1, <3>2 DEF Kept
  <2>. QED BY <2>1, <2>2
<1>. QED BY <1>1 DEF Files, Indexed, NewRows, Free

\* ... and one that unlinks an address is told when a row has lost its file.
LEMMA FilesUnlink ==
  ASSUME Files, NEW p \in Procs, Moves(p), DoomsNoMore(p), UNCHANGED <<db, txn, quarantine>>,
         NEW c, final' = final \ {c}, raced' = (raced \/ (c \in final /\ c \in Indexed))
  PROVE  Files'
<1>1. Indexed' = Indexed /\ NewRows' = NewRows /\ NewRows \subseteq Indexed
  BY DEF Indexed, NewRows, Free
<1>2. SUFFICES ASSUME ~ raced' PROVE (\A d \in Indexed : Kept(d)') /\ NewRows \subseteq final'
  BY <1>1 DEF Files
<1>3. ~ raced /\ (c \notin final \/ c \notin Indexed)
  BY <1>2
<1>4. ASSUME NEW d \in Indexed, Kept(d) PROVE Kept(d)'
  BY <1>3, <1>4, DoomedBefore DEF Kept
<1>. QED BY <1>1, <1>3, <1>4 DEF Files

\* A step outside transactions that leaves the rows.
LEMMA QuietStep ==
  ASSUME Core, NEW p \in Procs, Moves(p), proc[p].step \notin TxnSteps, proc'[p].step \notin TxnSteps,
         UNCHANGED <<db, txn>>, reverted => reverted'
  PROVE  Index' /\ Memories' /\ Owners' /\ Transaction'
<1>1. Index'
  BY DEF Core, Index, Honest
<1>2. Memories'
  BY DEF Core, Memories, Moves
<1>3. Owners'
  BY DEF Core, Owners, Mine, Moves
<1>4. Transaction'
  <2>1. txn # None => txn.owner \in Procs /\ txn.owner # p
    BY DEF Core, Owners, Mine
  <2>2. txn # None => proc'[txn.owner] = proc[txn.owner]
    BY <2>1 DEF Moves
  <2>. QED BY <2>2 DEF Core, Transaction, OfExpiry, OfCapture, Honest
<1>. QED BY <1>1, <1>2, <1>3, <1>4

\* ... and the files as well.
LEMMA QuietCore ==
  ASSUME Core, NEW p \in Procs, Moves(p), proc[p].step \notin TxnSteps, proc'[p].step \notin TxnSteps,
         DoomsNoMore(p), UNCHANGED <<db, txn, raced>>, reverted => reverted',
         final \subseteq final', quarantine \subseteq quarantine'
  PROVE  Core'
<1>1. Indexed' = Indexed /\ NewRows' = NewRows
  BY DEF Indexed, NewRows, Free
<1>2. Files'
  BY <1>1, FilesStay DEF Core
<1>. QED BY <1>2, QuietStep DEF Core

\* A step that changes the rows in a transaction of its own.
LEMMA EditCore ==
  ASSUME Core, NEW p \in Procs, Moves(p), proc'[p].step \notin TxnSteps, DoomsNoMore(p),
         Free, UNCHANGED <<txn, raced, final, quarantine>>,
         RowsOK(db'), reverted' \/ Honest(db'), db'.rows \subseteq db.rows
  PROVE  Core'
<1>1. Index'
  BY DEF Index, Honest
<1>2. Memories'
  BY DEF Core, Memories, Moves
<1>3. Owners'
  BY DEF Core, Owners, Mine, Moves, Free
<1>4. Transaction'
  BY DEF Transaction, Free
<1>5. Indexed' \subseteq Indexed /\ NewRows' \subseteq NewRows
  BY DEF Indexed, NewRows, Free
<1>6. Files'
  BY <1>5, FilesStay DEF Core
<1>. QED BY <1>1, <1>2, <1>3, <1>4, <1>6 DEF Core

\* A step in the transaction that p has open.
LEMMA InsideStep ==
  ASSUME Core, NEW p \in Procs, Moves(p), Mine(p), proc'[p].step \in TxnSteps,
         txn' # None, txn'.owner = p, UNCHANGED <<db, reverted>>
  PROVE  Index' /\ Memories' /\ Owners'
<1>1. Index'
  BY DEF Core, Index, Honest
<1>2. Memories'
  BY DEF Core, Memories, Moves
<1>3. Owners'
  BY DEF Core, Owners, Mine, Moves
<1>. QED BY <1>1, <1>2, <1>3

\* The end of the transaction that p has open.
LEMMA LastStep ==
  ASSUME Core, NEW p \in Procs, Moves(p), Mine(p), proc'[p].step \notin TxnSteps, txn' = None,
         RowsOK(db'), reverted' \/ Honest(db')
  PROVE  Index' /\ Memories' /\ Owners' /\ Transaction'
<1>1. Index'
  BY DEF Index, Honest
<1>2. Memories'
  BY DEF Core, Memories, Moves
<1>3. Owners'
  BY DEF Core, Owners, Mine, Moves
<1>4. Transaction'
  BY DEF Transaction
<1>. QED BY <1>1, <1>2, <1>3, <1>4

\* It fails, or the process dies.
LEMMA AbortCore ==
  ASSUME Core, NEW p \in Procs, Moves(p), Mine(p), proc'[p].step \notin TxnSteps, DoomsNoMore(p), txn' = None,
         UNCHANGED <<db, raced, reverted>>, final \subseteq final', quarantine \subseteq quarantine'
  PROVE  Core'
<1>1. Indexed' \subseteq Indexed /\ NewRows' \subseteq NewRows
  BY DEF Indexed, NewRows, Free
<1>2. Files'
  BY <1>1, FilesStay DEF Core
<1>3. RowsOK(db') /\ (reverted' \/ Honest(db'))
  BY DEF Core, Index, Honest
<1>. QED BY <1>2, <1>3, LastStep DEF Core

\* A transaction begins.
LEMMA BeginCore ==
  ASSUME Core, NEW p \in Procs, Moves(p), DoomsNoMore(p), Free, txn' = [owner |-> p, db |-> db], txn' # None,
         proc'[p].step = "raw" \/ (proc'[p].step = "move" /\ proc'[p].moved = {}),
         UNCHANGED <<db, final, quarantine, raced, reverted>>
  PROVE  Core'
<1>1. Index' /\ Memories'
  BY DEF Core, Index, Honest, Memories, Moves
<1>2. Owners'
  BY DEF Core, Owners, Mine, Moves, Free, TxnSteps, ExpirySteps, StoreSteps
<1>3. txn'.owner = p /\ txn'.db = db
  OBVIOUS
<1>4. Transaction'
  BY <1>1, <1>3 DEF Core, Index, Transaction, OfExpiry, OfCapture, ExpirySteps, StoreSteps, Honest
<1>5. Indexed' = Indexed /\ NewRows' = NewRows
  BY <1>3 DEF Indexed, NewRows, Free
<1>6. Files'
  BY <1>5, FilesStay DEF Core
<1>. QED BY <1>1, <1>2, <1>4, <1>6 DEF Core

(***************************************************************************)
(* The opening of the vault.                                               *)
(***************************************************************************)
LEMMA MemoryFacts ==
  ASSUME Memories, NEW p \in Procs
  PROVE  Local(proc[p]) /\ IsMemory(proc[p]) /\ DOMAIN proc = Procs
  BY DEF Memories, Local

\* A process that throws, or has closed the vault, keeps nothing.
LEMMA ThrowMoves ==
  ASSUME Memories, NEW p \in Procs, Throw(p)
  PROVE  Moves(p) /\ proc'[p].step = "idle" /\ proc'[p].step \notin TxnSteps /\ DoomsNoMore(p)
<1>1. DOMAIN proc' = Procs /\ proc'[p] = Asleep /\ \A q \in Procs : q # p => proc'[q] = proc[q]
  BY DEF Throw, Become, Memories
<1>2. Asleep.step = "idle"
  BY DEF Asleep
<1>. QED BY <1>1, <1>2, AsleepLocal DEF Moves, DoomsNoMore, TxnSteps, ExpirySteps, StoreSteps

LEMMA ThrowCore ==
  ASSUME Core, NEW p \in Procs, Throw(p), proc[p].step \notin TxnSteps,
         UNCHANGED <<db, txn, raced, reverted>>, final \subseteq final', quarantine \subseteq quarantine'
  PROVE  Core'
  BY ThrowMoves, QuietCore DEF Core

\* Every step of an opening keeps the rows and their files.
LEMMA OpeningCore ==
  ASSUME Core, NEW p \in Procs,
         Open(p) \/ RestoreLook(p) \/ RestoreMove(p) \/ Restored(p) \/ Sweep(p) \/ Swept(p)
  PROVE  Core'
<1>. DEFINE s == proc[p]
            t == proc'[p]
<1>0. Local(s) /\ IsMemory(s) /\ DOMAIN proc = Procs
  BY MemoryFacts DEF Core
<1>. USE <1>0 DEF Goto, List, Done, Become, At, Calm, files
<1>1. CASE Open(p)
  <2>1. IsMemory(t) /\ t.step = "restore" /\ t.raw = s.raw /\ t.head = s.head
    BY <1>1 DEF Open, IsMemory
  <2>2. Moves(p)
    BY <1>1, <2>1 DEF Open, Moves, Local, ExpirySteps, StoreSteps
  <2>. QED BY <1>1, <2>1, <2>2, QuietCore DEF Open, DoomsNoMore, TxnSteps, ExpirySteps, StoreSteps
<1>2. CASE RestoreLook(p)
  <2>1. /\ IsMemory(t) /\ t.step = "restoring" /\ t.raw = s.raw /\ t.head = s.head
        /\ t.item \in t.list /\ (t.item[1] \in db.rows => t.kept)
    <3>1. PICK e \in s.list : t = [s EXCEPT !.step = "restoring", !.item = e, !.kept = e[1] \in db.rows]
      BY <1>2 DEF RestoreLook
    <3>2. IsMemory(t) /\ t.step = "restoring" /\ t.raw = s.raw /\ t.head = s.head /\ t.item = e /\ t.list = s.list
      BY <3>1 DEF IsMemory
    <3>3. t.kept = (e[1] \in db.rows)
      BY <3>1 DEF IsMemory
    <3>. QED BY <3>2, <3>3
  <2>2. Moves(p)
    BY <1>2, <2>1 DEF RestoreLook, Moves, Local, ExpirySteps, StoreSteps
  <2>3. Index' /\ Memories' /\ Owners' /\ Transaction'
    BY <1>2, <2>1, <2>2, QuietStep DEF RestoreLook, TxnSteps, ExpirySteps, StoreSteps
  <2>4. ASSUME NEW e, Doomed(e)' PROVE Doomed(e) \/ e[1] \notin db.rows
    BY <2>1, <2>2, <2>4 DEF Doomed, Moves
  <2>5. ASSUME NEW c \in Indexed, Kept(c), NewRows \subseteq final PROVE Kept(c)'
    <3>1. CASE c \in final
      BY <1>2, <3>1 DEF RestoreLook, Kept
    <3>2. CASE c \notin final
      <4>1. c \in db.rows
        BY <2>5, <3>2 DEF Indexed, NewRows, Free
      <4>2. PICK n \in Suffixes : <<c, n>> \in quarantine /\ ~ Doomed(<<c, n>>)
        BY <2>5, <3>2 DEF Kept
      <4>3. ~ Doomed(<<c, n>>)'
        BY <2>4, <4>1, <4>2
      <4>. QED BY <1>2, <4>2, <4>3 DEF RestoreLook, Kept
    <3>. QED BY <3>1, <3>2
  <2>6. Files'
    BY <1>2, <2>5 DEF RestoreLook, Core, Files, Indexed, NewRows, Free
  <2>. QED BY <2>3, <2>6 DEF Core
<1>3. CASE RestoreMove(p)
  <2>1. s.step = "restoring" /\ s.step \notin TxnSteps
    BY <1>3 DEF RestoreMove, TxnSteps, ExpirySteps, StoreSteps
  <2>2. CASE s.kept /\ s.item \notin quarantine
    BY <1>3, <2>1, <2>2, ThrowCore DEF RestoreMove
  <2>3. CASE ~ (s.kept /\ s.item \notin quarantine)
    <3>1. IsMemory(t) /\ t.step = "restore" /\ t.raw = s.raw /\ t.head = s.head
      BY ZenonT(120), <1>3, <2>3 DEF RestoreMove, IsMemory
    <3>2. Moves(p) /\ DoomsNoMore(p) /\ t.step \notin TxnSteps
      BY <1>3, <2>3, <3>1 DEF RestoreMove, Moves, DoomsNoMore, Local, TxnSteps, ExpirySteps, StoreSteps
    <3>3. Index' /\ Memories' /\ Owners' /\ Transaction'
      BY <1>3, <2>1, <3>2, QuietStep DEF RestoreMove
    <3>4. /\ quarantine' = quarantine \ {s.item}
          /\ s.kept => final' = final \cup {s.item[1]}
          /\ ~ s.kept => final' = final /\ Doomed(s.item)
      BY <1>3, <2>1, <2>3 DEF RestoreMove, Doomed
    <3>5. \A e \in quarantine \ quarantine' : e[1] \in final' \/ Doomed(e)
      BY <3>4
    <3>6. Files'
      BY <1>3, <3>2, <3>4, <3>5, FilesReturn DEF RestoreMove, Core
    <3>. QED BY <3>3, <3>6 DEF Core
  <2>. QED BY <2>2, <2>3
<1>4. CASE Restored(p)
  <2>1. IsMemory(t) /\ t.step = "sweep" /\ t.raw = s.raw /\ t.head = s.head
    BY <1>4 DEF Restored, IsMemory
  <2>2. Moves(p)
    BY <1>4, <2>1 DEF Restored, Moves, Local, ExpirySteps, StoreSteps
  <2>. QED BY <1>4, <2>1, <2>2, QuietCore DEF Restored, DoomsNoMore, TxnSteps, ExpirySteps, StoreSteps
<1>5. CASE Sweep(p)
  <2>1. s.step = "sweep" /\ s.step \notin TxnSteps
    BY <1>5 DEF Sweep, TxnSteps, ExpirySteps, StoreSteps
  <2>2. CASE ~ Free
    BY <1>5, <2>1, <2>2, ThrowCore DEF Sweep
  <2>3. CASE Free
    <3>1. IsMemory(t) /\ t.step = "sweep" /\ t.raw = s.raw /\ t.head = s.head
      BY <1>5, <2>3 DEF Sweep, IsMemory
    <3>2. Moves(p) /\ DoomsNoMore(p) /\ t.step \notin TxnSteps
      BY <1>5, <2>3, <3>1 DEF Sweep, Moves, DoomsNoMore, Local, TxnSteps, ExpirySteps, StoreSteps
    <3>3. Index' /\ Memories' /\ Owners' /\ Transaction'
      BY <1>5, <2>1, <3>2, QuietStep DEF Sweep
    <3>4. quarantine' = quarantine /\ \A c \in db.rows : c \in final => c \in final'
      BY <1>5, <2>3 DEF Sweep, Orphan
    <3>5. ASSUME NEW c \in db.rows, Kept(c) PROVE Kept(c)'
      BY <3>2, <3>4, <3>5, DoomedBefore DEF Kept
    <3>6. Files'
      BY <1>5, <2>3, <3>5 DEF Sweep, Core, Files, Indexed, NewRows, Free
    <3>. QED BY <3>3, <3>6 DEF Core
  <2>. QED BY <2>2, <2>3
<1>6. CASE Swept(p)
  <2>1. IsMemory(t) /\ t.step = "expire" /\ t.raw = s.raw /\ t.head = s.head
    BY <1>6 DEF Swept, IsMemory
  <2>2. Moves(p)
    BY <1>6, <2>1 DEF Swept, Moves, Local, ExpirySteps, StoreSteps
  <2>. QED BY <1>6, <2>1, <2>2, QuietCore DEF Swept, DoomsNoMore, TxnSteps, ExpirySteps, StoreSteps
<1>. QED BY <1>1, <1>2, <1>3, <1>4, <1>5, <1>6

(***************************************************************************)
(* An expiry.                                                              *)
(***************************************************************************)
\* What is known of the open transaction and its owner.
LEMMA TransactionFacts ==
  ASSUME Core, NEW p \in Procs, proc[p].step \in TxnSteps
  PROVE  /\ Mine(p) /\ ~ Free /\ txn.owner = p
         /\ txn = [owner |-> p, db |-> txn.db]
         /\ RowsOK(txn.db) /\ (reverted \/ Honest(txn.db))
         /\ proc[p].step \in ExpirySteps => OfExpiry(proc[p])
         /\ OfCapture(proc[p])
<1>1. Mine(p)
  BY DEF Core, Owners
<1>. QED BY <1>1 DEF Core, Mine, Free, Transaction

\* The snapshots are selected, and the transaction begins.
LEMMA ExpiryBegins ==
  ASSUME Core, NoneIsNoTransaction, NEW p \in Procs, SelectExpired(p) \/ BeginExpiry(p)
  PROVE  Core'
<1>. DEFINE s == proc[p]
            t == proc'[p]
<1>0. Local(s) /\ IsMemory(s) /\ DOMAIN proc = Procs
  BY MemoryFacts DEF Core
<1>. USE <1>0 DEF Goto, List, Become, At, Calm, files
<1>1. CASE SelectExpired(p)
  <2>1. \/ IsMemory(t) /\ t.step = "ready" /\ t.raw = None /\ t.head = None
        \/ IsMemory(t) /\ t.step = "begin expiry" /\ t.raw = s.raw /\ t.head = s.head /\ t.list = db.old
    BY ZenonT(120), <1>1 DEF SelectExpired, IsMemory, Asleep, Expired
  <2>2. db.old \subseteq Raws
    BY DEF Core, Index, RowsOK
  <2>3. Moves(p)
    BY <1>1, <2>1, <2>2 DEF SelectExpired, Moves, Local, ExpirySteps, StoreSteps
  <2>. QED BY <1>1, <2>1, <2>3, QuietCore DEF SelectExpired, DoomsNoMore, TxnSteps, ExpirySteps, StoreSteps
<1>2. CASE BeginExpiry(p)
  <2>1. s.step = "begin expiry" /\ s.step \notin TxnSteps
    BY <1>2 DEF BeginExpiry, TxnSteps, ExpirySteps, StoreSteps
  <2>2. CASE ~ Free
    BY <1>2, <2>1, <2>2, ThrowCore DEF BeginExpiry, Busy
  <2>3. CASE Free
    <3>1. IsMemory(t) /\ t.step = "move" /\ t.raw = s.raw /\ t.head = s.head /\ t.list = s.list /\ t.moved = {}
      BY ZenonT(120), <1>2, <2>3 DEF BeginExpiry, Busy, IsMemory
    <3>2. Moves(p)
      BY <1>2, <2>1, <2>3, <3>1 DEF BeginExpiry, Busy, Moves, Local, ExpirySteps, StoreSteps
    <3>3. txn' = [owner |-> p, db |-> db] /\ txn' # None
      BY <1>2, <2>3 DEF BeginExpiry, Busy, NoneIsNoTransaction
    <3>. QED BY <1>2, <2>3, <3>1, <3>2, <3>3, BeginCore DEF BeginExpiry, Busy, DoomsNoMore
  <2>. QED BY <2>2, <2>3
<1>. QED BY <1>1, <1>2

\* A file is moved aside.
LEMMA MoveAsideCore ==
  ASSUME Core, NEW p \in Procs, MoveAside(p)
  PROVE  Core'
<1>. DEFINE s == proc[p]
            t == proc'[p]
<1>0. Local(s) /\ IsMemory(s) /\ DOMAIN proc = Procs
  BY MemoryFacts DEF Core
<1>1. s.step = "move" /\ s.step \in TxnSteps /\ s.step \in ExpirySteps
  BY DEF MoveAside, At, TxnSteps, ExpirySteps, StoreSteps
<1>2. Mine(p) /\ ~ Free /\ txn.owner = p /\ OfExpiry(s) /\ txn = [owner |-> p, db |-> txn.db]
  BY <1>1, TransactionFacts
<1>3. PICK c \in s.list : IF c \notin final
          THEN Abort(p) /\ UNCHANGED <<final, quarantine>>
          ELSE LET e == <<c, CHOOSE n \in Fresh(c) : TRUE>> IN
               /\ Fresh(c) # {}
               /\ final' = final \ {c}
               /\ quarantine' = quarantine \cup {e}
               /\ Become(p, [s EXCEPT !.step = "revise", !.item = c, !.moved = @ \cup {e}])
               /\ UNCHANGED txn
  BY DEF MoveAside
<1>4. UNCHANGED <<db, raced, reverted>>
  BY DEF MoveAside, Calm
<1>5. c \in Raws
  BY <1>0, <1>1 DEF Local
<1>6. CASE c \notin final
  <2>1. IsMemory(t) /\ t.step = "undo" /\ t.raw = s.raw /\ t.head = s.head
    BY <1>0, <1>3, <1>6 DEF Abort, Goto, Become, IsMemory
  <2>2. Moves(p) /\ DoomsNoMore(p) /\ t.step \notin TxnSteps
    BY <1>0, <1>3, <1>6, <2>1 DEF Abort, Goto, Become, Moves, Local, DoomsNoMore, TxnSteps, ExpirySteps, StoreSteps
  <2>. QED BY <1>2, <1>3, <1>4, <1>6, <2>2, AbortCore DEF Abort
<1>7. CASE c \in final
  <2>1. PICK n \in Fresh(c) :
          /\ final' = final \ {c} /\ quarantine' = quarantine \cup {<<c, n>>} /\ UNCHANGED txn
          /\ Become(p, [s EXCEPT !.step = "revise", !.item = c, !.moved = @ \cup {<<c, n>>}])
    BY <1>3, <1>7
  <2>2. /\ IsMemory(t) /\ t.step = "revise" /\ t.raw = s.raw /\ t.head = s.head
        /\ t.item = c /\ t.list = s.list /\ t.moved = s.moved \cup {<<c, n>>}
    BY <1>0, <2>1 DEF Become, IsMemory
  <2>3. Moves(p)
    BY <1>0, <1>1, <1>5, <2>1, <2>2 DEF Become, Moves, Local, ExpirySteps, StoreSteps
  <2>4. DoomsNoMore(p) /\ t.step \in TxnSteps
    BY <2>2 DEF DoomsNoMore, TxnSteps, ExpirySteps
  <2>5. Index' /\ Memories' /\ Owners'
    BY <1>2, <1>4, <2>1, <2>3, <2>4, InsideStep DEF Mine
  <2>6. OfExpiry(s)'
    BY <1>1, <1>2, <1>4, <2>1, <2>2 DEF OfExpiry
  <2>7. Transaction'
    BY <1>2, <1>4, <2>1, <2>2, <2>6 DEF Core, Transaction, OfCapture, Honest
  <2>8. n \in Suffixes /\ ~ Known(<<c, n>>)
    BY <2>1 DEF Fresh
  <2>9. ~ Doomed(<<c, n>>)
    BY ZenonT(120), <2>8 DEF Doomed, Known, Listed, At, Core, Memories, Local
  <2>10. ASSUME NEW d, Kept(d) PROVE Kept(d)'
    <3>1. CASE d = c
      BY <2>1, <2>3, <2>4, <2>8, <2>9, <3>1, DoomedBefore DEF Kept
    <3>2. CASE d # c
      BY <2>1, <2>3, <2>4, <2>10, <3>2, DoomedBefore DEF Kept
    <3>. QED BY <3>1, <3>2
  <2>11. c \notin NewRows
    BY <1>2, <1>5 DEF NewRows, OfExpiry
  <2>12. Files'
    BY <1>4, <2>1, <2>10, <2>11 DEF Core, Files, Indexed, NewRows, Free
  <2>. QED BY <2>5, <2>7, <2>12 DEF Core
<1>. QED BY <1>6, <1>7

\* The rows of the open transaction change.
LEMMA WriteFacts ==
  ASSUME NoneIsNoTransaction, NEW p, txn = [owner |-> p, db |-> txn.db], NEW rows, Write(rows)
  PROVE  txn' # None /\ txn'.owner = p /\ txn'.db = rows /\ txn' = [owner |-> txn'.owner, db |-> txn'.db]
<1>1. txn' = [owner |-> p, db |-> rows]
  BY DEF Write
<1>2. txn' # None
  BY <1>1, Zenon DEF NoneIsNoTransaction
<1>. QED BY <1>1, <1>2

\* Its row goes, if the newest capsule does not claim the snapshot.
LEMMA DeleteRowCore ==
  ASSUME Core, NoneIsNoTransaction, NEW p \in Procs, DeleteRow(p)
  PROVE  Core'
<1>. DEFINE s == proc[p]
            t == proc'[p]
            c == proc[p].item
<1>0. Local(s) /\ IsMemory(s) /\ DOMAIN proc = Procs
  BY MemoryFacts DEF Core
<1>1. s.step = "revise" /\ s.step \in TxnSteps /\ s.step \in ExpirySteps
  BY DEF DeleteRow, At, TxnSteps, ExpirySteps, StoreSteps
<1>2. /\ Mine(p) /\ ~ Free /\ txn.owner = p /\ OfExpiry(s) /\ txn = [owner |-> p, db |-> txn.db]
      /\ RowsOK(txn.db) /\ (reverted \/ Honest(txn.db))
  BY <1>1, TransactionFacts
<1>3. ~ Revisable(c) /\ UNCHANGED <<db, final, quarantine, raced, reverted>>
  BY DEF DeleteRow, Calm, files
<1>4. c \in Raws /\ s.list \subseteq Raws /\ \A e \in s.moved : e[1] \in Raws
  BY <1>0, <1>1 DEF Local, ExpirySteps
<1>5. CASE c \notin txn.db.rows
  <2>1. txn' = None /\ IsMemory(t) /\ t.step = "undo" /\ t.raw = s.raw /\ t.head = s.head
    BY <1>0, <1>5 DEF DeleteRow, Abort, Goto, Become, IsMemory
  <2>2. Moves(p) /\ DoomsNoMore(p) /\ t.step \notin TxnSteps
    BY <1>0, <1>5, <2>1
       DEF DeleteRow, Abort, Goto, Become, Moves, Local, DoomsNoMore, TxnSteps, ExpirySteps, StoreSteps
  <2>. QED BY <1>2, <1>3, <2>1, <2>2, AbortCore
<1>6. CASE c \in txn.db.rows
  <2>1. PICK rows : rows = Without(txn.db, c)
    OBVIOUS
  <2>2. /\ txn' # None /\ txn'.owner = p /\ txn'.db = rows
        /\ txn' = [owner |-> txn'.owner, db |-> txn'.db]
    BY <1>2, <1>6, <2>1, WriteFacts DEF DeleteRow
  <2>3. Newest(txn.db.caps) = None \/ Newest(txn.db.caps).raw # c \/ ~ Newest(txn.db.caps).avail
    BY <1>3, Zenon DEF Revisable
  <2>4. RowsOK(rows) /\ rows.rows = txn.db.rows \ {c} /\ (reverted \/ Honest(rows))
    BY <1>2, <1>4, <2>1, <2>3, RowsWithout
  <2>5. IsMemory(t) /\ t.step = "move" /\ t.raw = s.raw /\ t.head = s.head /\ t.moved = s.moved
        /\ t.list = s.list \ {c}
    BY ZenonT(120), <1>0, <1>6 DEF DeleteRow, Become, IsMemory
  <2>6. Moves(p)
    BY <1>0, <1>4, <1>6, <2>5 DEF DeleteRow, Become, Moves, Local, ExpirySteps, StoreSteps
  <2>7. DoomsNoMore(p) /\ t.step \in TxnSteps
    BY <2>5 DEF DoomsNoMore, TxnSteps, ExpirySteps
  <2>8. Index' /\ Memories' /\ Owners'
    BY <1>2, <1>3, <2>2, <2>6, <2>7, InsideStep
  <2>9. OfExpiry(s)'
    BY <1>1, <1>2, <1>3, <2>2, <2>4, <2>5 DEF OfExpiry
  <2>10. Transaction'
    BY <1>3, <2>2, <2>4, <2>5, <2>9 DEF Transaction, OfCapture, Honest
  <2>11. Indexed' \subseteq Indexed /\ NewRows' \subseteq NewRows
    BY <1>2, <1>3, <2>2, <2>4 DEF Indexed, NewRows, Free
  <2>12. Files'
    BY <1>3, <2>6, <2>7, <2>11, FilesStay DEF Core
  <2>. QED BY <2>8, <2>10, <2>12 DEF Core
<1>. QED BY <1>5, <1>6

\* The revision is written to a temporary file, ...
LEMMA WriteRevisionCore ==
  ASSUME Core, NEW p \in Procs, WriteRevision(p)
  PROVE  Core'
<1>. DEFINE s == proc[p]
            t == proc'[p]
<1>0. Local(s) /\ IsMemory(s) /\ DOMAIN proc = Procs
  BY MemoryFacts DEF Core
<1>1. s.step = "revise" /\ s.step \in TxnSteps /\ s.step \in ExpirySteps
  BY DEF WriteRevision, At, TxnSteps, ExpirySteps, StoreSteps
<1>2. Mine(p) /\ ~ Free /\ txn # None /\ txn.owner = p /\ OfExpiry(s)
  BY <1>1, TransactionFacts DEF Free
<1>3. UNCHANGED <<db, txn, final, quarantine, raced, reverted>>
  BY DEF WriteRevision, Calm
<1>4. /\ IsMemory(t) /\ t.step = "revised" /\ t.raw = s.raw /\ t.head = s.head
      /\ t.moved = s.moved /\ t.list = s.list /\ t.item = s.item
  BY <1>0 DEF WriteRevision, Goto, Become, IsMemory
<1>5. Moves(p)
  BY <1>0, <1>1, <1>4 DEF WriteRevision, Goto, Become, Moves, Local, ExpirySteps, StoreSteps
<1>6. DoomsNoMore(p) /\ t.step \in TxnSteps
  BY <1>4 DEF DoomsNoMore, TxnSteps, ExpirySteps
<1>7. Index' /\ Memories' /\ Owners'
  BY <1>2, <1>3, <1>5, <1>6, InsideStep
<1>8. OfExpiry(s)'
  BY <1>1, <1>2, <1>3, <1>4 DEF OfExpiry
<1>9. Transaction'
  BY <1>2, <1>3, <1>4, <1>8 DEF Core, Transaction, OfCapture, Honest
<1>10. Files'
  BY <1>3, <1>5, <1>6, FilesStay DEF Core, Indexed, NewRows, Free
<1>. QED BY <1>7, <1>9, <1>10 DEF Core

LEMMA RevisionIsCapsule ==
  ASSUME CapsulesAreNoSnapshots, RowsOK(txn.db), NEW c \in Raws, NEW k, k = Revision(c)
  PROVE  Capsule(k) /\ k.avail = FALSE /\ \A l \in txn.db.caps : l.rev < k.rev
<1>. DEFINE n == Newest(txn.db.caps)
            rev == IF n = None THEN 1 ELSE n.rev + 1
<1>1. n = None \/ n.rev \in Nat
  BY NewestIsNewest, NewestOfNone DEF RowsOK, Chain, Capsule
<1>2. \A l \in txn.db.caps : n # None /\ l.rev \in Nat /\ l.rev <= n.rev
  BY NewestIsNewest DEF RowsOK, Chain, Capsule
<1>. HIDE DEF n
<1>3. rev \in Nat
  BY <1>1
<1>4. k = [rev |-> rev, raw |-> c, avail |-> FALSE, prev |-> n]
  BY DEF Revision, Child, n
<1>. HIDE DEF rev
<1>5. k \notin Raws \cup {None}
  BY <1>4, Zenon DEF CapsulesAreNoSnapshots
<1>6. k.rev = rev /\ k.raw = c /\ k.avail = FALSE
  BY <1>4
<1>7. \A l \in txn.db.caps : l.rev < rev
  BY <1>1, <1>2 DEF rev
<1>. QED BY <1>3, <1>5, <1>6, <1>7 DEF Capsule

\* ... and published with its row, and the row of the snapshot goes.
LEMMA PublishRevisionCore ==
  ASSUME Core, CapsulesAreNoSnapshots, NoneIsNoTransaction, NEW p \in Procs, PublishRevision(p)
  PROVE  Core'
<1>. DEFINE s == proc[p]
            t == proc'[p]
            c == proc[p].item
<1>0. Local(s) /\ IsMemory(s) /\ DOMAIN proc = Procs
  BY MemoryFacts DEF Core
<1>1. s.step = "revised" /\ s.step \in TxnSteps /\ s.step \in ExpirySteps
  BY DEF PublishRevision, At, TxnSteps, ExpirySteps, StoreSteps
<1>2. /\ Mine(p) /\ ~ Free /\ txn.owner = p /\ OfExpiry(s) /\ txn = [owner |-> p, db |-> txn.db]
      /\ RowsOK(txn.db)
  BY <1>1, TransactionFacts
<1>3. c \in Raws /\ s.list \subseteq Raws /\ \A e \in s.moved : e[1] \in Raws
  BY <1>0, <1>1 DEF Local, ExpirySteps
<1>4. PICK k : k = Revision(c)
  OBVIOUS
<1>5. /\ final' = final \cup {k} /\ UNCHANGED <<db, quarantine, raced, reverted>>
      /\ final \subseteq final' /\ quarantine \subseteq quarantine'
  BY <1>4 DEF PublishRevision, Calm
<1>6. CASE c \notin txn.db.rows
  <2>1. txn' = None /\ IsMemory(t) /\ t.step = "undo" /\ t.raw = s.raw /\ t.head = s.head
    <3>1. PICK made : txn' = None /\ Become(p, [s EXCEPT !.step = "undo", !.made = made])
      BY <1>6 DEF PublishRevision
    <3>. QED BY <1>0, <3>1 DEF Become, IsMemory
  <2>2. Moves(p) /\ DoomsNoMore(p) /\ t.step \notin TxnSteps
    BY <1>0, <1>6, <2>1 DEF PublishRevision, Become, Moves, Local, DoomsNoMore, TxnSteps, ExpirySteps, StoreSteps
  <2>. QED BY <1>2, <1>5, <2>1, <2>2, AbortCore
<1>7. CASE c \in txn.db.rows
  <2>1. PICK with : with = [txn.db EXCEPT !.rows = @ \cup {k}, !.caps = @ \cup {k}, !.queue = @ \cup {k}]
    OBVIOUS
  <2>2. PICK rows : rows = Without(with, c)
    OBVIOUS
  <2>3. /\ txn' # None /\ txn'.owner = p /\ txn'.db = rows
        /\ txn' = [owner |-> txn'.owner, db |-> txn'.db]
    <3>1. Write(rows)
      BY <1>4, <1>7, <2>1, <2>2 DEF PublishRevision
    <3>. QED BY <1>2, <3>1, WriteFacts
  <2>4. Capsule(k) /\ k.avail = FALSE /\ \A l \in txn.db.caps : l.rev < k.rev
    BY <1>2, <1>3, <1>4, RevisionIsCapsule
  <2>5. RowsOK(with) /\ with.rows = txn.db.rows \cup {k} /\ Newest(with.caps) = k /\ Honest(with)
    <3>1. /\ IsRows(with) /\ with.old = txn.db.old /\ with.rows = txn.db.rows \cup {k}
          /\ with.caps = txn.db.caps \cup {k} /\ with.queue = txn.db.queue \cup {k}
      BY <1>2, <2>1 DEF RowsOK, IsRows
    <3>. QED BY <1>2, <2>4, <3>1, RowsRevised
  <2>6. RowsOK(rows) /\ rows.rows = (txn.db.rows \cup {k}) \ {c} /\ Honest(rows)
    BY <1>3, <2>2, <2>4, <2>5, RowsWithout
  <2>7. IsMemory(t) /\ t.step = "move" /\ t.raw = s.raw /\ t.head = s.head /\ t.moved = s.moved
        /\ t.list = s.list \ {c}
    <3>1. PICK made : Become(p, [s EXCEPT !.step = "move", !.list = @ \ {c}, !.made = made])
      BY <1>7 DEF PublishRevision
    <3>. QED BY <1>0, <3>1 DEF Become, IsMemory
  <2>8. Moves(p)
    BY <1>0, <1>3, <1>7, <2>7 DEF PublishRevision, Become, Moves, Local, ExpirySteps, StoreSteps
  <2>9. DoomsNoMore(p) /\ t.step \in TxnSteps
    BY <2>7 DEF DoomsNoMore, TxnSteps, ExpirySteps
  <2>10. Index' /\ Memories' /\ Owners'
    BY <1>2, <1>5, <2>3, <2>8, <2>9, InsideStep
  <2>11. k \notin Raws
    BY <2>4 DEF Capsule
  <2>12. OfExpiry(s)'
    BY <1>1, <1>2, <1>3, <1>5, <2>3, <2>6, <2>7, <2>11 DEF OfExpiry
  <2>13. Transaction'
    BY <1>5, <2>3, <2>6, <2>7, <2>12 DEF Transaction, OfCapture, Honest
  <2>14. Indexed' \subseteq Indexed \cup {k} /\ NewRows' \subseteq NewRows \cup {k}
    BY <1>2, <1>5, <2>3, <2>6 DEF Indexed, NewRows, Free
  <2>15. ASSUME NEW d, Kept(d) \/ d = k PROVE Kept(d)'
    BY <1>5, <2>8, <2>9, <2>15, DoomedBefore DEF Kept
  <2>16. Files'
    BY <1>5, <2>14, <2>15 DEF Core, Files
  <2>. QED BY <2>10, <2>13, <2>16 DEF Core
<1>. QED BY <1>6, <1>7

\* The rows of an expiry are committed: what it moved aside may now go.
LEMMA CommitExpiryCore ==
  ASSUME Core, NEW p \in Procs, CommitExpiry(p)
  PROVE  Core'
<1>. DEFINE s == proc[p]
            t == proc'[p]
<1>0. Local(s) /\ IsMemory(s) /\ DOMAIN proc = Procs
  BY MemoryFacts DEF Core
<1>1. s.step = "move" /\ s.step \in TxnSteps /\ s.step \in ExpirySteps
  BY DEF CommitExpiry, At, TxnSteps, ExpirySteps, StoreSteps
<1>2. /\ Mine(p) /\ ~ Free /\ txn.owner = p /\ OfExpiry(s)
      /\ RowsOK(txn.db) /\ (reverted \/ Honest(txn.db))
  BY <1>1, TransactionFacts
<1>3. db' = txn.db /\ txn' = None /\ UNCHANGED <<final, quarantine, raced, reverted>>
  BY DEF CommitExpiry, Calm, files
<1>4. IsMemory(t) /\ t.step = "purge" /\ t.raw = s.raw /\ t.head = s.head /\ t.list = s.moved
  BY <1>0 DEF CommitExpiry, Become, IsMemory
<1>5. Moves(p)
  BY <1>0, <1>4 DEF CommitExpiry, Become, Moves, Local, ExpirySteps, StoreSteps
<1>6. Index' /\ Memories' /\ Owners' /\ Transaction'
  <2>1. t.step \notin TxnSteps
    BY <1>4 DEF TxnSteps, ExpirySteps, StoreSteps
  <2>. QED BY <1>2, <1>3, <1>5, <2>1, LastStep DEF Honest
<1>7. ASSUME NEW e, Doomed(e)' PROVE Doomed(e) \/ e \in s.moved
  BY <1>4, <1>5, <1>7 DEF Doomed, Moves, At
<1>8. ASSUME NEW c \in txn.db.rows, Kept(c) PROVE Kept(c)'
  <2>1. ASSUME NEW n PROVE <<c, n>> \notin s.moved
    BY <1>1, <1>2 DEF OfExpiry
  <2>. QED BY <1>3, <1>7, <1>8, <2>1 DEF Kept
<1>9. Files'
  BY <1>2, <1>3, <1>8 DEF Core, Files, Indexed, NewRows, Free
<1>. QED BY <1>6, <1>9 DEF Core

\* The files go, ...
LEMMA PurgeCore ==
  ASSUME Core, NEW p \in Procs, Purge(p)
  PROVE  Core'
<1>. DEFINE s == proc[p]
            t == proc'[p]
<1>0. Local(s) /\ IsMemory(s) /\ DOMAIN proc = Procs
  BY MemoryFacts DEF Core
<1>1. s.step = "purge" /\ s.step \notin TxnSteps /\ UNCHANGED <<db, txn, final, raced, reverted>>
  BY DEF Purge, Calm, At, TxnSteps, ExpirySteps, StoreSteps
<1>2. CASE s.list = {} /\ Goto(p, "expire") /\ UNCHANGED quarantine
  <2>1. IsMemory(t) /\ t.step = "expire" /\ t.raw = s.raw /\ t.head = s.head
    BY <1>0, <1>2 DEF Goto, Become, IsMemory
  <2>2. Moves(p)
    BY <1>0, <1>2, <2>1 DEF Goto, Become, Moves, Local, ExpirySteps, StoreSteps
  <2>. QED BY <1>1, <1>2, <2>1, <2>2, QuietCore DEF DoomsNoMore, TxnSteps, ExpirySteps, StoreSteps
<1>3. ASSUME NEW e \in s.list, quarantine' = quarantine \ {e}, Done(p, e) PROVE Core'
  <2>1. IsMemory(t) /\ t.step = "purge" /\ t.raw = s.raw /\ t.head = s.head /\ t.list = s.list \ {e}
    BY <1>0, <1>1, <1>3 DEF Done, Become, IsMemory
  <2>2. Moves(p) /\ DoomsNoMore(p) /\ t.step \notin TxnSteps
    BY <1>0, <1>1, <1>3, <2>1 DEF Done, Become, Moves, Local, DoomsNoMore, TxnSteps, ExpirySteps, StoreSteps
  <2>3. Doomed(e)
    BY <1>1 DEF Doomed, At
  <2>4. Files'
    BY <1>1, <1>3, <2>2, <2>3, FilesReturn DEF Core
  <2>. QED BY <1>1, <2>2, <2>4, QuietStep DEF Core
<1>. QED BY <1>2, <1>3 DEF Purge

\* ... or, after a failure, come back.
LEMMA UndoCore ==
  ASSUME Core, NEW p \in Procs, UndoMade(p) \/ UndoMoved(p) \/ Undone(p)
  PROVE  Core'
<1>. DEFINE s == proc[p]
            t == proc'[p]
<1>0. Local(s) /\ IsMemory(s) /\ DOMAIN proc = Procs
  BY MemoryFacts DEF Core
<1>1. s.step = "undo" /\ s.step \notin TxnSteps /\ UNCHANGED <<db, txn, reverted>>
  BY DEF UndoMade, UndoMoved, Undone, Calm, At, TxnSteps, ExpirySteps, StoreSteps
<1>2. CASE UndoMade(p)
  <2>1. PICK c \in s.made :
          /\ final' = final \ {c} /\ raced' = (raced \/ (c \in final /\ c \in Indexed))
          /\ quarantine' = quarantine
          /\ Become(p, [s EXCEPT !.made = @ \ {c}])
    BY <1>2 DEF UndoMade
  <2>2. IsMemory(t) /\ t.step = "undo" /\ t.raw = s.raw /\ t.head = s.head
    BY <1>0, <1>1, <2>1 DEF Become, IsMemory
  <2>3. Moves(p) /\ DoomsNoMore(p) /\ t.step \notin TxnSteps
    BY <1>0, <2>1, <2>2 DEF Become, Moves, Local, DoomsNoMore, TxnSteps, ExpirySteps, StoreSteps
  <2>4. Files'
    BY <1>1, <2>1, <2>3, FilesUnlink DEF Core
  <2>. QED BY <1>1, <2>3, <2>4, QuietStep DEF Core
<1>3. CASE UndoMoved(p)
  <2>1. PICK e \in s.moved :
          /\ quarantine' = quarantine \ {e} /\ raced' = raced
          /\ final' = IF e \in quarantine THEN final \cup {e[1]} ELSE final
          /\ Become(p, [s EXCEPT !.moved = @ \ {e}])
    BY <1>3 DEF UndoMoved, Calm
  <2>2. IsMemory(t) /\ t.step = "undo" /\ t.raw = s.raw /\ t.head = s.head
    BY <1>0, <1>1, <2>1 DEF Become, IsMemory
  <2>3. Moves(p) /\ DoomsNoMore(p) /\ t.step \notin TxnSteps
    BY <1>0, <2>1, <2>2 DEF Become, Moves, Local, DoomsNoMore, TxnSteps, ExpirySteps, StoreSteps
  <2>4. Files'
    BY <1>1, <2>1, <2>3, FilesReturn DEF Core
  <2>. QED BY <1>1, <2>3, <2>4, QuietStep DEF Core
<1>4. CASE Undone(p)
  BY <1>1, <1>4, ThrowCore DEF Undone, Calm, files
<1>. QED BY <1>2, <1>3, <1>4

(***************************************************************************)
(* A capture and a drain of the queue.                                     *)
(***************************************************************************)
\* The capsule of a capture has the next revision.
LEMMA CapturedIsCapsule ==
  ASSUME CapsulesAreNoSnapshots, NEW prev, prev = None \/ prev.rev \in Nat, NEW raw \in Raws,
         NEW k, k = [rev |-> IF prev = None THEN 1 ELSE prev.rev + 1, raw |-> raw, avail |-> TRUE, prev |-> prev]
  PROVE  Capsule(k) /\ k.raw = raw
<1>. DEFINE rev == IF prev = None THEN 1 ELSE prev.rev + 1
<1>1. rev \in Nat
  OBVIOUS
<1>2. k = [rev |-> rev, raw |-> raw, avail |-> TRUE, prev |-> prev]
  OBVIOUS
<1>. HIDE DEF rev
<1>3. k \notin Raws \cup {None}
  BY <1>2, Zenon DEF CapsulesAreNoSnapshots
<1>4. k.rev = rev /\ k.raw = raw
  BY <1>2
<1>. QED BY <1>1, <1>3, <1>4 DEF Capsule

\* Capsules that wait have revisions.
LEMMA QueueFacts ==
  ASSUME Index
  PROVE  /\ \A k \in db.queue : k.rev \in Nat
         /\ db.caps \cap Raws = {}
         /\ Newest(db.caps) # None => Newest(db.caps).rev \in Nat /\ Newest(db.caps) \in db.caps
<1>1. RowsOK(db)
  BY DEF Index
<1>2. Chain(db.caps) /\ db.queue \subseteq db.caps
  BY <1>1 DEF RowsOK
<1>3. \A k \in db.caps : k.rev \in Nat /\ k \notin Raws
  BY <1>2 DEF Chain, Capsule
<1>4. db.caps # {} => Newest(db.caps) \in db.caps
  BY <1>2, NewestIsNewest
<1>5. db.caps = {} => Newest(db.caps) = None
  BY NewestOfNone
<1>. QED BY <1>2, <1>3, <1>4, <1>5

\* The steps that change nothing but what the process keeps, and the head at HQ.
LEMMA ThinkingCore ==
  ASSUME Core, Head, CapsulesAreNoSnapshots, NEW p \in Procs,
         \/ Close(p) \/ FetchHead(p) \/ Dropped(p) \/ ReadLatest(p) \/ Drain(p)
         \/ Take(p) \/ Drained(p) \/ Upload(p) \/ LoseAnswer(p)
         \/ \E raw \in Raws, sync \in BOOLEAN : BeginCapture(p, raw, sync)
  PROVE  Core'
<1>. DEFINE s == proc[p]
            t == proc'[p]
<1>0. Local(s) /\ IsMemory(s) /\ DOMAIN proc = Procs
  BY SMTT(60), MemoryFacts DEF Core
<1>1. UNCHANGED <<db, txn, raced, reverted, final, quarantine>>
  BY ZenonT(120) DEF Close, FetchHead, Dropped, ReadLatest, Drain, Take, Drained, Upload, LoseAnswer, BeginCapture, Calm, files
<1>2. s.step \in {"ready", "head", "drop", "latest", "drain", "upload"} /\ s.step \notin TxnSteps
  BY DEF Close, FetchHead, Dropped, ReadLatest, Drain, Take, Drained, Upload, LoseAnswer, BeginCapture, At,
         TxnSteps, ExpirySteps, StoreSteps
<1>3. CASE Throw(p)
  BY <1>1, <1>2, <1>3, ThrowCore
<1>4. ASSUME Moves(p), t.step \in {"latest", "drain", "upload", "mark", "discard", "head", "enqueue", "begin"} PROVE Core'
  <2>1. DoomsNoMore(p) /\ t.step \notin TxnSteps
    BY <1>4 DEF DoomsNoMore, TxnSteps, ExpirySteps, StoreSteps
  <2>. QED BY <1>1, <1>2, <1>4, <2>1, QuietCore
<1>5. CASE FetchHead(p)
  <2>1. IsMemory(t) /\ t.step = "discard" /\ t.raw = s.raw /\ t.head = hq
    BY <1>0, <1>5 DEF FetchHead, Become, IsMemory
  <2>2. Moves(p)
    BY <1>0, <1>5, <2>1 DEF FetchHead, At, Become, Head, Moves, Local, ExpirySteps, StoreSteps
  <2>. QED BY <1>4, <2>1, <2>2
<1>6. CASE Dropped(p)
  <2>1. IsMemory(t) /\ t.step = "latest" /\ t.raw = s.raw /\ t.head = s.head
    BY <1>0, <1>6 DEF Dropped, Goto, Become, IsMemory
  <2>2. Moves(p)
    BY <1>0, <1>6, <2>1 DEF Dropped, At, Goto, Become, Moves, Local, ExpirySteps, StoreSteps
  <2>. QED BY <1>4, <2>1, <2>2
<1>7. CASE ReadLatest(p) /\ ~ Throw(p)
  <2>1. PICK latest : latest = Newest(db.caps)
    OBVIOUS
  <2>2. latest # None => latest.rev \in Nat
    BY <2>1, QueueFacts DEF Core
  <2>3. s.step = "latest" /\ s.raw \in Raws /\ (s.head # None => s.head.rev \in Nat)
    BY <1>0, <1>7 DEF ReadLatest, At, Local
  <2>4. PICK k : k = Child(Base(latest, p), s.raw, TRUE)
    OBVIOUS
  <2>5. Capsule(k) /\ k.raw = s.raw
    <3>1. Base(latest, p) = None \/ Base(latest, p).rev \in Nat
      BY <2>2, <2>3 DEF Base
    <3>2. PICK prev : prev = Base(latest, p)
      OBVIOUS
    <3>3. k = [rev |-> IF prev = None THEN 1 ELSE prev.rev + 1, raw |-> s.raw, avail |-> TRUE, prev |-> prev]
      BY <2>4, <3>2 DEF Child
    <3>. QED BY ONLY <2>3, <3>1, <3>2, <3>3, CapturedIsCapsule, CapsulesAreNoSnapshots
  <2>6. \/ IsMemory(t) /\ t.step = "enqueue" /\ t.raw = s.raw /\ t.head = s.head /\ t.capsule = latest /\ latest # None
        \/ IsMemory(t) /\ t.step = "begin" /\ t.raw = s.raw /\ t.head = s.head /\ t.capsule = k
    <3>1. \/ latest # None /\ Become(p, [s EXCEPT !.step = "enqueue", !.capsule = latest])
          \/ Become(p, [s EXCEPT !.step = "begin", !.made = {}, !.capsule = k])
      BY <1>7, <2>1, <2>4 DEF ReadLatest, Same
    <3>. QED BY ZenonT(120), <1>0, <3>1 DEF Become, IsMemory
  <2>7. DOMAIN proc' = Procs /\ \A q \in Procs : q # p => proc'[q] = proc[q]
    BY <1>0, <1>7 DEF ReadLatest, Become
  <2>8. Local(t)
    BY <1>0, <2>2, <2>3, <2>5, <2>6 DEF Local, ExpirySteps, StoreSteps
  <2>. QED BY <1>4, <2>6, <2>7, <2>8 DEF Moves
<1>8. CASE Drain(p) /\ ~ Throw(p)
  <2>1. IsMemory(t) /\ t.step = "drain" /\ t.raw = s.raw /\ t.head = s.head /\ t.list = db.queue
    BY ZenonT(120), <1>0, <1>8 DEF Drain, List, Become, IsMemory
  <2>2. Moves(p)
    BY <1>0, <1>8, <2>1, QueueFacts DEF Core, Drain, List, Become, Moves, Local, ExpirySteps, StoreSteps
  <2>. QED BY <1>4, <2>1, <2>2
<1>9. CASE Take(p)
  <2>1. IsMemory(t) /\ t.step = "upload" /\ t.raw = s.raw /\ t.head = s.head /\ t.capsule = Oldest(p)
        /\ t.list = s.list \ {Oldest(p)}
    BY <1>0, <1>9 DEF Take, Become, IsMemory
  <2>2. s.list # {} /\ \A k \in s.list : k.rev \in Nat
    BY <1>0, <1>9 DEF Take, At, Local
  <2>3. Oldest(p).rev \in Nat
    <3>. DEFINE Revs == {k.rev : k \in s.list}
    <3>1. Revs \subseteq Nat /\ Revs # {}
      BY <2>2
    <3>2. PICK m \in Revs : \A n \in Revs : m <= n
      <4>. HIDE DEF Revs
      <4>. QED BY <3>1, LeastNat
    <3>3. \E k \in s.list : \A l \in s.list : k.rev <= l.rev
      BY <3>2
    <3>. QED BY <2>2, <3>3 DEF Oldest
  <2>4. Moves(p)
    BY <1>0, <1>9, <2>1, <2>2, <2>3 DEF Take, Become, Moves, Local, ExpirySteps, StoreSteps
  <2>. QED BY <1>4, <2>1, <2>4
<1>10. CASE Drained(p) /\ ~ Throw(p)
  <2>1. IsMemory(t) /\ t.step = "head" /\ t.raw = s.raw /\ t.head = s.head /\ s.raw # None
    BY <1>0, <1>10 DEF Drained, Goto, Become, IsMemory
  <2>2. Moves(p)
    BY <1>0, <1>10, <2>1 DEF Drained, Goto, Become, Moves, Local, ExpirySteps, StoreSteps
  <2>. QED BY <1>4, <2>1, <2>2
<1>11. CASE Upload(p) /\ ~ Throw(p)
  <2>1. IsMemory(t) /\ t.step = "mark" /\ t.raw = s.raw /\ t.head = s.head /\ t.capsule = s.capsule
        /\ t.list = s.list
    BY <1>0, <1>11 DEF Upload, Goto, Become, IsMemory
  <2>2. Moves(p)
    BY <1>0, <1>11, <2>1 DEF Upload, At, Goto, Become, Moves, Local, ExpirySteps, StoreSteps
  <2>. QED BY <1>4, <2>1, <2>2
<1>12. ASSUME NEW raw \in Raws, NEW sync \in BOOLEAN, BeginCapture(p, raw, sync), ~ Throw(p) PROVE Core'
  <2>1. /\ IsMemory(t) /\ t.raw = raw /\ t.head = None
        /\ t.step = "latest" \/ (t.step = "drain" /\ t.list = db.queue)
    <3>1. PICK me : /\ me = [Asleep EXCEPT !.raw = raw, !.sync = sync]
                    /\ \/ Become(p, [me EXCEPT !.step = "latest"])
                       \/ Become(p, [me EXCEPT !.step = "drain", !.list = db.queue])
      BY <1>12 DEF BeginCapture
    <3>2. IsMemory(me) /\ me.raw = raw /\ me.head = None
      BY <3>1 DEF Asleep, IsMemory
    <3>3. t = [me EXCEPT !.step = "latest"] \/ t = [me EXCEPT !.step = "drain", !.list = db.queue]
      BY <1>0, <3>1 DEF Become
    <3>4. CASE t = [me EXCEPT !.step = "latest"]
      BY <3>2, <3>4 DEF IsMemory
    <3>5. CASE t = [me EXCEPT !.step = "drain", !.list = db.queue]
      BY <3>2, <3>5 DEF IsMemory
    <3>. QED BY <3>3, <3>4, <3>5
  <2>2. Moves(p)
    BY <1>0, <1>12, <2>1, QueueFacts DEF Core, BeginCapture, Become, Moves, Local, ExpirySteps, StoreSteps
  <2>. QED BY <1>4, <2>1, <2>2
<1>. QED BY <1>3, <1>5, <1>6, <1>7, <1>8, <1>9, <1>10, <1>11, <1>12 DEF Close, LoseAnswer

\* Local capsules that HQ does not know are discarded, row by row and then file by file.
LEMMA DiscardCore ==
  ASSUME Core, NEW p \in Procs, Discard(p)
  PROVE  Core'
<1>. DEFINE s == proc[p]
            t == proc'[p]
<1>0. Local(s) /\ IsMemory(s) /\ DOMAIN proc = Procs /\ RowsOK(db)
  BY MemoryFacts DEF Core, Index
<1>1. /\ s.step = "discard" /\ s.step \notin TxnSteps /\ UNCHANGED <<txn, final, quarantine, raced>>
  BY DEF Discard, files, At, TxnSteps, ExpirySteps, StoreSteps
<1>2. CASE Newer(p) # {} /\ ~ Free
  BY <1>1, <1>2, ThrowCore DEF Discard
<1>3. CASE ~ (Newer(p) # {} /\ ~ Free)
  <2>1. /\ db' = [db EXCEPT !.caps = @ \ Newer(p), !.queue = @ \ Newer(p)]
        /\ reverted' = (reverted \/ ~ Honest(db')) /\ List(p, "drop", Newer(p))
    BY <1>3 DEF Discard
  <2>2. IsRows(db') /\ db'.rows = db.rows /\ db'.old = db.old /\ db'.caps = db.caps \ Newer(p)
        /\ db'.queue = db.queue \ Newer(p)
    BY <1>0, <2>1 DEF RowsOK, IsRows
  <2>3. RowsOK(db')
    BY <1>0, <2>2, RowsDiscarded
  <2>4. IsMemory(t) /\ t.step = "drop" /\ t.raw = s.raw /\ t.head = s.head /\ t.list = Newer(p)
    BY <1>0, <2>1 DEF List, Become, IsMemory
  <2>5. Newer(p) \cap Raws = {}
    BY QueueFacts DEF Core, Newer
  <2>6. Moves(p)
    BY <1>0, <1>1, <2>1, <2>4, <2>5 DEF List, Become, Moves, Local, ExpirySteps, StoreSteps
  <2>7. DoomsNoMore(p) /\ t.step \notin TxnSteps
    BY <2>4 DEF DoomsNoMore, TxnSteps, ExpirySteps, StoreSteps
  <2>8. CASE Free
    BY <1>1, <2>1, <2>2, <2>3, <2>6, <2>7, <2>8, EditCore
  <2>9. CASE ~ Free
    <3>1. Newer(p) = {}
      BY <1>3, <2>9
    <3>2. db' = db
      BY <1>0, <2>2, <3>1 DEF RowsOK, IsRows
    <3>3. reverted => reverted'
      BY <2>1
    <3>. QED BY <1>1, <2>6, <2>7, <3>2, <3>3, QuietCore
  <2>. QED BY <2>8, <2>9
<1>. QED BY <1>2, <1>3

LEMMA DropCore ==
  ASSUME Core, NEW p \in Procs, DropRow(p) \/ DropFile(p)
  PROVE  Core'
<1>. DEFINE s == proc[p]
            t == proc'[p]
<1>0. Local(s) /\ IsMemory(s) /\ DOMAIN proc = Procs /\ RowsOK(db)
  BY MemoryFacts DEF Core, Index
<1>1. s.step \in {"drop", "unlink"} /\ s.step \notin TxnSteps /\ UNCHANGED <<txn, quarantine, reverted>>
      /\ s.list \cap Raws = {}
  BY <1>0 DEF DropRow, DropFile, Calm, files, At, Local, TxnSteps, ExpirySteps, StoreSteps
<1>2. CASE DropRow(p)
  <2>1. PICK k \in s.list :
          IF k \in db.caps THEN Done(p, k) /\ UNCHANGED db
          ELSE IF ~ Free THEN Throw(p) /\ UNCHANGED db
          ELSE /\ db' = [db EXCEPT !.rows = @ \ {k}]
               /\ Become(p, [s EXCEPT !.step = "unlink", !.item = k])
    BY <1>2 DEF DropRow
  <2>2. UNCHANGED <<final, raced>> /\ s.step = "drop"
    BY <1>2 DEF DropRow, Calm, files, At
  <2>3. CASE k \in db.caps
    <3>1. IsMemory(t) /\ t.step = "drop" /\ t.raw = s.raw /\ t.head = s.head /\ t.list = s.list \ {k}
      BY <1>0, <2>1, <2>2, <2>3 DEF Done, Become, IsMemory
    <3>2. Moves(p) /\ DoomsNoMore(p) /\ t.step \notin TxnSteps
      BY <1>0, <1>1, <2>1, <2>2, <2>3, <3>1
         DEF Done, Become, Moves, Local, DoomsNoMore, TxnSteps, ExpirySteps, StoreSteps
    <3>. QED BY <1>1, <2>1, <2>2, <2>3, <3>2, QuietCore
  <2>4. CASE k \notin db.caps /\ ~ Free
    BY <1>1, <2>1, <2>2, <2>4, ThrowCore
  <2>5. CASE k \notin db.caps /\ Free
    <3>1. IsMemory(t) /\ t.step = "unlink" /\ t.raw = s.raw /\ t.head = s.head /\ t.list = s.list
      <4>1. Become(p, [s EXCEPT !.step = "unlink", !.item = k])
        BY <2>1, <2>5
      <4>. QED BY <1>0, <4>1 DEF Become, IsMemory
    <3>2. Moves(p) /\ DoomsNoMore(p) /\ t.step \notin TxnSteps
      BY <1>0, <1>1, <2>1, <2>2, <2>5, <3>1
         DEF Become, Moves, Local, DoomsNoMore, TxnSteps, ExpirySteps, StoreSteps
    <3>3. k \notin Raws
      BY <1>1
    <3>4. RowsOK(db') /\ db'.rows = db.rows \ {k} /\ (Honest(db) => Honest(db'))
      BY <1>0, <2>1, <2>5, <3>3, RowsDropped
    <3>5. reverted' \/ Honest(db')
      BY <1>1, <3>4 DEF Core, Index
    <3>. QED BY <1>1, <2>2, <2>5, <3>2, <3>4, <3>5, EditCore
  <2>. QED BY SMTT(60), <2>3, <2>4, <2>5
<1>3. CASE DropFile(p)
  <2>1. PICK k : k = s.item
    OBVIOUS
  <2>2. /\ final' = final \ {k} /\ raced' = (raced \/ (k \in final /\ k \in Indexed)) /\ db' = db
        /\ Become(p, [s EXCEPT !.step = "drop", !.list = @ \ {k}])
    BY <1>3, <2>1 DEF DropFile
  <2>3. IsMemory(t) /\ t.step = "drop" /\ t.raw = s.raw /\ t.head = s.head /\ t.list = s.list \ {k}
    BY <1>0, <2>2 DEF Become, IsMemory
  <2>4. Moves(p) /\ DoomsNoMore(p) /\ t.step \notin TxnSteps
    BY <1>0, <1>1, <2>2, <2>3 DEF Become, Moves, Local, DoomsNoMore, TxnSteps, ExpirySteps, StoreSteps
  <2>5. Files'
    BY <1>1, <2>2, <2>4, FilesUnlink DEF Core
  <2>. QED BY <1>1, <2>2, <2>4, <2>5, QuietStep DEF Core
<1>. QED BY <1>2, <1>3

\* The queue changes, in a transaction of one statement.
LEMMA QueueCore ==
  ASSUME Core, NEW p \in Procs, Enqueue(p) \/ Retire(p) \/ Mark(p)
  PROVE  Core'
<1>. DEFINE s == proc[p]
            t == proc'[p]
<1>0. Local(s) /\ IsMemory(s) /\ DOMAIN proc = Procs /\ RowsOK(db)
  BY MemoryFacts DEF Core, Index
<1>1. /\ s.step \in {"enqueue", "drain", "mark"} /\ s.step \notin TxnSteps
      /\ UNCHANGED <<txn, final, quarantine, raced, reverted>>
  BY DEF Enqueue, Retire, Mark, Calm, files, At, TxnSteps, ExpirySteps, StoreSteps
<1>2. CASE Throw(p) /\ UNCHANGED db
  BY <1>1, <1>2, ThrowCore
<1>3. ASSUME Free, NEW Q, Q \subseteq db.caps, db' = [db EXCEPT !.queue = Q], Moves(p), t.step \in {"drain", "upload"}
      PROVE  Core'
  <2>1. RowsOK(db') /\ db'.rows = db.rows /\ (Honest(db) => Honest(db'))
    BY <1>0, <1>3, RowsQueued
  <2>2. reverted' \/ Honest(db')
    BY <1>1, <2>1 DEF Core, Index
  <2>3. DoomsNoMore(p) /\ t.step \notin TxnSteps
    BY <1>3 DEF DoomsNoMore, TxnSteps, ExpirySteps, StoreSteps
  <2>. QED BY <1>1, <1>3, <2>1, <2>2, <2>3, EditCore
<1>4. db.queue \subseteq db.caps
  BY <1>0 DEF RowsOK
<1>5. CASE Enqueue(p) /\ ~ (Throw(p) /\ UNCHANGED db)
  <2>1. PICK k \in db.caps : db' = [db EXCEPT !.queue = @ \cup {k}]
    BY <1>5 DEF Enqueue
  <2>2. Free /\ Become(p, [s EXCEPT !.step = "upload", !.list = {}, !.raw = None])
    BY <1>5 DEF Enqueue
  <2>3. IsMemory(t) /\ t.step = "upload" /\ t.raw = None /\ t.head = s.head /\ t.list = {}
        /\ t.capsule = s.capsule
    BY <1>0, <2>2 DEF Become, IsMemory
  <2>4. Moves(p)
    BY <1>0, <1>5, <2>2, <2>3 DEF Enqueue, At, Become, Moves, Local, ExpirySteps, StoreSteps
  <2>. QED BY <1>3, <1>4, <2>1, <2>2, <2>3, <2>4
<1>6. CASE Retire(p) /\ ~ (Throw(p) /\ UNCHANGED db)
  <2>1. Free /\ db' = [db EXCEPT !.queue = @ \ {Oldest(p)}] /\ Done(p, Oldest(p)) /\ s.step = "drain"
    BY <1>6 DEF Retire, At
  <2>2. IsMemory(t) /\ t.step = "drain" /\ t.raw = s.raw /\ t.head = s.head /\ t.list = s.list \ {Oldest(p)}
    BY <1>0, <2>1 DEF Done, Become, IsMemory
  <2>3. Moves(p)
    BY <1>0, <2>1, <2>2 DEF Done, Become, Moves, Local, ExpirySteps, StoreSteps
  <2>. QED BY <1>3, <1>4, <2>1, <2>2, <2>3
<1>7. CASE Mark(p) /\ ~ (Throw(p) /\ UNCHANGED db)
  <2>1. Free /\ db' = [db EXCEPT !.queue = {k \in @ : k.rev # s.capsule.rev}] /\ Goto(p, "drain")
        /\ s.step = "mark"
    BY <1>7 DEF Mark, At
  <2>2. IsMemory(t) /\ t.step = "drain" /\ t.raw = s.raw /\ t.head = s.head /\ t.list = s.list
    BY <1>0, <2>1 DEF Goto, Become, IsMemory
  <2>3. Moves(p)
    BY <1>0, <2>1, <2>2 DEF Goto, Become, Moves, Local, ExpirySteps, StoreSteps
  <2>4. {k \in db.queue : k.rev # s.capsule.rev} \subseteq db.caps
    BY <1>4
  <2>. QED BY <1>3, <2>1, <2>2, <2>3, <2>4
<1>. QED BY <1>2, <1>5, <1>6, <1>7

(***************************************************************************)
(* The transaction of a capture.                                           *)
(***************************************************************************)
\* A step of it that leaves the rows, ...
LEMMA StoreStays ==
  ASSUME Core, NEW p \in Procs, Mine(p), Moves(p), proc'[p].step \in StoreSteps, OfCapture(proc[p])',
         UNCHANGED <<db, txn, raced, reverted, final, quarantine>>
  PROVE  Core'
<1>1. DoomsNoMore(p) /\ proc'[p].step \in TxnSteps /\ proc'[p].step \notin ExpirySteps
  BY DEF DoomsNoMore, TxnSteps, ExpirySteps, StoreSteps
<1>2. txn # None /\ txn.owner = p
  BY DEF Mine
<1>3. Index' /\ Memories' /\ Owners'
  BY <1>1, <1>2, InsideStep
<1>4. Transaction'
  BY <1>1, <1>2 DEF Core, Transaction, Honest
<1>5. Files'
  BY <1>1, FilesStay DEF Core, Indexed, NewRows, Free
<1>. QED BY <1>3, <1>4, <1>5 DEF Core

\* ... and one that publishes a blob.
LEMMA StorePublishes ==
  ASSUME Core, NoneIsNoTransaction, NEW p \in Procs, Mine(p), Moves(p), proc'[p].step \in StoreSteps, OfCapture(proc[p])',
         NEW c, Write([txn.db EXCEPT !.rows = @ \cup {c}]), final' = final \cup {c},
         UNCHANGED <<db, raced, reverted, quarantine>>
  PROVE  Core'
<1>1. DoomsNoMore(p) /\ proc'[p].step \in TxnSteps /\ proc'[p].step \notin ExpirySteps
  BY DEF DoomsNoMore, TxnSteps, ExpirySteps, StoreSteps
<1>2. /\ txn # None /\ txn.owner = p /\ txn = [owner |-> p, db |-> txn.db]
      /\ RowsOK(txn.db) /\ (reverted \/ Honest(txn.db))
  BY DEF Core, Transaction, Mine
<1>3. PICK rows : rows = [txn.db EXCEPT !.rows = @ \cup {c}]
  OBVIOUS
<1>4. txn' # None /\ txn'.owner = p /\ txn'.db = rows /\ txn' = [owner |-> txn'.owner, db |-> txn'.db]
  BY <1>2, <1>3, WriteFacts
<1>5. RowsOK(rows) /\ rows.rows = txn.db.rows \cup {c} /\ (Honest(txn.db) => Honest(rows))
  <2>1. IsRows(rows) /\ rows.rows = txn.db.rows \cup {c} /\ rows.old = txn.db.old /\ rows.caps = txn.db.caps
        /\ rows.queue = txn.db.queue
    BY <1>2, <1>3 DEF RowsOK, IsRows
  <2>. QED BY <1>2, <2>1, RowsWith
<1>6. Index' /\ Memories' /\ Owners'
  BY <1>1, <1>4, InsideStep
<1>7. Transaction'
  BY <1>1, <1>2, <1>4, <1>5 DEF Transaction, Honest
<1>8. Indexed' \subseteq Indexed \cup {c} /\ NewRows' \subseteq NewRows \cup {c}
  BY <1>2, <1>4, <1>5 DEF Indexed, NewRows, Free
<1>9. ASSUME NEW d, Kept(d) \/ d = c PROVE Kept(d)'
  BY <1>1, <1>9, DoomedBefore DEF Kept
<1>10. Files'
  BY <1>8, <1>9 DEF Core, Files
<1>. QED BY <1>6, <1>7, <1>10 DEF Core

\* The blobs of a snapshot and of its capsule are stored.
LEMMA PutCore ==
  ASSUME Core, NoneIsNoTransaction, NEW p \in Procs, PutRaw(p) \/ PutCapsule(p)
  PROVE  Core'
<1>. DEFINE s == proc[p]
            t == proc'[p]
<1>0. Local(s) /\ IsMemory(s) /\ DOMAIN proc = Procs
  BY MemoryFacts DEF Core
<1>1. s.step \in {"raw", "publish raw", "capsule", "publish capsule"} /\ s.step \in TxnSteps
      /\ s.step \in StoreSteps
  BY DEF PutRaw, PutCapsule, Put, Publish, At, TxnSteps, StoreSteps
<1>2. Mine(p) /\ OfCapture(s) /\ txn = [owner |-> p, db |-> txn.db] /\ RowsOK(txn.db)
  BY <1>1, TransactionFacts
<1>3. UNCHANGED <<db, quarantine, raced, reverted>>
  BY DEF PutRaw, PutCapsule, Put, Publish, Calm
<1>4. ASSUME NEW next \in StoreSteps, Become(p, [s EXCEPT !.step = next]) \/ \E c : Become(p, [s EXCEPT !.step = next, !.made = @ \cup {c}])
      PROVE  Moves(p) /\ t.step = next /\ t.raw = s.raw /\ t.capsule = s.capsule
  <2>1. IsMemory(t) /\ t.step = next /\ t.raw = s.raw /\ t.head = s.head /\ t.capsule = s.capsule
    BY ZenonT(120), <1>0, <1>4 DEF Become, IsMemory
  <2>2. DOMAIN proc' = Procs /\ \A q \in Procs : q # p => proc'[q] = proc[q]
    BY <1>0, <1>4 DEF Become
  <2>3. Local(t)
    BY <1>0, <1>1, <2>1 DEF Local, ExpirySteps, StoreSteps
  <2>. QED BY <2>1, <2>2, <2>3 DEF Moves
<1>5. CASE Put(p, s.raw, "raw", "capsule")
  <2>1. UNCHANGED <<txn, final>>
    BY <1>5 DEF Put
  <2>2. CASE s.raw \in txn.db.rows
    <3>1. Moves(p) /\ t.step = "capsule" /\ t.raw = s.raw
      BY <1>4, <1>5, <2>2 DEF Put, Goto, StoreSteps
    <3>. QED BY <1>2, <1>3, <2>1, <2>2, <3>1, StoreStays DEF OfCapture, StoreSteps
  <2>3. CASE s.raw \notin txn.db.rows
    <3>1. Moves(p) /\ t.step = "publish raw"
      BY <1>4, <1>5, <2>3 DEF Put, Goto, StoreSteps
    <3>. QED BY <1>2, <1>3, <2>1, <3>1, StoreStays DEF OfCapture, StoreSteps
  <2>. QED BY <2>2, <2>3
<1>6. CASE Put(p, s.capsule, "capsule", "record")
  <2>1. UNCHANGED <<txn, final>> /\ s.raw \in txn.db.rows
    BY <1>2, <1>6 DEF Put, At, OfCapture
  <2>2. CASE s.capsule \in txn.db.rows
    <3>1. Moves(p) /\ t.step = "record" /\ t.raw = s.raw /\ t.capsule = s.capsule
      BY <1>4, <1>6, <2>2 DEF Put, Goto, StoreSteps
    <3>. QED BY <1>2, <1>3, <2>1, <2>2, <3>1, StoreStays DEF OfCapture, StoreSteps
  <2>3. CASE s.capsule \notin txn.db.rows
    <3>1. Moves(p) /\ t.step = "publish capsule" /\ t.raw = s.raw
      BY <1>4, <1>6, <2>3 DEF Put, Goto, StoreSteps
    <3>. QED BY <1>2, <1>3, <2>1, <3>1, StoreStays DEF OfCapture, StoreSteps
  <2>. QED BY <2>2, <2>3
<1>7. CASE Publish(p, s.raw, "publish raw", "capsule")
  <2>1. Write([txn.db EXCEPT !.rows = @ \cup {s.raw}]) /\ final' = final \cup {s.raw}
    BY <1>7 DEF Publish
  <2>2. Moves(p) /\ t.step = "capsule" /\ t.raw = s.raw
    BY <1>4, <1>7 DEF Publish, StoreSteps
  <2>3. txn'.db.rows = txn.db.rows \cup {s.raw}
    BY <1>2, <2>1 DEF Write, RowsOK, IsRows
  <2>4. OfCapture(s)'
    BY <2>2, <2>3 DEF OfCapture
  <2>. QED BY <1>2, <1>3, <2>1, <2>2, <2>4, StorePublishes DEF StoreSteps
<1>8. CASE Publish(p, s.capsule, "publish capsule", "record")
  <2>1. Write([txn.db EXCEPT !.rows = @ \cup {s.capsule}]) /\ final' = final \cup {s.capsule}
        /\ s.raw \in txn.db.rows
    BY <1>2, <1>8 DEF Publish, At, OfCapture
  <2>2. Moves(p) /\ t.step = "record" /\ t.raw = s.raw /\ t.capsule = s.capsule
    BY <1>4, <1>8 DEF Publish, StoreSteps
  <2>3. txn'.db.rows = txn.db.rows \cup {s.capsule}
    BY <1>2, <2>1 DEF Write, RowsOK, IsRows
  <2>4. OfCapture(s)'
    BY <2>1, <2>2, <2>3 DEF OfCapture
  <2>. QED BY <1>2, <1>3, <2>1, <2>2, <2>4, StorePublishes DEF StoreSteps
<1>. QED BY <1>5, <1>6, <1>7, <1>8 DEF PutRaw, PutCapsule

\* It begins, ...
LEMMA BeginCommitCore ==
  ASSUME Core, NoneIsNoTransaction, NEW p \in Procs, BeginCommit(p)
  PROVE  Core'
<1>. DEFINE s == proc[p]
            t == proc'[p]
<1>0. Local(s) /\ IsMemory(s) /\ DOMAIN proc = Procs
  BY MemoryFacts DEF Core
<1>1. s.step = "begin" /\ s.step \notin TxnSteps /\ UNCHANGED <<db, final, quarantine, raced, reverted>>
  BY DEF BeginCommit, Busy, Calm, files, At, TxnSteps, ExpirySteps, StoreSteps
<1>2. CASE ~ Free
  BY <1>1, <1>2, ThrowCore DEF BeginCommit, Busy
<1>3. CASE Free
  <2>1. IsMemory(t) /\ t.step = "raw" /\ t.raw = s.raw /\ t.head = s.head /\ t.capsule = s.capsule
    BY <1>0, <1>3 DEF BeginCommit, Busy, Goto, Become, IsMemory
  <2>2. Moves(p)
    BY <1>0, <1>1, <1>3, <2>1 DEF BeginCommit, Busy, Goto, Become, Moves, Local, ExpirySteps, StoreSteps
  <2>3. txn' = [owner |-> p, db |-> db] /\ txn' # None
    BY <1>3 DEF BeginCommit, Busy, NoneIsNoTransaction
  <2>. QED BY <1>1, <1>3, <2>1, <2>2, <2>3, BeginCore DEF DoomsNoMore
<1>. QED BY <1>2, <1>3

\* ... and records the capsule at its end.
LEMMA CommitCaptureCore ==
  ASSUME Core, NEW p \in Procs, CommitCapture(p)
  PROVE  Core'
<1>. DEFINE s == proc[p]
            t == proc'[p]
<1>0. Local(s) /\ IsMemory(s) /\ DOMAIN proc = Procs
  BY MemoryFacts DEF Core
<1>1. s.step = "record" /\ s.step \in TxnSteps /\ txn' = None /\ UNCHANGED <<final, quarantine, raced, reverted>>
  BY DEF CommitCapture, Abort, Calm, files, At, TxnSteps, StoreSteps
<1>2. Mine(p) /\ ~ Free /\ OfCapture(s) /\ RowsOK(txn.db) /\ (reverted \/ Honest(txn.db))
  BY <1>1, TransactionFacts
<1>3. CASE Conflicts(p)
  <2>1. db' = db /\ Goto(p, "undo")
    BY <1>3 DEF CommitCapture, Abort
  <2>2. IsMemory(t) /\ t.step = "undo" /\ t.raw = s.raw /\ t.head = s.head
    BY <1>0, <2>1 DEF Goto, Become, IsMemory
  <2>3. Moves(p) /\ DoomsNoMore(p) /\ t.step \notin TxnSteps
    BY <1>0, <2>1, <2>2 DEF Goto, Become, Moves, Local, DoomsNoMore, TxnSteps, ExpirySteps, StoreSteps
  <2>. QED BY <1>1, <1>2, <2>1, <2>3, AbortCore
<1>4. CASE ~ Conflicts(p)
  <2>1. PICK k : k = s.capsule
    OBVIOUS
  <2>2. db' = [txn.db EXCEPT !.caps = @ \cup {k}] /\ (Goto(p, "enqueue") \/ Throw(p))
    BY <1>4, <2>1 DEF CommitCapture
  <2>3. Capsule(k) /\ k.raw = s.raw
    BY <1>0, <1>1, <2>1 DEF Local, StoreSteps
  <2>4. k \in txn.db.rows /\ k.raw \in txn.db.rows /\ \A l \in txn.db.caps : l.rev = k.rev => l = k
    BY <1>1, <1>2, <1>4, <2>1, <2>3 DEF OfCapture, Conflicts
  <2>5. RowsOK(db') /\ db'.rows = txn.db.rows /\ (Honest(txn.db) => Honest(db'))
    BY <1>2, <2>2, <2>3, <2>4, RowsRecorded
  <2>6. Moves(p) /\ DoomsNoMore(p) /\ t.step \notin TxnSteps
    <3>1. CASE Throw(p)
      BY <3>1, ThrowMoves DEF Core
    <3>2. CASE Goto(p, "enqueue")
      <4>1. IsMemory(t) /\ t.step = "enqueue" /\ t.raw = s.raw /\ t.head = s.head /\ t.capsule = s.capsule
        BY <1>0, <3>2 DEF Goto, Become, IsMemory
      <4>2. s.capsule.rev \in Nat
        BY <2>1, <2>3 DEF Capsule
      <4>. QED BY <1>0, <3>2, <4>1, <4>2 DEF Goto, Become, Moves, Local, DoomsNoMore, TxnSteps, ExpirySteps, StoreSteps
    <3>. QED BY <2>2, <3>1, <3>2
  <2>7. Index' /\ Memories' /\ Owners' /\ Transaction'
    BY <1>1, <1>2, <2>5, <2>6, LastStep
  <2>8. Indexed' \subseteq Indexed /\ NewRows' \subseteq NewRows
    BY <1>1, <1>2, <2>5 DEF Indexed, NewRows, Free
  <2>9. Files'
    BY <1>1, <2>6, <2>8, FilesStay DEF Core
  <2>. QED BY <2>7, <2>9 DEF Core
<1>. QED BY <1>3, <1>4

(***************************************************************************)
(* Time and faults.                                                        *)
(***************************************************************************)
LEMMA AgeCore ==
  ASSUME Core, VaultAssumption, NEW c \in Raws, Age(c)
  PROVE  Core'
<1>1. /\ Free /\ db' = [db EXCEPT !.old = @ \cup {c}] /\ c \in db.rows
      /\ UNCHANGED <<txn, final, quarantine, proc, raced, reverted>>
  BY DEF Age, files
<1>2. RowsOK(db)
  BY DEF Core, Index
<1>3. c \in db.rows \cap Raws
  BY <1>1
<1>4. RowsOK(db') /\ db'.rows = db.rows /\ (Honest(db) => Honest(db'))
  BY <1>1, <1>2, <1>3, RowsAged
<1>5. reverted' \/ Honest(db')
  BY <1>1, <1>4 DEF Core, Index
<1>6. Relay \in Procs /\ Moves(Relay) /\ DoomsNoMore(Relay)
  BY <1>1 DEF VaultAssumption, Core, Memories, Moves, DoomsNoMore
<1>7. proc'[Relay].step \notin TxnSteps
  BY <1>1, <1>6 DEF Core, Owners, Mine, Free
<1>. QED BY <1>1, <1>4, <1>5, <1>6, <1>7, EditCore

LEMMA FaultCore ==
  ASSUME Core, NEW p \in Procs, FailWrite(p) \/ Crash(p)
  PROVE  Core'
<1>. DEFINE s == proc[p]
            t == proc'[p]
<1>0. Local(s) /\ IsMemory(s) /\ DOMAIN proc = Procs
  BY MemoryFacts DEF Core
<1>1. UNCHANGED <<db, final, quarantine, raced, reverted>>
  BY DEF FailWrite, Crash
<1>2. CASE FailWrite(p)
  <2>1. Mine(p) /\ txn' = None /\ Goto(p, "undo")
    BY <1>2 DEF FailWrite, Abort
  <2>2. IsMemory(t) /\ t.step = "undo" /\ t.raw = s.raw /\ t.head = s.head
    BY <1>0, <2>1 DEF Goto, Become, IsMemory
  <2>3. Moves(p) /\ DoomsNoMore(p) /\ t.step \notin TxnSteps
    BY <1>0, <2>1, <2>2 DEF Goto, Become, Moves, Local, DoomsNoMore, TxnSteps, ExpirySteps, StoreSteps
  <2>. QED BY <1>1, <2>1, <2>3, AbortCore
<1>3. CASE Crash(p)
  <2>1. Throw(p) /\ txn' = IF Mine(p) THEN None ELSE txn
    BY <1>3 DEF Crash
  <2>2. Moves(p) /\ DoomsNoMore(p) /\ t.step \notin TxnSteps
    BY <2>1, ThrowMoves DEF Core
  <2>3. CASE Mine(p)
    BY <1>1, <2>1, <2>2, <2>3, AbortCore
  <2>4. CASE ~ Mine(p)
    <3>1. s.step \notin TxnSteps
      BY <2>4 DEF Core, Owners
    <3>. QED BY <1>1, <2>1, <2>2, <2>4, <3>1, QuietCore
  <2>. QED BY <2>3, <2>4
<1>. QED BY <1>2, <1>3

\* HQ's head comes from an upload.
LEMMA HeadStep ==
  ASSUME Memories, Head, Next
  PROVE  Head'
<1>1. CASE hq' = hq
  BY <1>1 DEF Head
<1>2. ASSUME NEW p \in Procs, Upload(p) \/ LoseAnswer(p) PROVE Head'
  <2>1. proc[p].step = "upload" /\ (hq' = hq \/ hq' = proc[p].capsule)
    BY <1>2 DEF Upload, LoseAnswer, At
  <2>. QED BY <2>1 DEF Head, Memories, Local
<1>3. ASSUME NEW p \in Procs, Retention(p) PROVE hq' = hq
  BY ZenonT(120), <1>3 DEF Retention, Calm, RestoreLook, RestoreMove, Restored, Sweep, Swept, SelectExpired, BeginExpiry, MoveAside,
       DeleteRow, WriteRevision, PublishRevision, CommitExpiry, Purge, UndoMade, UndoMoved, Undone
<1>4. ASSUME NEW p \in Procs, Capture(p) PROVE hq' = hq
  BY <1>4 DEF Capture, Calm, FetchHead, Discard, DropRow, DropFile, Dropped, ReadLatest, BeginCommit,
       PutRaw, PutCapsule, Put, Publish, CommitCapture, Enqueue
<1>5. ASSUME NEW p \in Procs, Take(p) \/ Drained(p) \/ Mark(p) PROVE hq' = hq
  BY <1>5 DEF Calm, Take, Drained, Mark
<1>6. ASSUME NEW p \in Procs, Open(p) \/ Close(p) \/ Drain(p) \/ Retire(p) \/ FailWrite(p) \/ Crash(p) PROVE hq' = hq
  BY <1>6 DEF Calm, Open, Close, Drain, Retire, FailWrite, Crash
<1>7. ASSUME NEW p \in Procs, NEW raw, NEW sync, BeginCapture(p, raw, sync) PROVE hq' = hq
  BY <1>7 DEF BeginCapture
<1>8. ASSUME NEW c, Age(c) PROVE hq' = hq
  BY <1>8 DEF Age
<1>. QED BY <1>1, <1>2, <1>3, <1>4, <1>5, <1>6, <1>7, <1>8 DEF Next, Work, Sync

\* Temporary files have a writer, and files aside a name.
LEMMA NamesStep ==
  ASSUME Names, Next
  PROVE  Names'
<1>1. ASSUME NEW p \in Procs, Open(p) \/ Close(p) \/ Drain(p) \/ Retire(p) \/ Sync(p) PROVE UNCHANGED <<temps, quarantine>>
  BY <1>1 DEF Open, Close, Drain, Retire, Sync, Take, Drained, Upload, Mark, files
<1>2. ASSUME NEW p \in Procs, NEW raw, NEW sync, BeginCapture(p, raw, sync) PROVE UNCHANGED <<temps, quarantine>>
  BY <1>2 DEF BeginCapture, files
<1>3. ASSUME NEW c, Age(c) PROVE UNCHANGED <<temps, quarantine>>
  BY <1>3 DEF Age, files
<1>4. ASSUME NEW p \in Procs, Retention(p) PROVE Names'
  <2>1. CASE UNCHANGED <<temps, quarantine>>
    BY <2>1 DEF Names
  <2>2. CASE RestoreMove(p)
    BY <2>2 DEF Names, RestoreMove
  <2>3. CASE Sweep(p)
    BY <2>3 DEF Names, Sweep, files
  <2>4. CASE MoveAside(p)
    <3>1. temps' = temps /\ \A e \in quarantine' : e \in quarantine \/ \E c, n : e = <<c, n>> /\ n \in Suffixes
      <4>1. temps' = temps
        BY <2>4 DEF MoveAside
      <4>2. CASE quarantine' = quarantine
        BY <4>1, <4>2
      <4>3. CASE quarantine' # quarantine
        <5>1. PICK c : Fresh(c) # {} /\ quarantine' = quarantine \cup {<<c, CHOOSE n \in Fresh(c) : TRUE>>}
          BY <2>4, <4>3 DEF MoveAside
        <5>2. PICK n \in Fresh(c) : quarantine' = quarantine \cup {<<c, n>>}
          BY <5>1
        <5>3. n \in Suffixes
          BY DEF Fresh
        <5>. QED BY <4>1, <5>2, <5>3
      <4>. QED BY <4>2, <4>3
    <3>. QED BY <3>1 DEF Names
  <2>5. CASE WriteRevision(p)
    BY <2>5 DEF Names, WriteRevision
  <2>6. CASE PublishRevision(p)
    BY <2>6 DEF Names, PublishRevision
  <2>7. CASE Purge(p)
    BY <2>7 DEF Names, Purge
  <2>8. CASE UndoMoved(p)
    BY <2>8 DEF Names, UndoMoved
  <2>. QED BY <1>4, <2>1, <2>2, <2>3, <2>4, <2>5, <2>6, <2>7, <2>8
           DEF Retention, files, RestoreLook, Restored, Swept, SelectExpired, BeginExpiry, Busy,
               DeleteRow, CommitExpiry, UndoMade, Undone
<1>5. ASSUME NEW p \in Procs, Capture(p) PROVE Names'
  <2>1. quarantine' = quarantine /\ \A t \in temps' : t \in temps \/ \E c : t = <<c, p>>
    BY <1>5 DEF Capture, files, FetchHead, Discard, DropRow, DropFile, Dropped, ReadLatest, BeginCommit, Busy,
         PutRaw, PutCapsule, Put, Publish, CommitCapture, Enqueue
  <2>. QED BY <2>1 DEF Names
<1>6. ASSUME NEW p \in Procs, FailWrite(p) \/ Crash(p) \/ LoseAnswer(p) PROVE Names'
  <2>1. quarantine' = quarantine /\ \A t \in temps' : t \in temps \/ \E c : t = <<c, Dead>>
    BY <1>6 DEF FailWrite, Crash, LoseAnswer, files
  <2>. QED BY <2>1 DEF Names
<1>. QED BY <1>1, <1>2, <1>3, <1>4, <1>5, <1>6 DEF Next, Work, Names

(***************************************************************************)
(* The theorems.                                                           *)
(***************************************************************************)
LEMMA InitVault ==
  ASSUME VaultAssumption, Init
  PROVE  VaultInv
<1>1. Honest(db)
  BY NewestOfNone DEF Init, Honest
<1>2. Chain({})
  BY DEF Chain
<1>3. RowsOK(db)
  BY <1>2 DEF Init, RowsOK, IsRows
<1>4. Memories
  BY AsleepLocal DEF Init, Memories
<1>5. Asleep.step = "idle"
  BY DEF Asleep
<1>6. Owners
  BY <1>5 DEF Init, Owners, Mine, TxnSteps, ExpirySteps, StoreSteps
<1>7. Transaction /\ Head /\ Names
  BY DEF Init, Transaction, Head, Names
<1>8. Files
  BY DEF Init, Files, Indexed, NewRows, Free
<1>. QED BY <1>1, <1>3, <1>4, <1>6, <1>7, <1>8 DEF VaultInv, Index

LEMMA CoreStep ==
  ASSUME VaultAssumption, CapsulesAreNoSnapshots, NoneIsNoTransaction, Core, Head, Next
  PROVE  Core'
<1>1. ASSUME NEW p \in Procs, Retention(p) \/ Open(p) PROVE Core'
  BY <1>1, OpeningCore, ExpiryBegins, MoveAsideCore, DeleteRowCore, WriteRevisionCore, PublishRevisionCore,
     CommitExpiryCore, PurgeCore, UndoCore DEF Retention
<1>2. ASSUME NEW p \in Procs, Capture(p) PROVE Core'
  BY <1>2, ThinkingCore, DiscardCore, DropCore, BeginCommitCore, PutCore, CommitCaptureCore, QueueCore DEF Capture
<1>3. ASSUME NEW p \in Procs, Sync(p) \/ Close(p) \/ Drain(p) \/ Retire(p) PROVE Core'
  BY <1>3, ThinkingCore, QueueCore DEF Sync
<1>4. ASSUME NEW p \in Procs, FailWrite(p) \/ Crash(p) \/ LoseAnswer(p) PROVE Core'
  BY <1>4, FaultCore, ThinkingCore
<1>5. ASSUME NEW p \in Procs, NEW raw \in Raws, NEW sync \in BOOLEAN, BeginCapture(p, raw, sync) PROVE Core'
  BY <1>5, ThinkingCore
<1>6. ASSUME NEW c \in Raws, Age(c) PROVE Core'
  BY <1>6, AgeCore
<1>. QED BY <1>1, <1>2, <1>3, <1>4, <1>5, <1>6 DEF Next, Work

LEMMA VaultStep ==
  ASSUME VaultAssumption, CapsulesAreNoSnapshots, NoneIsNoTransaction, VaultInv, [Next]_vars
  PROVE  VaultInv'
<1>1. CASE Next
  BY <1>1, CoreStep, HeadStep, NamesStep DEF VaultInv, Core
<1>2. CASE UNCHANGED vars
  <2>1. Index' /\ Head' /\ Memories' /\ Owners' /\ Names'
    BY <1>2 DEF vars, files, bounds, VaultInv, Index, Head, Memories, Owners, Names, Honest, Mine
  <2>2. Transaction'
    BY <1>2 DEF vars, files, bounds, VaultInv, Transaction, OfExpiry, OfCapture, Honest
  <2>3. Files'
    BY <1>2 DEF vars, files, bounds, VaultInv, Files, Indexed, NewRows, Free, Kept, Doomed, At
  <2>. QED BY <2>1, <2>2, <2>3 DEF VaultInv
<1>. QED BY <1>1, <1>2

LEMMA VaultInvIsEnough ==
  ASSUME VaultInv
  PROVE  VaultSafe
<1>1. TypeOK
  <2>1. RowsOK(db)
    BY DEF VaultInv, Index
  <2>. QED BY <2>1 DEF VaultInv, Memories, Owners, Names, RowsOK, TypeOK
<1>2. OneChain
  BY DEF VaultInv, Index, RowsOK, Chain, OneChain
<1>3. raced \/ FilesOfRows
  BY DEF VaultInv, Files, Indexed, Kept, FilesOfRows, HasFile
<1>4. reverted \/ IndexHonest
  BY DEF VaultInv, Index, IndexHonest
<1>. QED BY <1>1, <1>2, <1>3, <1>4 DEF VaultSafe

\* Whatever processes open, capture, drain, expire, crash and fail, the rows, the open
\* transaction, the files and what each process remembers of them stay in this relation.
THEOREM VaultHolds ==
  ASSUME CapsulesAreNoSnapshots, NoneIsNoTransaction
  PROVE  Spec => []VaultInv
<1>1. Init => VaultInv
  BY InitVault, VaultAssumption
<1>2. VaultInv /\ [Next]_vars => VaultInv'
  BY VaultStep, VaultAssumption
<1>. QED BY <1>1, <1>2, PTL DEF Spec

\* A committed row keeps its file, at its address or aside where the next opening finds
\* it, unless a clean-up unlinked an address outside the lock; a revision has one
\* capsule, and the newest claims its snapshot only while it is in the vault, unless a
\* discard has uncovered an older claim.
THEOREM VaultIsSafe ==
  ASSUME CapsulesAreNoSnapshots, NoneIsNoTransaction
  PROVE  Spec => []VaultSafe
<1>1. VaultInv => VaultSafe
  BY VaultInvIsEnough
<1>. QED BY <1>1, VaultHolds, PTL

=============================================================================
